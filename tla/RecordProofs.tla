----------------------------- MODULE RecordProofs -----------------------------
(***************************************************************************)
(* What users are shown is so, for any number of jobs, streams and forms   *)
(* (CompositionViews), assets, tokens and requests (AssetFiles), rows and  *)
(* transactions (CreditHistory).                                           *)
(***************************************************************************)
EXTENDS MCRecords, Integers, Sequences, FiniteSetTheorems, TLAPS

\* Nothing is settled, read or answered at first.
LEMMA InitInv == Init => IInv
<1> SUFFICES ASSUME Init
             PROVE  IInv
  OBVIOUS
<1> USE DEF Init, Lifecycle!Init, NoStream, NoForm
<1>1. ViewTypes
  BY DEF ViewTypes, Answers, Terminal
<1>2. PaymentFollowsStatus /\ ReadsWereTrue
  BY DEF PaymentFollowsStatus, ReadsWereTrue
<1>3. OneWriter
  BY DEF OneWriter
<1>4. ViewsAreHonest
  BY DEF ViewsAreHonest, ReportsAgree, FirstAnswerStands
<1> QED
  BY <1>1, <1>2, <1>3, <1>4 DEF IInv

\* What the jobs can do: a result may become a failure, and a failure stays.
LEMMA LifecycleKeeps ==
  ASSUME IInv, Lifecycle!Next
  PROVE  /\ status' \in [Jobs -> {"ABSENT", "PROCESSING", "COMPLETED", "FAILED"}]
         /\ payment' \in [Jobs -> {"NONE", "DEDUCTED", "REFUNDED"}]
         /\ PaymentFollowsStatus'
         /\ \A j \in Jobs : status[j] = "FAILED" => status'[j] = "FAILED"
         /\ \A j \in Jobs : status[j] = "COMPLETED" => status'[j] \in Terminal
<1> USE DEF IInv, ViewTypes, PaymentFollowsStatus, Terminal
<1>1. PICK j \in Jobs : Lifecycle!Accept(j) \/ Lifecycle!Settle(j) \/ Lifecycle!Retract(j)
  BY DEF Lifecycle!Next
<1>2. CASE Lifecycle!Accept(j)
  BY <1>2 DEF Lifecycle!Accept
<1>3. CASE Lifecycle!Complete(j)
  BY <1>3 DEF Lifecycle!Complete
<1>4. CASE Lifecycle!Fail(j)
  BY <1>4 DEF Lifecycle!Fail
<1>5. CASE Lifecycle!Retract(j)
  BY <1>5 DEF Lifecycle!Retract
<1>6. ASSUME NEW k \in Jobs, Lifecycle!Replace(j, k)
      PROVE  /\ status' \in [Jobs -> {"ABSENT", "PROCESSING", "COMPLETED", "FAILED"}]
             /\ payment' \in [Jobs -> {"NONE", "DEDUCTED", "REFUNDED"}]
             /\ PaymentFollowsStatus'
             /\ \A i \in Jobs : status[i] = "FAILED" => status'[i] = "FAILED"
             /\ \A i \in Jobs : status[i] = "COMPLETED" => status'[i] \in Terminal
  BY <1>6 DEF Lifecycle!Replace
<1> QED
  BY <1>1, <1>2, <1>3, <1>4, <1>5, <1>6 DEF Lifecycle!Settle

\* The jobs go on under what streams and forms have read of them.
LEMMA JobStepInv == ASSUME IInv, JobStep PROVE IInv'
<1>1. UNCHANGED <<watching, answering>>
  BY DEF JobStep
<1>2. /\ status' \in [Jobs -> {"ABSENT", "PROCESSING", "COMPLETED", "FAILED"}]
      /\ payment' \in [Jobs -> {"NONE", "DEDUCTED", "REFUNDED"}]
      /\ PaymentFollowsStatus'
      /\ \A j \in Jobs : status[j] = "FAILED" => status'[j] = "FAILED"
      /\ \A j \in Jobs : status[j] = "COMPLETED" => status'[j] \in Terminal
  BY LifecycleKeeps DEF JobStep
<1> USE <1>1 DEF watching, answering
<1>3. ViewTypes'
  BY <1>2 DEF IInv, ViewTypes
<1>4. ReadsWereTrue'
  BY <1>2 DEF IInv, ViewTypes, ReadsWereTrue, Terminal
<1>5. OneWriter'
  BY DEF IInv, OneWriter
<1>6. ViewsAreHonest'
  BY <1>2 DEF IInv, ViewTypes, ViewsAreHonest, ReportsAgree, FirstAnswerStands
<1> QED
  BY <1>2, <1>3, <1>4, <1>5, <1>6 DEF IInv

\* A stream adds what the settlement is when it reports, at or after the read.
LEMMA StreamInv == ASSUME IInv, NEW v \in Streams, StreamStep(v) PROVE IInv'
<1>1. UNCHANGED <<jobs, answering>>
  BY DEF StreamStep, Connect, ReadStatus, ReportResult, CloseStream
<1> USE <1>1 DEF jobs, answering
<1>2. PaymentFollowsStatus' /\ OneWriter' /\ FirstAnswerStands'
  BY DEF IInv, PaymentFollowsStatus, OneWriter, ViewsAreHonest, FirstAnswerStands
<1>3. ViewTypes' /\ ReadsWereTrue' /\ ReportsAgree'
  <2> USE DEF IInv, ViewTypes, ReadsWereTrue, ViewsAreHonest, ReportsAgree
  <2>1. CASE Connect(v)
    BY <2>1 DEF Connect, NoStream, Terminal
  <2>2. CASE ReadStatus(v)
    BY <2>2 DEF ReadStatus, Terminal, find_by_id
  <2>3. CASE ReportResult(v)
    <3> DEFINE j == stream[v].job
    <3> DEFINE e == [job |-> j, status |-> stream[v].seen, settlement |-> Settlement(j)]
    <3>1. events' = events \cup {e} /\ stream' = [stream EXCEPT ![v] = NoStream]
      BY <2>3 DEF ReportResult
    <3>2. /\ j \in Jobs
          /\ \/ e.status = "FAILED" /\ e.settlement = Returned /\ status[j] = "FAILED"
             \/ e.status = "COMPLETED" /\ e.settlement = Kept
             \/ e.status = "COMPLETED" /\ e.settlement = Returned /\ status[j] = "FAILED"
      BY <2>3 DEF ReportResult, PaymentFollowsStatus, Settlement, Uses, find_transactions_by_source,
                       Kept, Returned, Terminal
    <3>3. ViewTypes'
      BY <3>1, <3>2 DEF NoStream, Terminal
    <3>4. ReadsWereTrue'
      BY <3>1 DEF NoStream
    <3>5. ReportsAgree'
      BY <3>1, <3>2
    <3> QED
      BY <3>3, <3>4, <3>5
  <2>4. CASE CloseStream(v)
    BY <2>4 DEF CloseStream, NoStream, Terminal
  <2> QED
    BY <2>1, <2>2, <2>3, <2>4 DEF StreamStep
<1> QED
  BY <1>2, <1>3 DEF IInv, ViewsAreHonest

\* Of the forms of a job one stores its answer; the others are told it.
LEMMA FormInv == ASSUME IInv, NEW f \in Forms, FormStep(f) PROVE IInv'
<1>1. UNCHANGED <<jobs, watching>>
  BY DEF FormStep, CheckJob, ShowAnswer, CreateOnce, AlreadyAnswered, CommitAnswer, FormFails
<1> USE <1>1 DEF jobs, watching
<1>2. PaymentFollowsStatus' /\ ReadsWereTrue' /\ ReportsAgree'
  BY DEF IInv, PaymentFollowsStatus, ReadsWereTrue, ViewsAreHonest, ReportsAgree
<1>3. ViewTypes' /\ OneWriter' /\ FirstAnswerStands'
  <2> USE ViewsAssumption DEF IInv, ViewTypes, OneWriter, ViewsAreHonest, FirstAnswerStands
  <2>1. CASE CheckJob(f)
    BY <2>1 DEF CheckJob, NoForm, find_by_id
  <2>2. CASE ShowAnswer(f)
    BY <2>2 DEF ShowAnswer, NoForm, find_by_job_id
  <2>3. CASE CreateOnce(f)
    BY <2>3 DEF CreateOnce, RowIsFree
  <2>4. CASE AlreadyAnswered(f)
    BY <2>4 DEF AlreadyAnswered, NoForm
  <2>5. CASE CommitAnswer(f)
    BY <2>5 DEF CommitAnswer, NoForm, Answers
  <2>6. CASE FormFails(f)
    BY <2>6 DEF FormFails, NoForm
  <2> QED
    BY <2>1, <2>2, <2>3, <2>4, <2>5, <2>6 DEF FormStep
<1> QED
  BY <1>2, <1>3 DEF IInv, ViewsAreHonest

\* Every step of jobs, streams and forms keeps the invariant.
LEMMA NextInv == IInv /\ [Next]_vars => IInv'
<1> SUFFICES ASSUME IInv, [Next]_vars
             PROVE  IInv'
  OBVIOUS
<1>1. CASE JobStep
  BY <1>1, JobStepInv
<1>2. ASSUME NEW v \in Streams, StreamStep(v) PROVE IInv'
  BY <1>2, StreamInv
<1>3. ASSUME NEW f \in Forms, FormStep(f) PROVE IInv'
  BY <1>3, FormInv
<1>4. CASE UNCHANGED vars
  BY <1>4 DEF vars, jobs, watching, answering, IInv, ViewTypes, PaymentFollowsStatus,
              ReadsWereTrue, OneWriter, ViewsAreHonest, ReportsAgree, FirstAnswerStands
<1> QED
  BY <1>1, <1>2, <1>3, <1>4 DEF Next

\* What a client is told of a settlement agrees with the status it is told, and
\* an answer once confirmed or shown is the one that is stored.
THEOREM ViewsTheorem == Spec => []ViewsAreHonest
<1>1. IInv => ViewsAreHonest
  BY DEF IInv
<1> QED
  BY <1>1, InitInv, NextInv, PTL DEF Spec

-----------------------------------------------------------------------------
(* Assets, their links and the move of their files.                        *)

\* There is nothing at first.
LEMMA AssetsStart ==
  ASSUME A!AssetAssumption, A!Init
  PROVE  A!IInv
<1> USE DEF A!AssetAssumption, A!Init, A!NoRow, A!Idle, A!NoManifest, A!Stopped, A!NoFile
<1>1. A!TypeOK
  BY DEF A!TypeOK, A!Ids
<1>2. A!Fits
  BY <1>1 DEF A!Fits, A!AssetRow
<1>3. A!FilesAreWritten /\ A!ToolWorks
  BY DEF A!FilesAreWritten, A!ToolWorks, A!Ids
<1>4. A!ReviewHolds /\ A!LinksLead
  BY DEF A!ReviewHolds, A!LinksLead
<1> QED
  BY <1>2, <1>3, <1>4 DEF A!IInv

\* A file is written where it is looked for from now on.
LEMMA WriteKeeps ==
  ASSUME A!AssetAssumption, A!IInv, NEW id \in A!Ids, A!Write(id)
  PROVE  A!IInv'
<1> USE DEF A!AssetAssumption, A!IInv
<1>1. /\ A!Open /\ written[id] < MaxWrites /\ written' = [written EXCEPT ![id] = @ + 1]
      /\ UNCHANGED <<assets, links, phase, manifest, tool, session>>
  BY DEF A!Write, A!move
<1>2. /\ A!Moved /\ id \in Photos => private' = [private EXCEPT ![id] = written[id] + 1] /\ public' = public
      /\ ~(A!Moved /\ id \in Photos) => public' = [public EXCEPT ![id] = written[id] + 1] /\ private' = private
  BY DEF A!Write, A!IsPrivate
<1>3. /\ public \in [A!Ids -> 0..MaxWrites] /\ private \in [A!Ids -> 0..MaxWrites]
      /\ written \in [A!Ids -> 0..MaxWrites]
  BY DEF A!Fits, A!TypeOK
<1>4. written[id] + 1 \in 0..MaxWrites /\ written[id] + 1 # 0
  BY <1>1, <1>3
<1>5. /\ public' \in [A!Ids -> 0..MaxWrites] /\ private' \in [A!Ids -> 0..MaxWrites]
      /\ written' \in [A!Ids -> 0..MaxWrites]
  BY <1>1, <1>2, <1>3, <1>4
<1>6. A!Fits'
  BY <1>1, <1>5 DEF A!Fits, A!TypeOK
<1>7. A!FilesAreWritten'
  BY <1>1, <1>2, <1>3, <1>4 DEF A!FilesAreWritten, A!Moved, A!NoFile, A!Ids
<1>8. A!ToolWorks' /\ A!LinksLead'
  BY <1>1 DEF A!ToolWorks, A!LinksLead
<1>9. ~manifest.paused \/ phase # "paused"
  BY <1>1 DEF A!Open
<1>10. manifest.paused => phase # "open" /\ tool.action # "verify"
  BY <1>1 DEF A!Open, A!ReviewHolds, A!ToolWorks, A!Stopped
<1>11. A!ReviewHolds'
  BY <1>1, <1>9, <1>10 DEF A!ReviewHolds
<1> QED
  BY <1>6, <1>7, <1>8, <1>11

\* A row is made without a token.
LEMMA CreateKeeps ==
  ASSUME A!AssetAssumption, A!IInv, NEW id \in A!Ids, A!Create(id)
  PROVE  A!IInv'
<1> USE DEF A!AssetAssumption, A!IInv
<1>1. /\ assets' = [assets EXCEPT ![id] = A!Asset(A!Location(id))]
      /\ UNCHANGED <<links, public, private, written, phase, manifest, tool, session>>
  BY DEF A!Create, A!files, A!move
<1>2. A!Asset(A!Location(id)) \in A!AssetRow /\ A!Asset(A!Location(id)).share_token = NoToken
  BY DEF A!Asset, A!Location, A!AssetRow
<1>3. assets \in [A!Ids -> A!AssetRow]
  BY DEF A!Fits, A!TypeOK, A!AssetRow
<1>4. assets' \in [A!Ids -> A!AssetRow]
  BY <1>1, <1>2, <1>3
<1>5. A!Fits'
  BY <1>1, <1>4 DEF A!Fits, A!TypeOK, A!AssetRow
<1>6. A!FilesAreWritten' /\ A!ToolWorks' /\ A!ReviewHolds'
  BY <1>1 DEF A!FilesAreWritten, A!ToolWorks, A!ReviewHolds, A!Moved
<1>7. A!LinksLead'
  BY <1>1, <1>2, <1>3 DEF A!LinksLead
<1> QED
  BY <1>5, <1>6, <1>7

\* What only requests change: rows, links and copies of rows.
LEMMA RequestKeeps ==
  ASSUME A!IInv, UNCHANGED <<public, private, written, phase, manifest, tool>>,
         assets' \in [A!Ids -> A!AssetRow], links' \subseteq [token : Tokens, id : A!Ids],
         session' \in [Requests -> [op : {"idle", "share", "delete"}, id : A!Ids \cup {NoAsset}, row : A!AssetRow]],
         \A w \in Requests : session'[w].op # "idle" => session'[w].id \in A!Ids,
         A!LinksLead'
  PROVE  A!IInv'
<1> USE DEF A!IInv
<1>1. A!Fits'
  BY DEF A!Fits, A!TypeOK, A!AssetRow
<1>2. A!FilesAreWritten' /\ A!ToolWorks' /\ A!ReviewHolds'
  BY DEF A!FilesAreWritten, A!ToolWorks, A!ReviewHolds, A!Moved
<1> QED
  BY <1>1, <1>2

\* A handler takes a copy of a row, or is done with it.
LEMMA ReadKeeps ==
  ASSUME A!AssetAssumption, A!IInv, NEW w \in Requests,
         (\E op \in {"share", "delete"}, id \in A!Ids : A!Read(w, op, id)) \/ A!Refuse(w)
  PROVE  A!IInv'
<1> USE DEF A!AssetAssumption
<1>1. /\ UNCHANGED <<assets, links, public, private, written, phase, manifest, tool>>
      /\ assets \in [A!Ids -> A!AssetRow] /\ links \subseteq [token : Tokens, id : A!Ids]
      /\ session \in [Requests -> [op : {"idle", "share", "delete"}, id : A!Ids \cup {NoAsset}, row : A!AssetRow]]
  BY DEF A!Read, A!Refuse, A!files, A!move, A!IInv, A!Fits, A!TypeOK, A!AssetRow
<1>2. PICK s \in [op : {"idle", "share", "delete"}, id : A!Ids \cup {NoAsset}, row : A!AssetRow] :
        /\ session' = [session EXCEPT ![w] = s]
        /\ s.op # "idle" => s.id \in A!Ids
        /\ s.row.share_token # NoToken => s.id \in A!Ids /\ s.row.share_token = assets[s.id].share_token
  <2>1. ASSUME NEW op \in {"share", "delete"}, NEW id \in A!Ids, A!Read(w, op, id)
        PROVE  session' = [session EXCEPT ![w] = [op |-> op, id |-> id, row |-> assets[id]]]
    BY <2>1 DEF A!Read
  <2>2. CASE A!Refuse(w)
    <3>1. session' = [session EXCEPT ![w] = A!Idle] /\ A!Idle.op = "idle" /\ A!Idle.row.share_token = NoToken
      BY <2>2 DEF A!Refuse, A!Idle, A!NoRow
    <3>2. A!Idle \in [op : {"idle", "share", "delete"}, id : A!Ids \cup {NoAsset}, row : A!AssetRow]
      BY DEF A!Idle, A!NoRow, A!AssetRow
    <3> QED
      BY <3>1, <3>2
  <2> QED
    BY <1>1, <2>1, <2>2
<1>3. session' \in [Requests -> [op : {"idle", "share", "delete"}, id : A!Ids \cup {NoAsset}, row : A!AssetRow]]
  BY <1>1, <1>2
<1>4. \A v \in Requests : session'[v].op # "idle" => session'[v].id \in A!Ids
  BY <1>1, <1>2 DEF A!IInv, A!Fits
<1>5. A!LinksLead'
  BY <1>1, <1>2 DEF A!IInv, A!LinksLead
<1> QED
  BY <1>1, <1>3, <1>4, <1>5, RequestKeeps

\* A row that is written back, however old its copy, has a token that leads to it.
LEMMA UpdateKeeps ==
  ASSUME A!AssetAssumption, A!IInv, NEW w \in Requests, session[w].id \in A!Ids,
         NEW row \in A!AssetRow, A!update(w, row),
         links' = links \/ \E t \in Tokens :
           (\A l \in links : l.token # t) /\ links' = links \cup {[token |-> t, id |-> session[w].id]},
         row.share_token # NoToken => [token |-> row.share_token, id |-> session[w].id] \in links'
  PROVE  A!IInv'
<1> USE DEF A!AssetAssumption
<1>1. /\ assets' = [assets EXCEPT ![session[w].id] = row]
      /\ session' = [session EXCEPT ![w] = A!Idle]
      /\ UNCHANGED <<public, private, written, phase, manifest, tool>>
  BY DEF A!update, A!files, A!move
<1>2. /\ assets \in [A!Ids -> A!AssetRow] /\ links \subseteq [token : Tokens, id : A!Ids]
      /\ session \in [Requests -> [op : {"idle", "share", "delete"}, id : A!Ids \cup {NoAsset}, row : A!AssetRow]]
  BY DEF A!IInv, A!Fits, A!TypeOK, A!AssetRow
<1>3. /\ A!Idle \in [op : {"idle", "share", "delete"}, id : A!Ids \cup {NoAsset}, row : A!AssetRow]
      /\ A!Idle.op = "idle" /\ A!Idle.row.share_token = NoToken
  BY DEF A!Idle, A!NoRow, A!AssetRow
<1>4. assets' \in [A!Ids -> A!AssetRow] /\ links' \subseteq [token : Tokens, id : A!Ids]
  BY <1>1, <1>2
<1>5. session' \in [Requests -> [op : {"idle", "share", "delete"}, id : A!Ids \cup {NoAsset}, row : A!AssetRow]]
  BY <1>1, <1>2, <1>3
<1>6. \A v \in Requests : session'[v].op # "idle" => session'[v].id \in A!Ids
  BY <1>1, <1>2, <1>3 DEF A!IInv, A!Fits
<1>7. links \subseteq links' /\ \A l, m \in links' : l.token = m.token => l.id = m.id
  <2>1. \A l, m \in links : l.token = m.token => l.id = m.id
    BY DEF A!IInv, A!LinksLead
  <2> QED
    BY <2>1
<1>8. \A i \in A!Ids : assets'[i].share_token # NoToken => [token |-> assets'[i].share_token, id |-> i] \in links'
  BY <1>1, <1>2, <1>7 DEF A!IInv, A!LinksLead
<1>9. \A v \in Requests : session'[v].row.share_token # NoToken
        => [token |-> session'[v].row.share_token, id |-> session'[v].id] \in links'
  BY <1>1, <1>2, <1>3, <1>7 DEF A!IInv, A!LinksLead
<1>10. A!LinksLead'
  BY <1>7, <1>8, <1>9 DEF A!LinksLead
<1> QED
  BY <1>1, <1>4, <1>5, <1>6, <1>10, RequestKeeps

\* A new token leads nowhere yet; the one a row has stays.
LEMMA ShareKeeps ==
  ASSUME A!AssetAssumption, A!IInv, NEW w \in Requests, A!Share(w)
  PROVE  A!IInv'
<1> USE DEF A!AssetAssumption
<1>1. /\ session[w] \in [op : {"idle", "share", "delete"}, id : A!Ids \cup {NoAsset}, row : A!AssetRow]
      /\ session[w].id \in A!Ids /\ links \subseteq [token : Tokens, id : A!Ids]
      /\ session[w].row.share_token # NoToken => [token |-> session[w].row.share_token, id |-> session[w].id] \in links
  BY DEF A!Share, A!IInv, A!Fits, A!TypeOK, A!LinksLead
<1>2. PICK t \in Tokens :
        /\ \A l \in links : l.token # t
        /\ A!update(w, A!enable_sharing(session[w].row, t))
        /\ links' = links \cup {[token |-> A!enable_sharing(session[w].row, t).share_token, id |-> session[w].id]}
  BY DEF A!Share
<1>3. PICK row \in A!AssetRow : row = A!enable_sharing(session[w].row, t)
  BY <1>1 DEF A!enable_sharing, A!AssetRow
<1>4. /\ session[w].row.share_token = NoToken => row.share_token = t
      /\ session[w].row.share_token # NoToken => row.share_token = session[w].row.share_token
  BY <1>1, <1>3 DEF A!enable_sharing, A!AssetRow
<1>5. CASE session[w].row.share_token = NoToken
  BY <1>1, <1>2, <1>3, <1>4, <1>5, UpdateKeeps
<1>6. CASE session[w].row.share_token # NoToken
  <2>1. links' = links
    BY <1>1, <1>2, <1>3, <1>4, <1>6
  <2> QED
    BY <1>1, <1>2, <1>3, <1>4, <1>6, <2>1, UpdateKeeps
<1> QED
  BY <1>5, <1>6

LEMMA DeleteKeeps ==
  ASSUME A!AssetAssumption, A!IInv, NEW w \in Requests, A!Delete(w)
  PROVE  A!IInv'
<1> USE DEF A!AssetAssumption
<1>1. /\ session[w] \in [op : {"idle", "share", "delete"}, id : A!Ids \cup {NoAsset}, row : A!AssetRow]
      /\ session[w].id \in A!Ids
      /\ session[w].row.share_token # NoToken => [token |-> session[w].row.share_token, id |-> session[w].id] \in links
  BY DEF A!Delete, A!IInv, A!Fits, A!LinksLead
<1>2. PICK row \in A!AssetRow : row = [session[w].row EXCEPT !.status = "DELETED"]
  BY <1>1 DEF A!AssetRow
<1>3. row.share_token = session[w].row.share_token
  BY <1>1, <1>2 DEF A!AssetRow
<1>4. A!update(w, row) /\ links' = links
  BY <1>2 DEF A!Delete
<1> QED
  BY <1>1, <1>3, <1>4, UpdateKeeps

\* What the move leaves alone.
LEMMA MoveKeeps ==
  ASSUME A!IInv, UNCHANGED <<assets, links, written, session>>,
         public' \in [A!Ids -> 0..MaxWrites], private' \in [A!Ids -> 0..MaxWrites],
         phase' \in {"open", "paused", "deployed", "retired", "reopened"},
         manifest' \in [files : SUBSET A!Ids, etag : [A!Ids -> 0..MaxWrites], paused : BOOLEAN, reviewed : BOOLEAN],
         tool' \in [action : {"none", "copy", "verify"}, left : SUBSET A!Ids, copied : A!Ids \cup {NoAsset}],
         A!FilesAreWritten', A!ToolWorks', A!ReviewHolds'
  PROVE  A!IInv'
<1> USE DEF A!IInv
<1>1. A!Fits'
  BY DEF A!Fits, A!TypeOK, A!AssetRow
<1>2. A!LinksLead'
  BY DEF A!LinksLead
<1> QED
  BY <1>1, <1>2

LEMMA MoveTypes ==
  ASSUME A!IInv
  PROVE  /\ public \in [A!Ids -> 0..MaxWrites] /\ private \in [A!Ids -> 0..MaxWrites]
         /\ written \in [A!Ids -> 0..MaxWrites]
         /\ phase \in {"open", "paused", "deployed", "retired", "reopened"}
         /\ manifest \in [files : SUBSET A!Ids, etag : [A!Ids -> 0..MaxWrites], paused : BOOLEAN, reviewed : BOOLEAN]
         /\ tool \in [action : {"none", "copy", "verify"}, left : SUBSET A!Ids, copied : A!Ids \cup {NoAsset}]
BY DEF A!IInv, A!Fits, A!TypeOK

\* A pause keeps the files; giving it up makes what was found in it void.
LEMMA PauseKeeps ==
  ASSUME A!AssetAssumption, A!IInv, A!Pause \/ A!Resume
  PROVE  A!IInv'
<1>1. /\ UNCHANGED <<assets, links, public, private, written, tool, session>>
      /\ phase \in {"open", "paused"} /\ phase' \in {"open", "paused"}
      /\ A!Pause => phase = "open" /\ manifest' = manifest
      /\ A!Resume => manifest' = [manifest EXCEPT !.paused = FALSE, !.reviewed = FALSE]
  BY DEF A!Pause, A!Resume, A!files
<1>2. /\ manifest' \in [files : SUBSET A!Ids, etag : [A!Ids -> 0..MaxWrites], paused : BOOLEAN, reviewed : BOOLEAN]
      /\ manifest'.files = manifest.files /\ ~manifest'.paused /\ ~manifest'.reviewed
  BY <1>1, MoveTypes DEF A!IInv, A!ReviewHolds
<1>3. A!FilesAreWritten' /\ A!ToolWorks' /\ A!ReviewHolds'
  BY <1>1, <1>2 DEF A!IInv, A!FilesAreWritten, A!ToolWorks, A!ReviewHolds, A!Moved, A!Stopped
<1> QED
  BY <1>1, <1>2, <1>3, MoveKeeps, MoveTypes

\* An inventory takes every photograph there is; during a pause none follows.
LEMMA InventoryKeeps ==
  ASSUME A!AssetAssumption, A!IInv, A!inventory
  PROVE  A!IInv'
<1>1. /\ UNCHANGED <<assets, links, public, private, written, phase, tool, session>>
      /\ phase \in {"open", "paused"} /\ tool = A!Stopped
  BY DEF A!inventory, A!files
<1>2. /\ manifest' \in [files : SUBSET A!Ids, etag : [A!Ids -> 0..MaxWrites], paused : BOOLEAN, reviewed : BOOLEAN]
      /\ manifest'.files = {i \in Photos : public[i] # A!NoFile}
      /\ manifest'.paused = (phase = "paused") /\ ~manifest'.reviewed
  BY MoveTypes DEF A!inventory, A!InInventory, A!IsPrivate, A!Ids
<1>3. A!FilesAreWritten'
  BY <1>1 DEF A!IInv, A!FilesAreWritten, A!Moved
<1>4. A!ToolWorks' /\ A!ReviewHolds'
  BY <1>1, <1>2 DEF A!ToolWorks, A!ReviewHolds, A!Stopped
<1> QED
  BY <1>1, <1>2, <1>3, <1>4, MoveKeeps, MoveTypes

LEMMA RunKeeps ==
  ASSUME A!AssetAssumption, A!IInv, NEW action \in {"copy", "verify"}, A!Run(action)
  PROVE  A!IInv'
<1>1. /\ UNCHANGED <<assets, links, public, private, written, phase, manifest, session>>
      /\ phase \in {"open", "paused"}
      /\ tool' = [action |-> action, left |-> manifest.files, copied |-> NoAsset]
  BY DEF A!Run, A!files
<1>2. tool' \in [action : {"none", "copy", "verify"}, left : SUBSET A!Ids, copied : A!Ids \cup {NoAsset}]
  BY <1>1, MoveTypes
<1>3. A!FilesAreWritten' /\ A!ToolWorks' /\ A!ReviewHolds'
  BY <1>1 DEF A!IInv, A!FilesAreWritten, A!Moved, A!ToolWorks, A!ReviewHolds
<1> QED
  BY <1>1, <1>2, <1>3, MoveKeeps, MoveTypes

\* A copy is made where there is none, of a file that is there; after a review
\* there is none to make.
LEMMA CopyKeeps ==
  ASSUME A!AssetAssumption, A!IInv, NEW id \in A!Ids, A!CopyItem(id)
  PROVE  A!IInv'
<1> USE DEF A!AssetAssumption
<1>1. /\ UNCHANGED <<assets, links, public, written, phase, manifest, session>>
      /\ id \in tool.left
      /\ tool' = [tool EXCEPT !.copied = id]
      /\ \/ private' = private
         \/ private[id] = A!NoFile /\ tool.action = "copy" /\ private' = [private EXCEPT ![id] = public[id]]
  BY DEF A!CopyItem
<1>2. /\ tool' \in [action : {"none", "copy", "verify"}, left : SUBSET A!Ids, copied : A!Ids \cup {NoAsset}]
      /\ tool'.action = tool.action /\ tool'.left = tool.left
      /\ private' \in [A!Ids -> 0..MaxWrites]
  BY <1>1, MoveTypes
<1>3. /\ id \in manifest.files /\ id \in Photos /\ tool.action # "none" /\ phase \in {"open", "paused"}
  BY <1>1 DEF A!IInv, A!ToolWorks, A!Stopped
<1>4. A!FilesAreWritten'
  BY <1>1, <1>2, <1>3, MoveTypes DEF A!IInv, A!FilesAreWritten, A!Moved, A!NoFile
<1>5. A!ToolWorks'
  BY <1>1, <1>2, <1>3 DEF A!IInv, A!ToolWorks
<1>6. manifest.reviewed /\ phase = "paused" => private' = private
  <2> SUFFICES ASSUME manifest.reviewed, phase = "paused"
               PROVE  private' = private
    OBVIOUS
  <2>1. public[id] # A!NoFile /\ private[id] = public[id]
    BY <1>3 DEF A!IInv, A!ReviewHolds
  <2> QED
    BY <1>1, <2>1
<1>7. tool.action = "verify" => private' = private
  BY <1>1
<1>8. A!ReviewHolds'
  BY <1>1, <1>2, <1>6, <1>7 DEF A!IInv, A!ReviewHolds
<1> QED
  BY <1>1, <1>2, <1>4, <1>5, <1>8, MoveKeeps, MoveTypes

\* What a verify run passes has its copy.
LEMMA VerifyKeeps ==
  ASSUME A!AssetAssumption, A!IInv, NEW id \in A!Ids, A!VerifyItem(id)
  PROVE  A!IInv'
<1> USE DEF A!AssetAssumption
<1>1. /\ UNCHANGED <<assets, links, public, private, written, phase, manifest, session>>
      /\ tool.copied = id /\ private[id] = public[id]
      /\ tool' = [tool EXCEPT !.left = @ \ {id}, !.copied = NoAsset]
  BY DEF A!VerifyItem, A!SameContent, A!files
<1>2. /\ tool' \in [action : {"none", "copy", "verify"}, left : SUBSET A!Ids, copied : A!Ids \cup {NoAsset}]
      /\ tool'.action = tool.action /\ tool'.left = tool.left \ {id}
  BY <1>1, MoveTypes
<1>3. tool # A!Stopped
  BY <1>1 DEF A!Stopped
<1>4. A!FilesAreWritten' /\ A!ToolWorks'
  BY <1>1, <1>2, <1>3 DEF A!IInv, A!FilesAreWritten, A!Moved, A!ToolWorks
<1>5. A!ReviewHolds'
  BY <1>1, <1>2 DEF A!IInv, A!ReviewHolds
<1> QED
  BY <1>1, <1>2, <1>4, <1>5, MoveKeeps, MoveTypes

\* A verify run that ends has passed every key of the inventory.
LEMMA ReportKeeps ==
  ASSUME A!AssetAssumption, A!IInv, A!Report \/ A!Stop
  PROVE  A!IInv'
<1>1. /\ UNCHANGED <<assets, links, public, private, written, phase, session>>
      /\ tool.action # "none" /\ tool' = A!Stopped
      /\ \/ manifest' = manifest
         \/ /\ tool.left = {}
            /\ manifest' = [manifest EXCEPT !.reviewed = @ \/ (tool.action = "verify" /\ manifest.paused)]
  BY DEF A!Report, A!Stop, A!files
<1>2. A!Stopped \in [action : {"none", "copy", "verify"}, left : SUBSET A!Ids, copied : A!Ids \cup {NoAsset}]
  BY DEF A!Stopped
<1>3. /\ manifest' \in [files : SUBSET A!Ids, etag : [A!Ids -> 0..MaxWrites], paused : BOOLEAN, reviewed : BOOLEAN]
      /\ manifest'.files = manifest.files /\ manifest'.paused = manifest.paused
      /\ manifest'.reviewed => manifest.reviewed \/ (tool.left = {} /\ tool.action = "verify" /\ manifest.paused)
  BY <1>1, MoveTypes
<1>4. A!FilesAreWritten' /\ A!ToolWorks'
  BY <1>1, <1>3 DEF A!IInv, A!FilesAreWritten, A!Moved, A!ToolWorks, A!Stopped
<1>5. A!ReviewHolds'
  BY <1>1, <1>3 DEF A!IInv, A!ReviewHolds, A!Stopped
<1> QED
  BY <1>1, <1>2, <1>3, <1>4, <1>5, MoveKeeps, MoveTypes

\* At the change of versions every photograph has its copy; none is retired
\* that is looked for in the public bucket.
LEMMA DeployKeeps ==
  ASSUME A!AssetAssumption, A!IInv, A!Deploy \/ A!Retire \/ A!Reopen
  PROVE  A!IInv'
<1> USE DEF A!AssetAssumption
<1>1. /\ UNCHANGED <<assets, links, private, written, manifest, tool, session>>
      /\ phase' \in {"deployed", "retired", "reopened"}
      /\ \/ A!Moved /\ (\/ public' = public
                        \/ public' = [i \in A!Ids |-> IF i \in manifest.files THEN A!NoFile ELSE public[i]])
         \/ phase = "paused" /\ tool = A!Stopped /\ manifest.reviewed /\ public' = public
  BY DEF A!Deploy, A!Retire, A!Reopen, A!files, A!Moved
<1>2. public' \in [A!Ids -> 0..MaxWrites]
  BY <1>1, MoveTypes DEF A!NoFile
<1>3. tool = A!Stopped /\ manifest.files \subseteq Photos /\ tool.left \subseteq manifest.files
  BY <1>1 DEF A!IInv, A!ToolWorks, A!Moved
<1>4. ASSUME NEW id \in Photos
      PROVE  private[id] = written[id]
  <2>1. CASE A!Moved
    BY <2>1 DEF A!IInv, A!FilesAreWritten, A!Ids
  <2>2. CASE phase = "paused" /\ manifest.reviewed
    <3>1. public[id] = written[id] /\ (written[id] = A!NoFile => private[id] = A!NoFile)
      BY <2>2 DEF A!IInv, A!FilesAreWritten, A!Moved, A!Ids
    <3>2. public[id] # A!NoFile => private[id] = public[id]
      BY <2>2 DEF A!IInv, A!ReviewHolds
    <3> QED
      BY <3>1, <3>2
  <2> QED
    BY <1>1, <2>1, <2>2
<1>5. ASSUME NEW id \in Results
      PROVE  public'[id] = written[id]
  BY <1>1, <1>3, <1>5 DEF A!IInv, A!FilesAreWritten, A!Ids
<1>6. A!FilesAreWritten'
  BY <1>1, <1>4, <1>5 DEF A!IInv, A!FilesAreWritten, A!Moved, A!Ids
<1>7. A!ToolWorks' /\ A!ReviewHolds'
  BY <1>1, <1>3 DEF A!IInv, A!ToolWorks, A!ReviewHolds, A!Stopped
<1> QED
  BY <1>1, <1>2, <1>6, <1>7, MoveKeeps, MoveTypes

LEMMA AssetStepKeeps ==
  ASSUME A!AssetAssumption, A!IInv, [A!Next]_(A!vars)
  PROVE  A!IInv'
<1>1. ASSUME NEW id \in A!Ids, A!Write(id) \/ A!Create(id)
      PROVE  A!IInv'
  BY <1>1, WriteKeeps, CreateKeeps
<1>2. ASSUME NEW w \in Requests, A!RequestStep(w)
      PROVE  A!IInv'
  BY <1>2, ReadKeeps, ShareKeeps, DeleteKeeps DEF A!RequestStep
<1>3. CASE A!MoveStep
  <2>1. ASSUME NEW action \in {"copy", "verify"}, A!Run(action)
        PROVE  A!IInv'
    BY <2>1, RunKeeps
  <2>2. ASSUME NEW id \in A!Ids, A!CopyItem(id) \/ A!VerifyItem(id)
        PROVE  A!IInv'
    BY <2>2, CopyKeeps, VerifyKeeps
  <2>3. CASE A!Pause \/ A!Resume \/ A!inventory
    BY <2>3, PauseKeeps, InventoryKeeps
  <2>4. CASE A!Report \/ A!Stop \/ A!Deploy \/ A!Retire \/ A!Reopen
    BY <2>4, ReportKeeps, DeployKeeps
  <2> QED
    BY <1>3, <2>1, <2>2, <2>3, <2>4 DEF A!MoveStep
<1>4. CASE UNCHANGED A!vars
  <2>1. UNCHANGED <<assets, links, public, private, written, phase, manifest, tool, session>>
    BY <1>4 DEF A!vars, A!files, A!move
  <2>2. A!FilesAreWritten' /\ A!ToolWorks' /\ A!ReviewHolds'
    BY <2>1 DEF A!IInv, A!FilesAreWritten, A!Moved, A!ToolWorks, A!ReviewHolds
  <2> QED
    BY <2>1, <2>2, MoveKeeps, MoveTypes
<1> QED
  BY <1>1, <1>2, <1>3, <1>4 DEF A!Next

\* The invariant holds in every reachable state, whatever requests and the
\* operators of the move do at once.
THEOREM AssetInvariant ==
  ASSUME A!AssetAssumption
  PROVE  A!Spec => []A!IInv
<1>1. A!Init => A!IInv
  BY AssetsStart
<1>2. A!IInv /\ [A!Next]_(A!vars) => A!IInv'
  BY AssetStepKeeps
<1> QED
  BY <1>1, <1>2, PTL DEF A!Spec

\* Once the version that reads the private bucket runs, what the list shows and
\* what a link leads to is the file last written for it, however often the move
\* was tried before (R2DownloadAdapter, migrate_private_composition_files.py).
THEOREM AssetsTheorem ==
  ASSUME A!AssetAssumption
  PROVE  A!Spec => []AssetsAreThere
<1>1. ASSUME A!IInv, A!Moved, NEW id \in A!Ids
      PROVE  A!StoredAt(id) = written[id]
  BY <1>1 DEF A!IInv, A!FilesAreWritten, A!StoredAt, A!IsPrivate, A!Ids
<1>2. ASSUME A!IInv, A!Moved, NEW id \in A!Listed
      PROVE  A!Download(id) = written[id]
  <2>1. id \in A!Ids /\ assets[id].status = "ACTIVE"
    BY <1>2 DEF A!IInv, A!Fits, A!TypeOK, A!Listed
  <2> QED
    BY <1>1, <1>2, <2>1 DEF A!Download, A!is_available
<1>3. ASSUME A!IInv, A!Moved, NEW l \in links,
             NEW i \in Results, assets[i].share_token = l.token, A!is_available(assets[i])
      PROVE  A!Download(i) = written[l.id]
  <2>1. i \in A!Ids /\ l.token \in Tokens /\ NoToken \notin Tokens
    BY <1>3 DEF A!Ids, A!IInv, A!Fits, A!TypeOK, A!AssetAssumption
  <2>2. [token |-> l.token, id |-> i] \in links
    BY <1>3, <2>1 DEF A!IInv, A!LinksLead
  <2>3. i = l.id
    BY <1>3, <2>2 DEF A!IInv, A!LinksLead
  <2> QED
    BY <1>1, <1>3, <2>1, <2>3 DEF A!Download
<1>4. A!IInv => AssetsAreThere
  BY <1>2, <1>3 DEF AssetsAreThere, A!AssetsAreThere, A!IInv, A!Fits, A!SharedDownload
<1> QED
  BY <1>4, AssetInvariant, PTL

-----------------------------------------------------------------------------
(* Pages of the history.                                                   *)

\* Rows with ids of their own are in one order, by time and id.
Named(rows) == rows \subseteq H!Row /\ \A r, s \in rows : r.id = s.id => r = s

LEMMA RowsAreOrdered ==
  ASSUME H!HistoryAssumption, NEW rows, Named(rows)
  PROVE  /\ \A r, s \in rows : r = s \/ H!Before(r, s) \/ H!Before(s, r)
         /\ \A r, s \in rows : ~(H!Before(r, s) /\ H!Before(s, r))
         /\ \A r, s, t \in rows : H!Before(r, s) /\ H!Before(s, t) => H!Before(r, t)
         /\ \A r \in rows : ~H!Before(r, r)
<1>1. \A r \in rows : r.created_at \in Nat /\ r.id \in Nat
  <2>1. \A x \in 0..MaxTime : x \in Nat
    BY DEF H!HistoryAssumption
  <2>2. \A x \in RowIds : x \in Nat
    BY DEF H!HistoryAssumption
  <2> SUFFICES ASSUME NEW r \in rows
               PROVE  r.created_at \in Nat /\ r.id \in Nat
    OBVIOUS
  <2>3. r \in H!Row
    BY DEF Named
  <2>4. r.created_at \in 0..MaxTime /\ r.id \in RowIds
    BY <2>3 DEF H!Row
  <2> QED
    BY <2>1, <2>2, <2>4
<1> QED
  BY <1>1 DEF Named, H!Before

LEMMA SameSets ==
  ASSUME NEW S
  PROVE  H!Cardinality(S) = Cardinality(S) /\ H!IsFiniteSet(S) = IsFiniteSet(S)
BY DEF H!Cardinality, Cardinality, H!IsFiniteSet, IsFiniteSet

\* Finitely many rows can be sorted: a row's place is the number of rows that
\* are not older.
LEMMA RowsCanBeSorted ==
  ASSUME H!HistoryAssumption, NEW rows, Named(rows), IsFiniteSet(rows)
  PROVE  \E s \in [1..Cardinality(rows) -> rows] :
           \A i, j \in 1..Cardinality(rows) : i < j => H!Before(s[j], s[i])
<1> DEFINE n == Cardinality(rows)
           newer(r) == {s \in rows : H!Before(r, s)}
           place == [r \in rows |-> Cardinality(newer(r)) + 1]
<1>1. n \in Nat
  BY FS_CardinalityType
<1>2. ASSUME NEW r \in rows
      PROVE  IsFiniteSet(newer(r)) /\ Cardinality(newer(r)) \in 0..n - 1
  <2>1. newer(r) \in SUBSET rows /\ r \notin newer(r)
    BY RowsAreOrdered
  <2>2. /\ IsFiniteSet(newer(r)) /\ Cardinality(newer(r)) <= n
        /\ (n = Cardinality(newer(r)) => rows = newer(r))
    BY <2>1, FS_Subset
  <2>3. Cardinality(newer(r)) \in Nat
    BY <2>2, FS_CardinalityType
  <2> HIDE DEF newer, n
  <2> QED
    BY <1>1, <2>1, <2>2, <2>3
<1>3. ASSUME NEW r \in rows, NEW s \in rows, H!Before(r, s)
      PROVE  place[s] < place[r]
  <2>1. newer(s) \subseteq newer(r) /\ s \in newer(r) /\ s \notin newer(s)
    BY <1>3, RowsAreOrdered
  <2>2. /\ IsFiniteSet(newer(r)) /\ IsFiniteSet(newer(s))
        /\ Cardinality(newer(r)) \in 0..n - 1 /\ Cardinality(newer(s)) \in 0..n - 1
    BY <1>2
  <2>3. /\ Cardinality(newer(s)) <= Cardinality(newer(r))
        /\ (Cardinality(newer(r)) = Cardinality(newer(s)) => newer(r) = newer(s))
    BY <2>1, <2>2, FS_Subset
  <2>4. place[r] = Cardinality(newer(r)) + 1 /\ place[s] = Cardinality(newer(s)) + 1
    OBVIOUS
  <2> HIDE DEF newer, place, n
  <2> QED
    BY <1>1, <2>1, <2>2, <2>3, <2>4
<1>4. place \in [rows -> 1..n]
  <2>1. \A r \in rows : Cardinality(newer(r)) + 1 \in 1..n
    <3> HIDE DEF newer, n
    <3> QED
      BY <1>1, <1>2
  <2> QED
    BY <2>1
<1> HIDE DEF place, newer, n
<1>5. place \in Injection(rows, 1..n)
  BY <1>1, <1>3, <1>4, RowsAreOrdered DEF Injection, IsInjective
<1>6. IsFiniteSet(1..n) /\ Cardinality(1..n) = n
  BY <1>1, FS_Interval
<1>7. place \in Surjection(rows, 1..n)
  BY <1>5, <1>6, FS_Injection DEF n
<1> DEFINE s == [i \in 1..n |-> CHOOSE r \in rows : place[r] = i]
<1>8. \A i \in 1..n : s[i] \in rows /\ place[s[i]] = i
  BY <1>7 DEF Surjection
<1>9. s \in [1..n -> rows]
  BY <1>8
<1>10. ASSUME NEW i \in 1..n, NEW j \in 1..n, i < j
       PROVE  H!Before(s[j], s[i])
  <2>1. s[i] \in rows /\ s[j] \in rows /\ place[s[i]] = i /\ place[s[j]] = j
    BY <1>8
  <2> HIDE DEF s
  <2>2. s[i] # s[j]
    BY <1>1, <1>10, <2>1
  <2>3. ~H!Before(s[i], s[j])
    BY <1>1, <1>3, <1>10, <2>1
  <2> QED
    BY <2>1, <2>2, <2>3, RowsAreOrdered
<1> HIDE DEF s
<1> QED
  BY <1>9, <1>10 DEF n

\* What the query returns: all the rows, newest first.
LEMMA QueryIsSorted ==
  ASSUME H!HistoryAssumption, NEW rows, Named(rows), IsFiniteSet(rows)
  PROVE  LET s == H!NewestFirst(rows) IN
           /\ Cardinality(rows) \in Nat
           /\ s \in [1..Cardinality(rows) -> rows]
           /\ \A i, j \in 1..Cardinality(rows) : i < j => H!Before(s[j], s[i])
           /\ \A r \in rows : \E i \in 1..Cardinality(rows) : s[i] = r
<1> DEFINE s == H!NewestFirst(rows)
           n == Cardinality(rows)
<1>1. n \in Nat
  BY FS_CardinalityType
<1>2. s = CHOOSE f \in [1..n -> rows] : \A i, j \in DOMAIN f : i < j => H!Before(f[j], f[i])
  BY SameSets DEF H!NewestFirst
<1> HIDE DEF s, n
<1>3. s \in [1..n -> rows] /\ \A i, j \in DOMAIN s : i < j => H!Before(s[j], s[i])
  BY <1>2, RowsCanBeSorted DEF n
<1>4. s \in Injection(1..n, rows)
  BY <1>1, <1>3, RowsAreOrdered DEF Injection, IsInjective
<1>5. IsFiniteSet(1..n) /\ Cardinality(1..n) = n
  BY <1>1, FS_Interval
<1>6. s \in Surjection(1..n, rows)
  BY <1>4, <1>5, FS_Injection DEF n
<1> QED
  BY <1>1, <1>3, <1>6 DEF Surjection, s, n

\* The rows after the cursor.
Left(rows, cursor) == {r \in rows : H!AfterCursor(r, cursor)}

\* A page holds the newest of the rows after the cursor; if there are more, they
\* are older than its last row.
LEMMA PageIsNext ==
  ASSUME H!HistoryAssumption, NEW rows, Named(rows), IsFiniteSet(rows), NEW cursor
  PROVE  LET found == H!Found(rows, cursor)
             page == H!Page(found)
             left == Left(rows, cursor)
         IN  /\ page \in Seq(left)
             /\ \A i, j \in 1..Len(page) : i < j => H!Before(page[j], page[i])
             /\ H!has_more(found) =>
                  page # <<>> /\ \A r \in left : \/ \E i \in 1..Len(page) : page[i] = r
                                                 \/ H!Before(r, page[Len(page)])
             /\ ~H!has_more(found) => \A r \in left : \E i \in 1..Len(page) : page[i] = r
<1> DEFINE left == Left(rows, cursor)
           s == H!NewestFirst(left)
           n == Cardinality(left)
           found == H!Found(rows, cursor)
           page == H!Page(found)
<1>1. Named(left) /\ IsFiniteSet(left)
  <2>1. left \in SUBSET rows
    BY DEF Left
  <2> QED
    BY <2>1, FS_Subset DEF Named
<1>2. found = SubSeq(s, 1, IF Len(s) < Limit + 1 THEN Len(s) ELSE Limit + 1)
  BY DEF H!Found, Left
<1>3. page = IF Len(found) > Limit THEN SubSeq(found, 1, Limit) ELSE found
  BY DEF H!Page, H!has_more
<1>4. H!has_more(found) <=> Len(found) > Limit
  BY DEF H!has_more
<1> HIDE DEF left, found, page
<1>5. /\ n \in Nat /\ s \in [1..n -> left]
      /\ \A i, j \in 1..n : i < j => H!Before(s[j], s[i])
      /\ \A r \in left : \E i \in 1..n : s[i] = r
  BY <1>1, QueryIsSorted
<1> HIDE DEF s, n
<1>6. Limit \in Nat /\ Limit > 0
  BY DEF H!HistoryAssumption
<1>7. s \in Seq(left) /\ Len(s) = n
  BY <1>5
<1> DEFINE k == IF n > Limit THEN Limit ELSE n
<1>8. /\ (Len(found) > Limit <=> n > Limit)
      /\ page \in Seq(left) /\ Len(page) = k /\ \A i \in 1..k : page[i] = s[i]
  <2>1. CASE n > Limit
    <3>1. found = SubSeq(s, 1, Limit + 1)
      BY <1>2, <1>5, <1>6, <1>7, <2>1
    <3>2. found \in Seq(left) /\ Len(found) = Limit + 1 /\ \A i \in 1..Limit + 1 : found[i] = s[i]
      BY <1>5, <1>6, <1>7, <2>1, <3>1
    <3>3. page = SubSeq(found, 1, Limit)
      BY <1>3, <1>6, <3>2
    <3>4. page \in Seq(left) /\ Len(page) = Limit /\ \A i \in 1..Limit : page[i] = found[i]
      BY <1>6, <3>2, <3>3
    <3> QED
      BY <1>6, <2>1, <3>2, <3>4
  <2>2. CASE ~(n > Limit)
    <3>1. found = SubSeq(s, 1, n)
      BY <1>2, <1>5, <1>6, <1>7, <2>2
    <3>2. found \in Seq(left) /\ Len(found) = n /\ \A i \in 1..n : found[i] = s[i]
      BY <1>5, <1>7, <3>1
    <3> QED
      BY <1>3, <1>5, <1>6, <2>2, <3>2
  <2> QED
    BY <2>1, <2>2
<1>9. k \in 0..n /\ (n > Limit => k = Limit) /\ (~(n > Limit) => k = n)
  BY <1>5, <1>6
<1> HIDE DEF k
<1>10. \A i, j \in 1..Len(page) : i < j => H!Before(page[j], page[i])
  BY <1>5, <1>8, <1>9
<1>11. ASSUME H!has_more(found)
       PROVE  page # <<>> /\ \A r \in left : \/ \E i \in 1..Len(page) : page[i] = r
                                             \/ H!Before(r, page[Len(page)])
  <2>1. n > Limit /\ k = Limit /\ Len(page) = Limit /\ page[Limit] = s[Limit]
    BY <1>4, <1>6, <1>8, <1>9, <1>11
  <2>2. ASSUME NEW r \in left
        PROVE  (\E i \in 1..Limit : page[i] = r) \/ H!Before(r, s[Limit])
    <3>1. PICK i \in 1..n : s[i] = r
      BY <1>5
    <3>2. CASE i <= Limit
      BY <1>6, <1>8, <2>1, <3>1, <3>2
    <3>3. CASE i > Limit
      <4>1. Limit \in 1..n /\ Limit < i
        BY <1>5, <1>6, <2>1, <3>3
      <4> QED
        BY <1>5, <3>1, <4>1
    <3> QED
      BY <1>5, <1>6, <3>2, <3>3
  <2> QED
    BY <1>6, <2>1, <2>2
<1>12. ASSUME ~H!has_more(found)
       PROVE  \A r \in left : \E i \in 1..Len(page) : page[i] = r
  BY <1>4, <1>5, <1>8, <1>9, <1>12
<1> QED
  BY <1>8, <1>10, <1>11, <1>12 DEF left, page, found

\* No row is there and no page shown at first.
LEMMA HistoryStart ==
  ASSUME H!HistoryAssumption, H!Init
  PROVE  H!IInv
<1> USE DEF H!HistoryAssumption, H!Init
<1>1. H!RowsAreUnique
  <2>1. H!IsFiniteSet({})
    BY SameSets, FS_EmptySet
  <2> QED
    BY <2>1 DEF H!RowsAreUnique, H!None
<1>2. PICK list \in {"transaction", "pass"} :
        reader = [list |-> list, cursor |-> H!None, pages |-> <<>>, start |-> {}, step |-> "new"]
  BY DEF H!Init
<1>3. H!ReaderGoesOn /\ H!HistoryIsWhole
  BY <1>2 DEF H!ReaderGoesOn, H!HistoryIsWhole
<1> QED
  BY <1>1, <1>3 DEF H!IInv

\* The reader keeps what it was shown while rows are committed.
LEMMA ReaderWaits ==
  ASSUME H!IInv, reader' = reader, table \subseteq table', H!RowsAreUnique'
  PROVE  H!IInv'
BY DEF H!IInv, H!ReaderGoesOn, H!HistoryIsWhole

LEMMA WriterKeeps ==
  ASSUME H!HistoryAssumption, H!IInv, NEW w \in Writers, H!Record(w) \/ H!Commit(w) \/ H!Rollback(w)
  PROVE  H!IInv'
<1>1. /\ now' = now /\ reader' = reader /\ now \in 0..MaxTime
      /\ table \subseteq H!Row /\ H!IsFiniteSet(table)
      /\ pending \in [Writers -> H!Row \cup {H!None}]
  BY DEF H!Record, H!Commit, H!Rollback, H!IInv, H!RowsAreUnique
<1>2. \A r \in H!Row : r.id \in RowIds /\ r.id # 0
  BY DEF H!HistoryAssumption, H!Row
<1>3. CASE H!Record(w)
  <2>1. PICK r \in H!Row : H!Unused(r.id) /\ pending' = [pending EXCEPT ![w] = r] /\ table' = table
    BY <1>3 DEF H!Record
  <2>2. /\ \A s \in table : s.id # r.id
        /\ \A v \in Writers : pending[v].id # r.id
    BY <1>1, <2>1 DEF H!Unused
  <2>3. H!RowsAreUnique'
    BY <1>1, <2>1, <2>2 DEF H!IInv, H!RowsAreUnique
  <2> QED
    BY <1>1, <2>1, <2>3, ReaderWaits
<1>4. CASE H!Commit(w)
  <2>1. PICK r \in H!Row : /\ r = pending[w] /\ table' = table \cup {r}
                           /\ pending' = [pending EXCEPT ![w] = H!None]
    BY <1>1, <1>4 DEF H!Commit
  <2>2. H!IsFiniteSet(table \cup {r})
    BY <1>1, SameSets, FS_AddElement
  <2>3. pending[w] # H!None
    BY <1>4 DEF H!Commit
  <2>4. \A s, t \in table \cup {r} : s.id = t.id => s = t
    BY <2>1, <2>3 DEF H!IInv, H!RowsAreUnique
  <2>5. \A v \in Writers : pending'[v] # H!None =>
          v # w /\ pending'[v] = pending[v] /\ \A s \in table \cup {r} : s.id # pending[v].id
    BY <1>1, <2>1, <2>3 DEF H!IInv, H!RowsAreUnique
  <2>6. pending' \in [Writers -> H!Row \cup {H!None}]
    BY <1>1, <2>1
  <2>7. \A u, v \in Writers : pending'[v] # H!None /\ pending'[v].id = pending'[u].id => v = u
    <3> SUFFICES ASSUME NEW u \in Writers, NEW v \in Writers, pending'[v] # H!None, pending'[v].id = pending'[u].id
                 PROVE  v = u
      OBVIOUS
    <3>1. v # w /\ pending'[v] = pending[v] /\ pending[v] \in H!Row
      BY <1>1, <2>5
    <3>2. CASE u = w
      <4>1. pending'[u] = H!None /\ H!None.id = 0
        BY <1>1, <2>1, <3>2 DEF H!None
      <4> QED
        BY <1>2, <3>1, <4>1
    <3>3. CASE u # w
      BY <1>1, <2>1, <3>1, <3>3 DEF H!IInv, H!RowsAreUnique
    <3> QED
      BY <3>2, <3>3
  <2>8. H!RowsAreUnique'
    BY <1>1, <2>1, <2>2, <2>4, <2>5, <2>6, <2>7 DEF H!RowsAreUnique
  <2> QED
    BY <1>1, <2>1, <2>8, ReaderWaits
<1>5. CASE H!Rollback(w)
  <2>1. table' = table /\ pending' = [pending EXCEPT ![w] = H!None] /\ H!None.id = 0
    BY <1>5 DEF H!Rollback, H!None
  <2>2. H!RowsAreUnique'
    BY <1>1, <1>2, <2>1 DEF H!IInv, H!RowsAreUnique
  <2> QED
    BY <1>1, <2>1, <2>2, ReaderWaits
<1> QED
  BY <1>3, <1>4, <1>5

\* The next page goes on where the last one ended.
LEMMA PageKeeps ==
  ASSUME H!HistoryAssumption, H!IInv, H!ReadPage
  PROVE  H!IInv'
<1> DEFINE rows == H!Listed(reader.list)
           found == H!Found(rows, reader.cursor)
           page == H!Page(found)
           left == Left(rows, reader.cursor)
           shown == reader.pages
<1>1. reader.step # "done" /\ H!ShowPage(found)
  BY DEF H!ReadPage, H!ReadHistory, H!ReadPasses, H!find_transaction_page, H!find_lot_page
<1>2. /\ reader \in [ list : {"transaction", "pass"}, cursor : {H!None} \cup [id : RowIds, created_at : 0..MaxTime],
                      pages : Seq(H!Row), start : SUBSET table, step : {"new", "more", "done"} ]
      /\ \A r \in reader.start : r.kind = reader.list
      /\ \A i, j \in DOMAIN shown : i < j => H!Before(shown[j], shown[i])
  BY DEF H!IInv, H!ReaderGoesOn, H!HistoryIsWhole
<1>3. /\ Named(rows) /\ IsFiniteSet(rows) /\ rows \subseteq table /\ rows \subseteq H!Row
      /\ \A r \in rows : r.kind = reader.list
  <2>1. rows \in SUBSET table /\ IsFiniteSet(table)
    BY SameSets DEF H!Listed, H!IInv, H!RowsAreUnique
  <2>2. IsFiniteSet(rows)
    BY <2>1, FS_Subset
  <2> QED
    BY <2>1, <2>2 DEF H!Listed, H!IInv, H!RowsAreUnique, Named
<1>4. /\ page \in Seq(left)
      /\ \A i, j \in 1..Len(page) : i < j => H!Before(page[j], page[i])
      /\ H!has_more(found) =>
           page # <<>> /\ \A r \in left : \/ \E i \in 1..Len(page) : page[i] = r
                                          \/ H!Before(r, page[Len(page)])
      /\ ~H!has_more(found) => \A r \in left : \E i \in 1..Len(page) : page[i] = r
  <2>1. PICK R : R = rows
    OBVIOUS
  <2>2. PICK c : c = reader.cursor
    OBVIOUS
  <2>3. Named(R) /\ IsFiniteSet(R)
    BY <1>3, <2>1 DEF Named
  <2> HIDE DEF rows
  <2> QED
    BY <2>1, <2>2, <2>3, PageIsNext
<1>5. PICK start : start = IF reader.step = "new" THEN rows ELSE reader.start
  OBVIOUS
<1>6. PICK cursor : cursor = IF H!has_more(found) THEN H!Cursor(page[Len(page)]) ELSE H!None
  OBVIOUS
<1>7. /\ reader' = [reader EXCEPT !.cursor = cursor, !.pages = shown \o page, !.start = start,
                                  !.step = IF H!has_more(found) THEN "more" ELSE "done"]
      /\ UNCHANGED <<now, table, pending>>
  BY <1>1, <1>5, <1>6 DEF H!ShowPage, H!Last
<1>8. start \subseteq table /\ \A r \in start : r.kind = reader.list
  BY <1>2, <1>3, <1>5
<1>9. shown \in Seq(H!Row) /\ page \in Seq(H!Row) /\ shown \o page \in Seq(H!Row)
  <2>1. left \subseteq H!Row
    BY <1>3 DEF Left
  <2> HIDE DEF left, page
  <2>2. page \in Seq(H!Row)
    BY <1>4, <2>1
  <2> QED
    BY <1>2, <2>2
<1>10. \A i \in 1..Len(page) : page[i] \in left
  BY <1>4
<1> HIDE DEF found, page
\* Before the cursor or at the start, every row of the first page's time is shown or left.
<1>11. ASSUME NEW r \in start
       PROVE  r \in left \/ \E i \in 1..Len(shown) : shown[i] = r
  <2>1. r \in rows
    BY <1>5, <1>2, <1>11 DEF H!Listed
  <2>2. CASE reader.step = "new"
    <3>1. reader.cursor = H!None
      BY <2>2 DEF H!IInv, H!ReaderGoesOn
    <3> QED
      BY <2>1, <3>1 DEF Left, H!AfterCursor
  <2>3. CASE reader.step = "more"
    <3>1. /\ reader.cursor = H!Cursor(shown[Len(shown)])
          /\ r \in H!ToSet(shown) \/ H!Before(r, shown[Len(shown)])
      BY <1>5, <1>11, <2>3 DEF H!IInv, H!ReaderGoesOn, H!Last
    <3>2. H!Before(r, shown[Len(shown)]) => r \in left
      BY <2>1, <3>1 DEF Left, H!AfterCursor, H!Before, H!Cursor
    <3>3. r \in H!ToSet(shown) => \E i \in 1..Len(shown) : shown[i] = r
      BY <1>9 DEF H!ToSet
    <3> QED
      BY <3>1, <3>2, <3>3
  <2> QED
    BY <1>1, <1>2, <2>2, <2>3
\* What is left is older than what was shown.
<1>12. ASSUME NEW i \in 1..Len(shown), NEW r \in left
       PROVE  H!Before(r, shown[i])
  <2>1. shown # <<>> /\ reader.step = "more"
    <3>1. shown # <<>>
      BY <1>9, <1>12
    <3> QED
      BY <1>1, <1>2, <3>1 DEF H!IInv, H!ReaderGoesOn
  <2>2. PICK z \in H!Row : z = shown[Len(shown)]
    BY <1>9, <2>1
  <2>3. reader.cursor = H!Cursor(z)
    BY <2>1, <2>2 DEF H!IInv, H!ReaderGoesOn, H!Last
  <2>4. z.id \in RowIds /\ z.id # 0
    BY <2>2 DEF H!Row, H!HistoryAssumption
  <2>5. reader.cursor # H!None
    <3>1. H!Cursor(z).id = z.id /\ H!None.id = 0
      BY DEF H!Cursor, H!None
    <3> QED
      BY <2>3, <2>4, <3>1
  <2>6. H!Before(r, z)
    BY <1>12, <2>3, <2>5 DEF Left, H!AfterCursor, H!Before, H!Cursor
  <2>7. CASE i = Len(shown)
    BY <2>2, <2>6, <2>7
  <2>8. CASE i # Len(shown)
    <3>1. i \in DOMAIN shown /\ Len(shown) \in DOMAIN shown /\ i < Len(shown) /\ shown[i] \in H!Row
      BY <1>9, <1>12, <2>8
    <3>2. H!Before(z, shown[i])
      BY <1>2, <2>2, <3>1
    <3>3. \A x \in H!Row : x.id \in Nat /\ x.created_at \in Nat
      <4>1. \A x \in H!Row : x.id \in RowIds /\ x.created_at \in 0..MaxTime
        BY DEF H!Row
      <4>2. (\A x \in RowIds : x \in Nat) /\ \A x \in 0..MaxTime : x \in Nat
        BY DEF H!HistoryAssumption
      <4> QED
        BY <4>1, <4>2
    <3>4. r \in H!Row
      BY <1>3, <1>12 DEF Left
    <3> QED
      BY <2>2, <2>6, <3>1, <3>2, <3>3, <3>4 DEF H!Before
  <2> QED
    BY <2>7, <2>8
<1> DEFINE all == shown \o page
<1>13. /\ Len(shown) \in Nat /\ Len(page) \in Nat /\ Len(all) = Len(shown) + Len(page)
       /\ \A i \in 1..Len(shown) : all[i] = shown[i]
       /\ \A i \in 1..Len(page) : all[Len(shown) + i] = page[i]
       /\ DOMAIN all = 1..Len(all)
  BY <1>9
<1>14. \A i \in 1..Len(shown) : i \in DOMAIN shown
  BY <1>9
<1> HIDE DEF all, left, shown, rows
<1>15. ASSUME NEW i \in DOMAIN all, NEW j \in DOMAIN all, i < j
       PROVE  H!Before(all[j], all[i])
  <2>1. CASE j <= Len(shown)
    <3>1. i \in 1..Len(shown) /\ j \in 1..Len(shown)
      BY <1>13, <1>15, <2>1
    <3> QED
      BY <1>2, <1>13, <1>14, <1>15, <3>1 DEF shown
  <2>2. CASE i <= Len(shown) /\ j > Len(shown)
    <3>1. i \in 1..Len(shown) /\ j - Len(shown) \in 1..Len(page)
      BY <1>13, <1>15, <2>2
    <3>2. all[i] = shown[i] /\ all[Len(shown) + (j - Len(shown))] = page[j - Len(shown)]
      BY <1>13, <3>1
    <3>3. Len(shown) + (j - Len(shown)) = j
      BY <1>13, <1>15
    <3> QED
      BY <1>10, <1>12, <3>1, <3>2, <3>3
  <2>3. CASE i > Len(shown)
    <3>1. i - Len(shown) \in 1..Len(page) /\ j - Len(shown) \in 1..Len(page) /\ i - Len(shown) < j - Len(shown)
      BY <1>13, <1>15, <2>3
    <3>2. /\ all[Len(shown) + (i - Len(shown))] = page[i - Len(shown)]
          /\ all[Len(shown) + (j - Len(shown))] = page[j - Len(shown)]
      BY <1>13, <3>1
    <3>3. Len(shown) + (j - Len(shown)) = j /\ Len(shown) + (i - Len(shown)) = i
      BY <1>13, <1>15
    <3> QED
      BY <1>4, <3>1, <3>2, <3>3
  <2> QED
    BY <1>13, <1>15, <2>1, <2>2, <2>3
<1>16. ASSUME NEW r, \/ \E i \in 1..Len(shown) : shown[i] = r
                     \/ \E i \in 1..Len(page) : page[i] = r
       PROVE  r \in H!ToSet(all)
  <2>1. \A i \in 1..Len(shown) : i \in DOMAIN all
    BY <1>13
  <2>2. \A i \in 1..Len(page) : Len(shown) + i \in DOMAIN all
    BY <1>13
  <2> QED
    BY <1>13, <1>16, <2>1, <2>2 DEF H!ToSet
<1>17. ASSUME ~H!has_more(found)
       PROVE  start \subseteq H!ToSet(all)
  BY <1>4, <1>11, <1>16, <1>17
<1>18. ASSUME H!has_more(found)
       PROVE  /\ all # <<>> /\ all[Len(all)] = page[Len(page)] /\ page[Len(page)] \in H!Row
              /\ \A r \in start : r \in H!ToSet(all) \/ H!Before(r, all[Len(all)])
  <2>1. page # <<>> /\ Len(page) \in 1..Len(page)
    BY <1>4, <1>9, <1>18
  <2>2. all # <<>> /\ all[Len(all)] = page[Len(page)] /\ page[Len(page)] \in H!Row
    BY <1>9, <1>13, <2>1
  <2> QED
    BY <1>4, <1>11, <1>16, <1>18, <2>2
<1>19. cursor \in {H!None} \cup [id : RowIds, created_at : 0..MaxTime]
  <2>1. \A z \in H!Row : H!Cursor(z) \in [id : RowIds, created_at : 0..MaxTime]
    BY DEF H!Cursor, H!Row
  <2> QED
    BY <1>6, <1>18, <2>1
<1>20. /\ reader' \in [ list : {"transaction", "pass"}, cursor : {H!None} \cup [id : RowIds, created_at : 0..MaxTime],
                        pages : Seq(H!Row), start : SUBSET table, step : {"new", "more", "done"} ]
       /\ reader'.list = reader.list /\ reader'.pages = all /\ reader'.start = start /\ reader'.cursor = cursor
       /\ reader'.step = IF H!has_more(found) THEN "more" ELSE "done"
  BY <1>2, <1>7, <1>8, <1>9, <1>19 DEF all, shown
<1>21. H!ReaderGoesOn'
  <2>1. H!has_more(found) => all # <<>> /\ cursor = H!Cursor(H!Last(all))
    BY <1>6, <1>18 DEF H!Last
  <2>2. H!has_more(found) => \A r \in start : r \in H!ToSet(all) \/ H!Before(r, H!Last(all))
    BY <1>18 DEF H!Last
  <2> QED
    BY <1>7, <1>8, <1>20, <2>1, <2>2 DEF H!ReaderGoesOn
<1>22. H!HistoryIsWhole'
  BY <1>15, <1>17, <1>20 DEF H!HistoryIsWhole
<1>23. H!RowsAreUnique'
  BY <1>7 DEF H!IInv, H!RowsAreUnique
<1> QED
  BY <1>21, <1>22, <1>23 DEF H!IInv

LEMMA HistoryStepKeeps ==
  ASSUME H!HistoryAssumption, H!IInv, [H!Next]_(H!vars)
  PROVE  H!IInv'
<1>1. CASE H!Tick
  <2>1. now' \in 0..MaxTime /\ UNCHANGED <<table, pending, reader>>
    BY <1>1 DEF H!Tick, H!IInv, H!RowsAreUnique, H!HistoryAssumption
  <2>2. H!RowsAreUnique'
    BY <2>1 DEF H!IInv, H!RowsAreUnique
  <2> QED
    BY <2>1, <2>2, ReaderWaits
<1>2. CASE UNCHANGED H!vars
  <2>1. H!RowsAreUnique' /\ UNCHANGED <<table, reader>>
    BY <1>2 DEF H!vars, H!IInv, H!RowsAreUnique
  <2> QED
    BY <2>1, ReaderWaits
<1> QED
  BY <1>1, <1>2, WriterKeeps, PageKeeps DEF H!Next

\* The invariant holds in every reachable state, whatever is committed meanwhile.
THEOREM HistoryInvariant ==
  ASSUME H!HistoryAssumption
  PROVE  H!Spec => []H!IInv
<1>1. H!Init => H!IInv
  BY HistoryStart
<1>2. H!IInv /\ [H!Next]_(H!vars) => H!IInv'
  BY HistoryStepKeeps
<1> QED
  BY <1>1, <1>2, PTL DEF H!Spec

\* However rows are committed while a user leafs through the history, and however
\* old they say they are: no row is shown twice, they come newest first, and the
\* last page completes what was there at the first (PaginationCursor).
THEOREM HistoryTheorem ==
  ASSUME H!HistoryAssumption
  PROVE  H!Spec => []HistoryIsWhole
<1>1. H!IInv => HistoryIsWhole
  BY DEF H!IInv, HistoryIsWhole
<1> QED
  BY <1>1, HistoryInvariant, PTL
=============================================================================
