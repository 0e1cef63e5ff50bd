------------------------------ MODULE AssetFiles ------------------------------
(***************************************************************************)
(* The assets of a user, the links that share them, the files they stand   *)
(* for, and the move of photographs and drafts from the public bucket to   *)
(* the private one.                                                        *)
(*                                                                         *)
(* A request reads an asset without a lock and writes it back later.  The  *)
(* move is the operators' procedure (ops/r2-composition-upload-setup.md)   *)
(* around tools/migrate_private_composition_files.py, which may be tried   *)
(* while the service still writes.                                         *)
(***************************************************************************)
EXTENDS Naturals, FiniteSets

CONSTANTS
  Photos,    \* assets of category USER_UPLOAD or COMPOSITION_DRAFT
  Results,   \* assets of category COMPOSITION_RESULT
  Tokens,    \* share tokens
  Requests,  \* requests running at a time
  MaxWrites, \* bound: how often a file is written
  NoToken, NoAsset

Ids == Photos \cup Results

\* What the constants have to be; the module that instantiates this one assumes it.
AssetAssumption ==
  /\ Photos \cap Results = {} /\ NoAsset \notin Ids
  /\ NoToken \notin Tokens /\ MaxWrites \in Nat

VARIABLES
  assets,    \* the table assets
  links,     \* for the properties: the tokens handed out, each with its asset
  public,    \* the public bucket: the contents of each file, 0 for none
  private,   \* the private bucket
  written,   \* for the properties: the contents last written
  phase,     \* of the move
  manifest,  \* the inventory: keys with their contents, whether it was made in
             \* this pause, and whether its copies were verified since
  tool,      \* a copy or verify run of the tool over the manifest
  session    \* the requests

files == <<public, private, written>>
move == <<phase, manifest, tool>>
vars == <<assets, links, files, move, session>>

NoFile == 0
NoRow == [location |-> "none", status |-> "NONE", share_token |-> NoToken]
Asset(location) == [location |-> location, status |-> "ACTIVE", share_token |-> NoToken]
Idle == [op |-> "idle", id |-> NoAsset, row |-> NoRow]
NoManifest == [files |-> {}, etag |-> [i \in Ids |-> NoFile], paused |-> FALSE, reviewed |-> FALSE]
Stopped == [action |-> "none", left |-> {}, copied |-> NoAsset]

IsPrivate(id) == id \in Photos
Moved == phase \in {"deployed", "retired", "reopened"}
Open == phase \in {"open", "reopened"}

Init ==
  /\ assets = [i \in Ids |-> NoRow]
  /\ links = {}
  /\ public = [i \in Ids |-> NoFile]
  /\ private = [i \in Ids |-> NoFile]
  /\ written = [i \in Ids |-> NoFile]
  /\ phase = "open"
  /\ manifest = NoManifest
  /\ tool = Stopped
  /\ session = [w \in Requests |-> Idle]

-----------------------------------------------------------------------------
(* Compositions make files and assets.                                     *)

\* A file is written, or written again as a target is when it is normalised:
\* before the move to the public bucket, whatever it is.
Write(id) ==
  /\ Open
  /\ written[id] < MaxWrites
  /\ written' = [written EXCEPT ![id] = @ + 1]
  /\ IF Moved /\ IsPrivate(id)
     THEN private' = [private EXCEPT ![id] = written[id] + 1] /\ UNCHANGED public
     ELSE public' = [public EXCEPT ![id] = written[id] + 1] /\ UNCHANGED private
  /\ UNCHANGED <<assets, links, move, session>>

\* location_for(); before the move every location was a public URL.
Location(id) == IF Moved /\ IsPrivate(id) THEN "r2" ELSE "url"

\* The asset of a staged upload is there before its file, and the file may
\* never follow; a result is built before it is saved.
Create(id) ==
  /\ Open
  /\ assets[id] = NoRow
  /\ id \in Results => written[id] > 0
  /\ assets' = [assets EXCEPT ![id] = Asset(Location(id))]
  /\ UNCHANGED <<links, files, move, session>>

-----------------------------------------------------------------------------
(* Requests of the owner.                                                  *)

is_available(row) == row.status = "ACTIVE"

\* find_by_id: the handler goes on with a copy of the row.
Read(w, op, id) ==
  /\ session[w] = Idle
  /\ assets[id] # NoRow
  /\ session' = [session EXCEPT ![w] = [op |-> op, id |-> id, row |-> assets[id]]]
  /\ UNCHANGED <<assets, links, files, move>>

\* enable_sharing: a token that is there stays.
enable_sharing(row, token) ==
  IF row.share_token = NoToken THEN [row EXCEPT !.share_token = token] ELSE row

\* update() reads the row again and sets its status and its token.
update(w, row) ==
  /\ assets' = [assets EXCEPT ![session[w].id] = row]
  /\ session' = [session EXCEPT ![w] = Idle]
  /\ UNCHANGED <<files, move>>

Unused(token) == \A i \in Ids : assets[i].share_token # token

Share(w) ==
  /\ session[w].op = "share"
  /\ session[w].id \in Results /\ is_available(session[w].row)
  /\ \E token \in {t \in Tokens : Unused(t) /\ \A l \in links : l.token # t} :
       LET row == enable_sharing(session[w].row, token) IN
         /\ update(w, row)
         /\ links' = links \cup {[token |-> row.share_token, id |-> session[w].id]}

Delete(w) ==
  /\ session[w].op = "delete"
  /\ session[w].row.status = "ACTIVE"
  /\ update(w, [session[w].row EXCEPT !.status = "DELETED"])
  /\ UNCHANGED links

\* The handler raises, or its request is lost.
Refuse(w) ==
  /\ session[w] # Idle
  /\ session' = [session EXCEPT ![w] = Idle]
  /\ UNCHANGED <<assets, links, files, move>>

\* R2DownloadAdapter: photographs come from the private bucket, whether their
\* asset says so or still has a public URL.
StoredAt(id) == IF IsPrivate(id) THEN private[id] ELSE public[id]

Download(id) == IF is_available(assets[id]) THEN StoredAt(id) ELSE NoFile

\* By link: only results, and only while they are there.
SharedDownload(token) ==
  {Download(i) : i \in {j \in Results : assets[j].share_token = token /\ is_available(assets[j])}}

Listed == {i \in Ids : assets[i].status \notin {"NONE", "DELETED"}}

-----------------------------------------------------------------------------
(* The move.                                                               *)

\* No new compositions, and none at work; or the service opens again, and what
\* was reviewed is out of date.
Pause ==
  /\ phase = "open"
  /\ phase' = "paused"
  /\ UNCHANGED <<assets, links, files, manifest, tool, session>>

Resume ==
  /\ phase = "paused"
  /\ phase' = "open" /\ manifest' = [manifest EXCEPT !.paused = FALSE, !.reviewed = FALSE]
  /\ UNCHANGED <<assets, links, files, tool, session>>

\* PRIVATE_KEY: targets, drafts and frames, never a result.
InInventory(id) == IsPrivate(id) /\ public[id] # NoFile

inventory ==
  /\ phase \in {"open", "paused"}
  /\ tool = Stopped
  /\ manifest' = [files |-> {i \in Ids : InInventory(i)}, etag |-> public,
                  paused |-> phase = "paused", reviewed |-> FALSE]
  /\ UNCHANGED <<assets, links, files, phase, tool, session>>

Run(action) ==
  /\ phase \in {"open", "paused"}
  /\ tool = Stopped
  /\ tool' = [action |-> action, left |-> manifest.files, copied |-> NoAsset]
  /\ UNCHANGED <<assets, links, files, phase, manifest, session>>

SourceUnchanged(id) == public[id] = manifest.etag[id]

\* The first half of an item: the source is what it was; the copy is there
\* already, and stays as it is, or is made.
CopyItem(id) ==
  /\ id \in tool.left /\ tool.copied = NoAsset
  /\ SourceUnchanged(id)
  /\ \/ private[id] # NoFile /\ UNCHANGED private
     \/ /\ private[id] = NoFile /\ tool.action = "copy"
        /\ private' = [private EXCEPT ![id] = public[id]]
  /\ tool' = [tool EXCEPT !.copied = id]
  /\ UNCHANGED <<assets, links, public, written, phase, manifest, session>>

\* Mutant: a copy that is there is taken to be good.
SameContent_Exists(id) == private[id] # NoFile

SameContent(id) == private[id] = public[id]

\* The second half: the digests agree, and the source still is what it was.
VerifyItem(id) ==
  /\ tool.copied = id
  /\ SameContent(id) /\ SourceUnchanged(id)
  /\ tool' = [tool EXCEPT !.left = @ \ {id}, !.copied = NoAsset]
  /\ UNCHANGED <<assets, links, files, phase, manifest, session>>

\* main() reports its count.  What counts is a verify run of an inventory that
\* was made in this pause.
Report ==
  /\ tool.action # "none" /\ tool.left = {}
  /\ manifest' = [manifest EXCEPT !.reviewed = @ \/ (tool.action = "verify" /\ manifest.paused)]
  /\ tool' = Stopped
  /\ UNCHANGED <<assets, links, files, phase, session>>

\* Any difference, and any error, ends the run and leaves what was copied.
Stop ==
  /\ tool.action # "none"
  /\ tool' = Stopped
  /\ UNCHANGED <<assets, links, files, phase, manifest, session>>

\* The versions that read and write the private bucket.
Deploy ==
  /\ phase = "paused" /\ tool = Stopped
  /\ manifest.reviewed
  /\ phase' = "deployed"
  /\ UNCHANGED <<assets, links, files, manifest, tool, session>>

\* Only the reviewed keys are removed.
Retire ==
  /\ phase = "deployed"
  /\ public' = [i \in Ids |-> IF i \in manifest.files THEN NoFile ELSE public[i]]
  /\ phase' = "retired"
  /\ UNCHANGED <<assets, links, private, written, manifest, tool, session>>

Reopen ==
  /\ phase = "retired"
  /\ phase' = "reopened"
  /\ UNCHANGED <<assets, links, files, manifest, tool, session>>

MoveStep ==
  \/ Pause \/ Resume \/ inventory \/ \E action \in {"copy", "verify"} : Run(action)
  \/ \E id \in Ids : CopyItem(id) \/ VerifyItem(id)
  \/ Report \/ Stop \/ Deploy \/ Retire \/ Reopen

RequestStep(w) ==
  \/ \E op \in {"share", "delete"}, id \in Ids : Read(w, op, id)
  \/ Share(w) \/ Delete(w) \/ Refuse(w)

Next ==
  \/ \E id \in Ids : Write(id) \/ Create(id)
  \/ \E w \in Requests : RequestStep(w)
  \/ MoveStep

Spec == Init /\ [][Next]_vars

-----------------------------------------------------------------------------
(* Properties                                                              *)

\* The tables, buckets and the tool keep to their values.
TypeOK ==
  /\ assets \in [Ids -> [location : {"none", "url", "r2"}, status : {"NONE", "ACTIVE", "DELETED"},
                         share_token : Tokens \cup {NoToken}]]
  /\ links \subseteq [token : Tokens, id : Ids]
  /\ \A bucket \in {public, private, written} : bucket \in [Ids -> 0..MaxWrites]
  /\ phase \in {"open", "paused", "deployed", "retired", "reopened"}
  /\ manifest.files \subseteq Ids /\ manifest.etag \in [Ids -> 0..MaxWrites]
  /\ manifest.paused \in BOOLEAN /\ manifest.reviewed \in BOOLEAN
  /\ tool.left \subseteq Ids /\ tool.copied \in Ids \cup {NoAsset}

\* From the moment the version that reads the private bucket runs, whatever
\* the list shows a user, and whatever a link leads to, is the file that was
\* last written for it: however often the move was tried, on whatever copies
\* an earlier try had left, and after the sources are gone.
AssetsAreThere ==
  /\ TypeOK
  /\ Moved =>
       /\ \A id \in Listed : Download(id) = written[id]
       /\ \A l \in links : SharedDownload(l.token) \subseteq {written[l.id]}

\* A deleted asset cannot be shared, says Asset.enable_sharing.
DeletedIsNotShared ==
  [][\A id \in Ids : assets[id].status = "DELETED" => assets'[id].share_token = assets[id].share_token]_vars

-----------------------------------------------------------------------------
(* The inductive invariant: where the contents last written are, and what   *)
(* an inventory, a review and a handler's copy of a row still say of them.  *)

AssetRow == [location : {"none", "url", "r2"}, status : {"NONE", "ACTIVE", "DELETED"},
             share_token : Tokens \cup {NoToken}]
Fits ==
  /\ TypeOK
  /\ manifest \in [files : SUBSET Ids, etag : [Ids -> 0..MaxWrites], paused : BOOLEAN, reviewed : BOOLEAN]
  /\ tool \in [action : {"none", "copy", "verify"}, left : SUBSET Ids, copied : Ids \cup {NoAsset}]
  /\ session \in [Requests -> [op : {"idle", "share", "delete"}, id : Ids \cup {NoAsset}, row : AssetRow]]
  /\ \A w \in Requests : session[w].op # "idle" => session[w].id \in Ids

\* Results stay in the public bucket; photographs are there until the move.  A
\* private copy of what was never written there is not.
FilesAreWritten ==
  \A id \in Ids :
    /\ id \in Results \/ ~Moved => public[id] = written[id]
    /\ id \in Photos /\ Moved => private[id] = written[id]
    /\ id \in Photos /\ written[id] = NoFile => private[id] = NoFile

\* The tool works on photographs of the inventory, before the versions change.
ToolWorks ==
  /\ manifest.files \subseteq Photos /\ tool.left \subseteq manifest.files
  /\ tool = Stopped \/ (tool.action # "none" /\ phase \in {"open", "paused"})

\* An inventory of this pause is complete; what a verify run has passed, and
\* after the review every key, has its copy.
ReviewHolds ==
  /\ manifest.reviewed => manifest.paused
  /\ manifest.paused => phase # "open"
  /\ manifest.paused /\ phase = "paused" => manifest.files = {i \in Photos : public[i] # NoFile}
  /\ manifest.paused /\ tool.action = "verify" =>
       \A i \in manifest.files \ tool.left : private[i] = public[i]
  /\ manifest.reviewed /\ phase = "paused" => \A i \in manifest.files : private[i] = public[i]

\* A token leads to one asset for good, in rows and in handlers' copies of them.
LinksLead ==
  /\ \A l, m \in links : l.token = m.token => l.id = m.id
  /\ \A i \in Ids : assets[i].share_token # NoToken => [token |-> assets[i].share_token, id |-> i] \in links
  /\ \A w \in Requests : LET s == session[w] IN
       s.row.share_token # NoToken => [token |-> s.row.share_token, id |-> s.id] \in links

IInv == Fits /\ FilesAreWritten /\ ToolWorks /\ ReviewHolds /\ LinksLead
=============================================================================
