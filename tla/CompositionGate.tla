--------------------------- MODULE CompositionGate ---------------------------
(***************************************************************************)
(* The single row of composition_gate: which composition holds the AI      *)
(* pipeline, which Lambda run works for it, until when, and the anchor of  *)
(* the pause between the image edits of two compositions                   *)
(* (composition/domain/aggregates/composition_gate.py).                    *)
(*                                                                         *)
(* The operators are the methods of the aggregate: a guard for the         *)
(* exceptions, and the gate after the assignments.                         *)
(***************************************************************************)
EXTENDS Integers

CONSTANTS
  Jobs,            \* job ids of the compositions requested
  Attempts,        \* invocations one trigger may cause (the client retries)
  NoJob, NoRun,
  COOLDOWN, PENDING_LEASE, RUNNING_LEASE

\* A Lambda invocation, for the job its event names.
Runs == Jobs \X Attempts

ASSUME GateAssumption ==
  /\ NoJob \notin Jobs /\ NoRun \notin Runs
  /\ COOLDOWN \in Nat \ {0}
  /\ PENDING_LEASE \in Nat \ {0}
  /\ RUNNING_LEASE \in Nat \ {0}

Never == -1     \* a NULL time
Times == Nat \cup {Never}

Gate ==
  [ active_job_id : Jobs \cup {NoJob},
    active_run_id : Runs \cup {NoRun},
    lease_until : Times,
    last_edit_sent_at : Times ]

FreeGate ==
  [ active_job_id |-> NoJob, active_run_id |-> NoRun,
    lease_until |-> Never, last_edit_sent_at |-> Never ]

Held(g) == g.active_job_id # NoJob

\* Mutant: the lease of a run that has started is not looked at.
Expired_PendingOnly(g, t) == Held(g) /\ g.active_run_id = NoRun /\ g.lease_until <= t

Expired(g, t) == Held(g) /\ g.lease_until <= t
CoolingDown(g, t) ==
  g.last_edit_sent_at # Never /\ t < g.last_edit_sent_at + COOLDOWN

\* What reserve() demands, after the request has released a stale job.
Reservable(g, t) == (~Held(g) \/ Expired(g, t)) /\ ~CoolingDown(g, t)

Reserve(g, j, t) ==
  [g EXCEPT !.active_job_id = j, !.active_run_id = NoRun, !.lease_until = t + PENDING_LEASE]

\* Mutant: any run of the job may claim, though another already has.
Claimable_Again(g, r, t) == g.active_job_id = r[1] /\ t < g.lease_until

Claimable(g, r, t) ==
  g.active_job_id = r[1] /\ g.active_run_id = NoRun /\ t < g.lease_until

\* Mutant: the run keeps the lease of the reservation.
Claim_KeepsLease(g, r, t) == [g EXCEPT !.active_run_id = r]

Claim(g, r, t) == [g EXCEPT !.active_run_id = r, !.lease_until = t + RUNNING_LEASE]

\* ensure_run(): the callback comes from the run that holds the gate.
Owns(g, r, t) == g.active_job_id = r[1] /\ g.active_run_id = r /\ t < g.lease_until

\* record_edit(), once ensure_run() has accepted the run.
RecordEdit(g, t, elapsed) ==
  IF t - elapsed > g.last_edit_sent_at
  THEN [g EXCEPT !.last_edit_sent_at = t - elapsed]
  ELSE g

\* Mutant: whoever holds the gate loses it.
Release_AnyJob(g, j) ==
  [g EXCEPT !.active_job_id = NoJob, !.active_run_id = NoRun, !.lease_until = Never]

Release(g, j) ==
  IF g.active_job_id = j
  THEN [g EXCEPT !.active_job_id = NoJob, !.active_run_id = NoRun, !.lease_until = Never]
  ELSE g
=============================================================================
