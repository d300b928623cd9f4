---------------------------- MODULE StaleRegister ----------------------------
(***************************************************************************)
(* What a reader behind the cache is promised: each part of an answer is a *)
(* version that was current at some moment of the last Window ticks, or is *)
(* left blank because a statement that reads it failed in that time.       *)
(***************************************************************************)
EXTENDS Naturals, Sequences

CONSTANTS
  Parts,    \* what is stored: rows, or columns written together
  Readers,
  Keys,     \* the cached views
  Shows,    \* Shows[k]: the parts the view k is made of
  Window    \* Window[k]: how far back an answer for k may look

VARIABLES
  now,      \* the time
  log,      \* log[p]: the times at which p was written
  failed,   \* failed[p]: the last time a statement reading p failed, or 0
  answer    \* answer[r]: the answer r has just been given

svars == <<now, log, failed, answer>>

Blank   == [p \in Parts |-> 0]
Nothing == [key |-> "none", val |-> Blank]

SInit ==
  /\ now = 1
  /\ log = [p \in Parts |-> <<0>>]
  /\ failed = [p \in Parts |-> 0]
  /\ answer = [r \in Readers |-> Nothing]

Tick == now' = now + 1 /\ UNCHANGED <<log, failed, answer>>

Write(p) ==
  /\ log' = [log EXCEPT ![p] = Append(@, now)]
  /\ UNCHANGED <<now, failed, answer>>

Fail(p) ==
  /\ failed' = [failed EXCEPT ![p] = now]
  /\ UNCHANGED <<now, log, answer>>

Forget(r) ==
  /\ answer' = [answer EXCEPT ![r] = Nothing]
  /\ UNCHANGED <<now, log, failed>>

\* The version v of p was current until version v + 1 was written.
Recent(k, p, v) == v \in 1..Len(log[p]) /\ (v < Len(log[p]) => log[p][v + 1] + Window[k] > now)

FailedRecently(k, p) == failed[p] # 0 /\ failed[p] + Window[k] > now

Answer(r, k, val) ==
  /\ val \in [Parts -> Nat]
  /\ \A p \in Parts :
       IF p \in Shows[k] THEN Recent(k, p, val[p]) \/ (val[p] = 0 /\ FailedRecently(k, p))
                        ELSE val[p] = 0
  /\ answer' = [answer EXCEPT ![r] = [key |-> k, val |-> val]]
  /\ UNCHANGED <<now, log, failed>>

SNext ==
  \/ Tick
  \/ \E p \in Parts : Write(p) \/ Fail(p)
  \/ \E r \in Readers : Forget(r) \/ \E k \in Keys : Answer(r, k, answer'[r].val)

SSpec == SInit /\ [][SNext]_svars
==============================================================================
