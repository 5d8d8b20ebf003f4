---------------------------- MODULE EmbeddingJob ----------------------------
(***************************************************************************)
(* What the message-embedding queue promises to the rest of the system,    *)
(* whatever workers, leases, retries, crashes and shutdowns do: each chat  *)
(* message carries one embedding job; a job is resolved at most once per   *)
(* registration, either with a vector (final until the message is deleted) *)
(* or by giving up (only the maintenance command may register it again).   *)
(***************************************************************************)
CONSTANT Messages

VARIABLE phase

Phases == {"absent", "idle", "pending", "done", "gaveup", "deleted"}

JobInit == phase = [m \in Messages |-> "absent"]

\* The phase of m moves from one of the phases `from` to `to`.
Move(m, from, to) ==
    /\ phase[m] \in from
    /\ phase' = [phase EXCEPT ![m] = to]

\* A message is stored, with a job registered in the same INSERT or without.
Store(m) == Move(m, {"absent"}, "idle") \/ Move(m, {"absent"}, "pending")

\* The maintenance command registers a message that has no vector.
Register(m) == Move(m, {"idle", "gaveup"}, "pending")

Resolve(m) == Move(m, {"pending"}, "done") \/ Move(m, {"pending"}, "gaveup")

Delete(m) == Move(m, Phases \ {"absent", "deleted"}, "deleted")

\* One statement of the queue gives up on every job that has no attempt left.
GiveUpMany ==
    \E S \in SUBSET {m \in Messages : phase[m] = "pending"} :
        phase' = [m \in Messages |-> IF m \in S THEN "gaveup" ELSE phase[m]]

JobNext ==
    \/ GiveUpMany
    \/ \E m \in Messages : Store(m) \/ Register(m) \/ Resolve(m) \/ Delete(m)

JobSpec == JobInit /\ [][JobNext]_phase
=============================================================================
