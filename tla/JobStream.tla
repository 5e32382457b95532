------------------------------ MODULE JobStream -------------------------------
(***************************************************************************)
(* What the registry of background jobs promises to those who watch a      *)
(* job's stream, whatever the job does: whoever is watching when the job   *)
(* ends is told, and whoever comes later is told at once.  A job may also  *)
(* fall silent, which tells nobody, and a restart forgets every job and    *)
(* closes every stream.                                                    *)
(***************************************************************************)
CONSTANTS Jobs, Watchers, NoJob

VARIABLES
  phase,   \* phase[j]: of the job
  stream   \* stream[w]: the job that w follows, and whether w has been told its end

svars == <<phase, stream>>

Phases == {"none", "running", "ended", "silent", "forgotten"}
Closed == [job |-> NoJob, told |-> FALSE]

StreamTypeOK ==
  /\ phase \in [Jobs -> Phases]
  /\ stream \in [Watchers -> [job : Jobs \cup {NoJob}, told : BOOLEAN]]

StreamInit == phase = [j \in Jobs |-> "none"] /\ stream = [w \in Watchers |-> Closed]

Start(j) == phase[j] = "none" /\ phase' = [phase EXCEPT ![j] = "running"] /\ UNCHANGED stream
\* The terminal event goes to everyone who is watching.
Finish(j) ==
  /\ phase[j] = "running" /\ phase' = [phase EXCEPT ![j] = "ended"]
  /\ stream' = [w \in Watchers |->
                  IF stream[w].job = j THEN [stream[w] EXCEPT !.told = TRUE] ELSE stream[w]]
FallSilent(j) ==
  phase[j] = "running" /\ phase' = [phase EXCEPT ![j] = "silent"] /\ UNCHANGED stream
Follow(w, j) ==
  /\ phase[j] \in {"running", "ended", "silent"}
  /\ stream' = [stream EXCEPT ![w] = [job |-> j, told |-> phase[j] = "ended"]]
  /\ UNCHANGED phase
HangUp(w) == stream' = [stream EXCEPT ![w] = Closed] /\ UNCHANGED phase
Forget ==
  /\ phase' = [j \in Jobs |-> IF phase[j] = "none" THEN "none" ELSE "forgotten"]
  /\ stream' = [w \in Watchers |-> Closed]

StreamNext ==
  \/ \E j \in Jobs : Start(j) \/ Finish(j) \/ FallSilent(j)
  \/ \E w \in Watchers : HangUp(w) \/ \E j \in Jobs : Follow(w, j)
  \/ Forget

StreamSafety == StreamInit /\ [][StreamNext]_svars
\* A job does not run for ever.
StreamSpec == StreamSafety /\ \A j \in Jobs : WF_svars(Finish(j) \/ FallSilent(j))

\* Nobody is left waiting on a job that has ended (jobQueue.js, the stream route).
ToldOfTheEnd ==
  \A w \in Watchers : stream[w].job # NoJob =>
    (stream[w].told <=> phase[stream[w].job] = "ended")

=============================================================================
