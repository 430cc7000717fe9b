---------------------------- MODULE JobLifecycle ----------------------------
(***************************************************************************)
(* What the job queue promises whoever enqueues: jobs are started in the   *)
(* order they were enqueued, none is started more than MaxTries times, and *)
(* one that has ended, done or failed, has ended for good.  Workers,       *)
(* leases, heartbeats and messages are not part of the promise.            *)
(***************************************************************************)
EXTENDS Integers, Sequences

CONSTANT MaxTries  (* how often a job may be started, at most: 1 or more *)

VARIABLE life      (* what has become of each job, in the order of arrival *)

Phases == {"waiting", "running", "done", "failed"}
Fresh == [phase |-> "waiting", tries |-> 0]

Waiting == {i \in DOMAIN life : life[i].phase = "waiting"}
Running == {i \in DOMAIN life : life[i].phase = "running"}

\* Jobs arrive at the end of the queue, however many of them at once.
Arrive ==
  LET n == Len(life') - Len(life) IN
  n > 0 /\ life' = life \o [k \in 1 .. n |-> Fresh]

\* The job that has waited longest is started.
Start ==
  \E i \in Waiting :
    /\ \A k \in Waiting : i <= k
    /\ life' = [life EXCEPT ![i] = [phase |-> "running", tries |-> @.tries + 1]]

\* A running job ends; the end of one may bring another.
End ==
  \E i \in Running, phase \in {"done", "failed"}, more \in {<<>>, <<Fresh>>} :
    life' = [life EXCEPT ![i] = [@ EXCEPT !.phase = phase]] \o more

\* Running jobs that nobody is heard of any more wait for another try, or
\* have had their last.
GiveUp ==
  \E gone \in (SUBSET Running) \ {{}} :
    life' = [i \in DOMAIN life |->
               IF i \in gone
                 THEN [life[i] EXCEPT !.phase = IF life[i].tries < MaxTries
                                                  THEN "waiting" ELSE "failed"]
                 ELSE life[i]]

Init == life = <<>>
Next == Arrive \/ Start \/ End \/ GiveUp
Spec == Init /\ [][Next]_life
=============================================================================
