----------------------------- MODULE ProcessLife -----------------------------
(***************************************************************************)
(* How the two processes start and stop: worker.ts, index.ts and           *)
(* lib/shutdown.ts.  What a drain waits for is handed in as a parameter.   *)
(***************************************************************************)
EXTENDS Integers

VARIABLES
  stage,      \* where each process is
  forceTimer  \* FORCE_EXIT_MS is running

lifeVars == <<stage, forceTimer>>

Processes == {"api", "worker"}

\* The stages of main, then those of shutdown.
Booting == {"verifying", "reconciling", "starting"}
Stopping == {"draining", "closing"}
Stages == {"down", "up"} \cup Booting \cup Stopping

LifeInit ==
  /\ stage = [p \in Processes |-> "down"]
  /\ forceTimer = [p \in Processes |-> FALSE]

Enters(p, s) ==
  /\ stage' = [stage EXCEPT ![p] = s]
  /\ UNCHANGED forceTimer

\* process.exit, or the end by a signal or a crash.
Exits(p) ==
  /\ stage' = [stage EXCEPT ![p] = "down"]
  /\ forceTimer' = [forceTimer EXCEPT ![p] = FALSE]

\* The API listens and registers its handlers in one go; the worker verifies
\* its SMTP accounts first.
Starts(p) ==
  /\ stage[p] = "down"
  /\ Enters(p, IF p = "api" THEN "up" ELSE "verifying")

\* verifyAll: one usable account is enough.
Verified == stage["worker"] = "verifying" /\ Enters("worker", "reconciling")

\* The reconciliation is over: the worker takes jobs from here on, but a signal
\* still has its default effect.
WorkerCreated == stage["worker"] = "reconciling" /\ Enters("worker", "starting")

\* getQueueCounts has answered and the signal handlers are registered.
HandlersRegistered == stage["worker"] = "starting" /\ Enters("worker", "up")

\* No account is usable, the reconciliation or getQueueCounts is rejected.
BootFails ==
  /\ stage["worker"] \in Booting
  /\ Exits("worker")

\* Fault: the timer is not started.
BeginShutdownUntimed(p) == Enters(p, "draining")

BeginShutdown(p) ==
  /\ stage' = [stage EXCEPT ![p] = "draining"]
  /\ forceTimer' = [forceTimer EXCEPT ![p] = TRUE]

\* SIGINT or SIGTERM: a second one is ignored.
Signalled(p) ==
  \/ stage[p] \in Booting /\ Exits(p)
  \/ stage[p] = "up" /\ BeginShutdown(p)

\* Fault: the drain is not awaited.
DrainedAtOnce(p, waiting) == stage[p] = "draining" /\ Enters(p, "closing")

\* server.close or worker.close resolves when nothing is left to wait for.
Drained(p, waiting) ==
  /\ stage[p] = "draining"
  /\ waiting = 0
  /\ Enters(p, "closing")

\* The SMTP pool, the limiter's connection and Prisma are closed.
ShutdownComplete(p) == stage[p] = "closing" /\ Exits(p)

\* A step of the teardown is rejected.
ShutdownFails(p) == stage[p] \in Stopping /\ Exits(p)

ForcedExit(p) == forceTimer[p] /\ Exits(p)

Crashes(p) == stage[p] # "down" /\ Exits(p)
==============================================================================
