---------------------------- MODULE ServiceSession ----------------------------
(***************************************************************************)
(* Every service has an init and an exit routine around a reference count: *)
(* the first init takes what the service needs, later ones only count, and *)
(* the last exit gives everything back.  What differs from service to      *)
(* service is the steps an init takes, and what it does when one fails.    *)
(* Services lists them; here one of them is used by a program, one call    *)
(* after the other, any step failing that can fail.                        *)
(***************************************************************************)
EXTENDS Integers, Sequences

CONSTANTS Services,    \* the rows of module Services
          MaxUsers,    \* bound: inits not yet matched by an exit
          Miscounts,   \* names of services whose count may differ from their users
          Leaks        \* names of services that may be left with something open

(* what the failure of a step does to the count *)
Failures == {"drop",      \* AtomicDecrement of the count, the failure is returned
             "exit",      \* the exit routine is called, the failure is returned
             "keep",      \* the failure is returned, the count is left as it is
             "lie",       \* AtomicDecrement, but what is returned is success
             "drop_on",   \* AtomicDecrement, and the init goes on
             "ignore"}    \* nothing: the init goes on

ASSUME MaxUsersAssumption == MaxUsers \in Nat \ {0}

ASSUME StepsAssumption ==
  \A s \in Services : Len(s.steps) \in Nat \ {0} /\ DOMAIN s.steps = 1 .. Len(s.steps)

ASSUME CountingAssumption ==
  \A s \in Services : s.name \notin Miscounts =>
     \A i \in DOMAIN s.steps : s.steps[i].fails \in {"drop", "exit", "ignore"}

VARIABLES svc,     \* the service that is used
          count,   \* its reference count
          users,   \* inits that returned success, less the exits since
          open,    \* what the service holds: handles, mappings, threads, memory
          step     \* the step of the init that is running, 0 between calls

svars == <<svc, count, users, open, step>>

Init == /\ svc \in Services
        /\ count = 0
        /\ users = 0
        /\ open = {}
        /\ step = 0

(* if (AtomicPostIncrement(&refCount)) return 0; *)
CallInit == /\ step = 0
            /\ users < MaxUsers
            /\ count' = count + 1
            /\ IF count # 0 THEN users' = users + 1 /\ step' = 0
                            ELSE users' = users /\ step' = 1
            /\ UNCHANGED <<svc, open>>

Running == svc.steps[step]

(* the init goes on with the next step, or returns success after the last *)
GoOn == IF step = Len(svc.steps)
        THEN step' = 0 /\ users' = users + 1
        ELSE step' = step + 1 /\ users' = users

(* a request of the service cannot succeed without the session *)
StepSucceeds == /\ step # 0
                /\ Running.needs \subseteq open
                /\ open' = open \cup Running.gets
                /\ GoOn
                /\ UNCHANGED <<svc, count>>

(* mutant: a failed init leaves its count *)
StepFailsKeepsCount ==
  /\ step # 0
  /\ open' = open \ Running.undo
  /\ step' = 0
  /\ UNCHANGED <<svc, count, users>>

(* mutant: every exit closes, not only the last *)
AfterExitAlways == open \ svc.closes

(* the last exit gives back what the row says *)
Dropped == count - 1
AfterExit == IF Dropped = 0 THEN open \ svc.closes ELSE open

(* a step that this configuration of the program leaves out *)
StepSkipped == /\ step # 0
               /\ Running.optional
               /\ GoOn
               /\ UNCHANGED <<svc, count, open>>

StepFails ==
  /\ step # 0
  /\ count' = IF Running.fails \in {"keep", "ignore"} THEN count ELSE Dropped
  /\ open' = CASE Running.fails = "exit" -> AfterExit
               [] Running.fails = "ignore" -> open
               [] OTHER -> open \ Running.undo
  /\ CASE Running.fails \in {"ignore", "drop_on"} -> GoOn
       [] Running.fails = "lie" -> step' = 0 /\ users' = users + 1
       [] OTHER -> step' = 0 /\ users' = users
  /\ UNCHANGED svc

(* if (AtomicDecrement(&refCount)) return; one exit per successful init *)
CallExit == /\ step = 0
            /\ users > 0
            /\ users' = users - 1
            /\ count' = Dropped
            /\ open' = AfterExit
            /\ UNCHANGED <<svc, step>>

Next == CallInit \/ StepSucceeds \/ StepSkipped \/ StepFails \/ CallExit

Spec == Init /\ [][Next]_svars
-------------------------------------------------------------------------------
(* Between two calls the reference count is the number of users, whatever   *)
(* failed on the way: an init that failed has taken its own count back.     *)
CountsItsUsers == step = 0 /\ svc.name \notin Miscounts => count = users

(* the steps whose success an init that returns success has seen            *)
Vital == {i \in DOMAIN svc.steps : ~svc.steps[i].optional /\ svc.steps[i].fails # "ignore"}

(* An init that returned success, also one that only counted, leaves its    *)
(* caller with everything that the steps of the first init acquire, until   *)
(* the caller's own exit, whatever the others do.                           *)
UsersAreServed ==
  step = 0 /\ users > 0 /\ svc.name \notin Miscounts =>
    \A i \in Vital : svc.steps[i].gets \subseteq open

(* Once nobody uses the service, because its init failed or because the     *)
(* last user left, nothing that it acquired is still open.                  *)
NothingStaysOpen == step = 0 /\ users = 0 /\ svc.name \notin Leaks => open = {}
==============================================================================
