----------------------------- MODULE AptParameters -----------------------------
(***************************************************************************)
(* How a program receives the parameters that other applets send it.  APT  *)
(* keeps one parameter and signals an event; the event handler thread      *)
(* looks at the parameter and relays the event to aptReceiveEvent, on      *)
(* which the main thread waits before it takes the parameter.              *)
(***************************************************************************)
EXTENDS Naturals

CONSTANTS Commands,   \* commands of the parameters that are sent
          NoCommand,  \* there is no parameter
          HandlesDsp  \* commands that the handler deals with and leaves in place

CommandsAssumption == NoCommand \notin Commands /\ HandlesDsp \subseteq Commands

VARIABLES parameter,   \* what APT keeps for the program
          event,       \* aptEvents[1], signalled
          relay,       \* aptReceiveEvent, a sticky LightEvent, signalled
          spurious,    \* FLAG_SPURIOUS
          handler,     \* where the event handler thread is
          glanced,     \* the command it has looked at
          main,        \* where the main thread is
          wanted       \* the commands that end its wait

vars == <<parameter, event, relay, spurious, handler, glanced, main, wanted>>

WakeUps == Commands \ (HandlesDsp \cup {"message", "response"})

Init == /\ parameter = NoCommand
        /\ event = FALSE
        /\ relay = FALSE
        /\ spurious \in BOOLEAN
        /\ handler = "waits"
        /\ glanced = NoCommand
        /\ main = "runs"
        /\ wanted = {}
-------------------------------------------------------------------------------
(* Another applet sends a parameter once the last one has been taken; those *)
(* that nobody takes are replaced.                                          *)
SendParameter(cmd) == /\ parameter \in HandlesDsp \cup {NoCommand}
                      /\ parameter' = cmd
                      /\ event' = TRUE
                      /\ UNCHANGED <<relay, spurious, handler, glanced, main, wanted>>

(* svcWaitSynchronizationN on a one-shot event *)
HandlerWakes == /\ handler = "waits"
                /\ event
                /\ event' = FALSE
                /\ handler' = "woken"
                /\ UNCHANGED <<parameter, relay, spurious, glanced, main, wanted>>

(* the main thread has not cleared the last relayed event: sleep, try again *)
HandlerRetries == /\ handler = "woken"
                  /\ relay
                  /\ event' = TRUE
                  /\ handler' = "waits"
                  /\ UNCHANGED <<parameter, relay, spurious, glanced, main, wanted>>

HandlerGoesOn == /\ handler = "woken"
                 /\ ~relay
                 /\ handler' = "clears"
                 /\ UNCHANGED <<parameter, event, relay, spurious, glanced, main, wanted>>

ClearEvent == /\ handler = "clears"
              /\ event' = FALSE
              /\ handler' = "glances"
              /\ UNCHANGED <<parameter, relay, spurious, glanced, main, wanted>>

(* APT_GlanceParameter leaves the parameter; if there is none it fails      *)
GlanceParameter == /\ handler = "glances"
                   /\ glanced' = parameter
                   /\ handler' = IF parameter = NoCommand THEN "waits" ELSE "decides"
                   /\ UNCHANGED <<parameter, event, relay, spurious, main, wanted>>

(* mutant: the event is cleared once its parameter is dealt with *)
HandledHereClears == /\ handler = "decides"
                     /\ glanced \in HandlesDsp
                     /\ handler' = "waits"
                     /\ event' = FALSE
                     /\ UNCHANGED <<parameter, relay, spurious, glanced, main, wanted>>

HandledHere == /\ handler = "decides"
               /\ glanced \in HandlesDsp
               /\ handler' = "waits"
               /\ UNCHANGED <<parameter, event, relay, spurious, glanced, main, wanted>>

Unwanted == glanced = "pause" /\ spurious

(* APT_CancelParameter takes whatever parameter there is by now             *)
CancelSpurious == /\ handler = "decides"
                  /\ Unwanted
                  /\ parameter' = NoCommand
                  /\ spurious' = FALSE
                  /\ handler' = "waits"
                  /\ UNCHANGED <<event, relay, glanced, main, wanted>>

Relay == /\ handler = "decides"
         /\ glanced \notin HandlesDsp
         /\ ~Unwanted
         /\ relay' = TRUE
         /\ handler' = "waits"
         /\ UNCHANGED <<parameter, event, spurious, glanced, main, wanted>>
-------------------------------------------------------------------------------
(* The main thread starts to wait for a wakeup, aptWaitForWakeUp, or for an *)
(* answer, aptScreenTransfer.  What jumps or launches drops the spurious    *)
(* wakeup that never came.                                                  *)
StartWaiting(commands) == /\ main = "runs"
                          /\ wanted' = commands
                          /\ main' = "waits"
                          /\ spurious' \in {spurious, FALSE}
                          /\ UNCHANGED <<parameter, event, relay, handler, glanced>>

(* LightEvent_Wait; the event is sticky *)
WaitReceive == /\ main = "waits"
               /\ relay
               /\ main' = "clears"
               /\ UNCHANGED <<parameter, event, relay, spurious, handler, glanced, wanted>>

ClearReceive == /\ main = "clears"
                /\ relay' = FALSE
                /\ main' = "receives"
                /\ UNCHANGED <<parameter, event, spurious, handler, glanced, wanted>>

(* APT_ReceiveParameter fails without a parameter; the wait goes on until a *)
(* command that is wanted comes                                             *)
ReceiveParameter == /\ main = "receives"
                    /\ parameter' = NoCommand
                    /\ main' = IF parameter \in wanted THEN "runs" ELSE "waits"
                    /\ UNCHANGED <<event, relay, spurious, handler, glanced, wanted>>

Handler == \/ HandlerWakes \/ HandlerRetries \/ HandlerGoesOn \/ ClearEvent
           \/ GlanceParameter \/ HandledHere \/ CancelSpurious \/ Relay
Main == \/ \E commands \in {WakeUps, {"response"}} : StartWaiting(commands)
        \/ WaitReceive \/ ClearReceive \/ ReceiveParameter

Next == Handler \/ Main \/ \E cmd \in Commands : SendParameter(cmd)

Spec == Init /\ [][Next]_vars
-------------------------------------------------------------------------------
(* A parameter for the main thread is not left behind: as long as it is     *)
(* there, the main thread is on its way to take it, or will be let through, *)
(* or the handler is about to look at it or to relay it.                    *)
NoParameterLeftBehind ==
  parameter \notin HandlesDsp \cup {NoCommand} =>
    \/ event \/ relay
    \/ handler \in {"woken", "clears", "glances"}
    \/ handler = "decides" /\ glanced \notin HandlesDsp
    \/ main = "receives"
==============================================================================
