------------------------------- MODULE IpcCall -------------------------------
(***************************************************************************)
(* One thread makes requests of services, one after the other.  All of     *)
(* them are composed in the same buffer, which the kernel overwrites with  *)
(* every reply: a word the wrapper does not store is what an earlier       *)
(* request or reply left there.  The static-buffer slots are the thread's  *)
(* as well, and hold what the last wrapper left in them.                   *)
(*                                                                         *)
(* The kernel (external) reads the two counts of the header, takes the     *)
(* normal words as they are and walks the translated ones from descriptor  *)
(* to descriptor; a word that is none makes it refuse the request.         *)
(***************************************************************************)
EXTENDS IpcWire

CONSTANTS Calls,      \* the requests (IpcWire!Cmd) the thread may make
          Slots,      \* the static-buffer slots of a thread
          NoCall,     \* no request is being made
          SendsStale, \* names of wrappers that send words they do not store,
          LosesWords, \*   that store words they do not send,
          Misplaces,  \*   whose descriptors are not where the header says,
          KeepsSlots  \*   that do not, or not always, put the slots back

ASSUME RestoringAssumption ==
  \A c \in Calls : c.restores = "always" \/ c.name \in KeepsSlots

ASSUME RowsAssumption ==
  /\ NoCall \notin Calls
  /\ \A c \in Calls : /\ c.header \in Nat /\ c.stores \subseteq Nat
                      /\ c.restores \in {"always", "if_sent", "never"}
                      /\ \A d \in c.descs : d.len \in Nat

VARIABLES call,       \* the request being made, or NoCall
          phase,      \* how far its wrapper, and the kernel, have got
          fresh,      \* the words of the buffer that this request stored
          at,         \* the word the kernel translates next
          slots,      \* per slot: the thread's own buffer, or one "lent" to a reply
          entry       \* what slots was when the wrapper was called

vars == <<call, phase, fresh, at, slots, entry>>

Normal     == 1 .. NormalOf(call.header)
Sent       == 1 .. NormalOf(call.header) + TranslateOf(call.header)
Descriptor == {d \in call.descs : d.at = at}

Init == /\ call = NoCall
        /\ phase = "idle"
        /\ fresh = {}
        /\ at = 0
        /\ slots = [s \in Slots |-> "own"]
        /\ entry = slots

Begin == /\ phase = "idle"
         /\ call' \in Calls
         /\ phase' = "called"
         /\ entry' = slots
         /\ UNCHANGED <<fresh, at, slots>>

(* the wrapper returns before it sends anything *)
Refuse == /\ phase = "called"
          /\ call.guarded
          /\ phase' = "returned"
          /\ UNCHANGED <<call, fresh, at, slots, entry>>

(* the header, the parameters and the slots the reply is to use *)
Compose == /\ phase = "called"
           /\ fresh' = call.stores
           /\ slots' = [s \in Slots |-> IF s \in call.into THEN "lent" ELSE slots[s]]
           /\ phase' = "composed"
           /\ UNCHANGED <<call, at, entry>>

(* svcSendSyncRequest; without a session it fails at once *)
Send == /\ phase = "composed"
        /\ \/ phase' = "translate" /\ at' = NormalOf(call.header) + 1
           \/ phase' = "failed" /\ at' = 0
        /\ UNCHANGED <<call, fresh, slots, entry>>

(* external: the kernel, one descriptor at a time *)
Translate == /\ phase = "translate"
             /\ at \in Sent
             /\ \/ \E d \in Descriptor : at' = at + d.len /\ phase' = phase
                \/ Descriptor = {} /\ phase' = "failed" /\ at' = 0
             /\ UNCHANGED <<call, fresh, slots, entry>>

(* external: the service answers; the reply takes the place of the request *)
Serve == /\ phase = "translate"
         /\ at \notin Sent
         /\ phase' = "served"
         /\ fresh' = {}
         /\ at' = 0
         /\ UNCHANGED <<call, slots, entry>>

(* mutant: the slots are put back only when the request was sent *)
RestoredIfServed == IF call.restores # "never" /\ phase = "served" THEN entry ELSE slots
Restored == CASE call.restores = "always"  -> entry
              [] call.restores = "if_sent" -> IF phase = "served" THEN entry ELSE slots
              [] call.restores = "never"   -> slots

(* the slots are put back, the result of the request or of sending it is    *)
(* returned                                                                 *)
Return == /\ phase \in {"failed", "served"}
          /\ slots' = Restored
          /\ phase' = "returned"
          /\ fresh' = {}
          /\ at' = 0
          /\ UNCHANGED <<call, entry>>

Leave == /\ phase = "returned"
         /\ call' = NoCall
         /\ phase' = "idle"
         /\ entry' = slots
         /\ UNCHANGED <<fresh, at, slots>>

Next == Begin \/ Refuse \/ Compose \/ Send \/ Translate \/ Serve \/ Return \/ Leave

Spec == Init /\ [][Next]_vars
-------------------------------------------------------------------------------
(* The phases, words and slots are of their types.                          *)
IpcTypeOK == /\ phase \in {"idle", "called", "composed", "translate", "failed", "served", "returned"}
             /\ (phase = "idle") <=> (call = NoCall)
             /\ fresh \subseteq Nat
             /\ at \in Nat
             /\ slots \in [Slots -> {"own", "lent"}]
             /\ entry \in [Slots -> {"own", "lent"}]

(* words of another request that would be sent as if they were of this one; *)
(* the word after the descriptor of the process id is the kernel's to fill  *)
Stale == Sent \ (fresh \cup {d.at + 1 : d \in {e \in call.descs : e.kind = "pid"}})

(* the kernel meets every descriptor of the request, none where a normal    *)
(* word is expected and none within another, and ends exactly at the last   *)
(* word                                                                     *)
WalkIsRight ==
  /\ \A d \in call.descs : d.at \in Sent \ Normal
  /\ at \in Sent => Descriptor # {}
  /\ \A d \in Descriptor, e \in call.descs : e.at \notin at + 1 .. at + d.len - 1
  /\ at <= NormalOf(call.header) + TranslateOf(call.header) + 1

(* When the kernel takes a request, every word the header announces was     *)
(* stored by the wrapper of this request: nothing left in the buffer by an  *)
(* earlier one is sent in its place, but for the wrappers named.            *)
SentWordsAreStored ==
  phase = "translate" /\ call.name \notin SendsStale => Stale = {}

(* Every word a wrapper stores is one its header announces, so that the     *)
(* service gets each parameter, but for the wrappers named.                 *)
StoredWordsAreSent ==
  phase = "composed" /\ call.name \notin LosesWords => fresh \subseteq Sent

(* The kernel, which knows only the header, finds each descriptor where it  *)
(* looks for one and ends with the last word, but for the wrappers named.   *)
KernelReadsWhatWasMeant ==
  phase = "translate" /\ call.name \notin Misplaces => WalkIsRight

(* Whatever earlier requests did, a wrapper leaves the static-buffer slots  *)
(* of the thread as it found them, also when the request could not be sent, *)
(* but for the wrappers named.                                              *)
StaticsGivenBack ==
  phase = "returned" /\ call.name \notin KeepsSlots => slots = entry
==============================================================================
