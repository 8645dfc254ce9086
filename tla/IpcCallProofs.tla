---------------------------- MODULE IpcCallProofs ----------------------------
(***************************************************************************)
(* Whatever the table of requests: the request under way is a row of it,   *)
(* the static-buffer slots are given back by every wrapper that restores   *)
(* them, whatever the wrappers named in KeepsSlots leave behind, and the   *)
(* kernel reads a request as it was meant if its row is laid out right.    *)
(***************************************************************************)
EXTENDS IpcCall, TLAPS

(* the types, and that the request being made is a row of the table         *)
TypeInv == /\ IpcTypeOK
           /\ phase # "idle" => call \in Calls

(* Initially no request is being made, the slots are the thread's own.      *)
LEMMA InitTypes == Init => TypeInv
  BY DEF Init, TypeInv, IpcTypeOK

(* Every step keeps the types: the words are counted in the header, and the *)
(* kernel moves on by the length of a descriptor of the row.                *)
LEMMA StepTypes == TypeInv /\ [Next]_vars => TypeInv'
<1> SUFFICES ASSUME TypeInv, [Next]_vars PROVE TypeInv'
  OBVIOUS
<1> USE RowsAssumption DEF TypeInv, IpcTypeOK
<1>1. CASE Begin
  BY <1>1 DEF Begin
<1>2. CASE Refuse
  BY <1>2 DEF Refuse
<1>3. CASE Compose
  BY <1>3 DEF Compose
<1>4. CASE Send
  <2>1. call \in Calls /\ call.header \in Nat
    BY <1>4 DEF Send
  <2>2. NormalOf(call.header) + 1 \in Nat
    BY <2>1 DEF NormalOf
  <2>. QED
    BY <1>4, <2>2 DEF Send
<1>5. CASE Translate
  <2>1. call \in Calls
    BY <1>5 DEF Translate
  <2>2. \A d \in Descriptor : at + d.len \in Nat
    BY <2>1 DEF Descriptor
  <2>. QED
    BY <1>5, <2>2 DEF Translate
<1>6. CASE Serve
  BY <1>6 DEF Serve
<1>7. CASE Return
  <2>1. slots' \in [Slots -> {"own", "lent"}]
    BY <1>7 DEF Return, Restored
  <2>. QED
    BY <1>7, <2>1 DEF Return
<1>8. CASE Leave
  BY <1>8 DEF Leave
<1>9. CASE UNCHANGED vars
  BY <1>9 DEF vars
<1>. QED
  BY <1>1, <1>2, <1>3, <1>4, <1>5, <1>6, <1>7, <1>8, <1>9 DEF Next

(* For every table of requests, the variables keep their types, and a       *)
(* request is under way exactly when a wrapper is.                          *)
THEOREM TypeCorrect == Spec => []IpcTypeOK
<1>1. TypeInv => IpcTypeOK
  BY DEF TypeInv
<1>. QED
  BY <1>1, InitTypes, StepTypes, PTL DEF Spec

-------------------------------------------------------------------------------
(* the wrapper being run is in the table; it has what it found until it     *)
(* composes its request and again once it returns                           *)
SlotsInv ==
  /\ phase # "idle" => call \in Calls
  /\ phase = "called" => slots = entry
  /\ phase = "returned" /\ call.restores = "always" => slots = entry

(* Initially no request is being made and nothing is lent.                  *)
LEMMA InitSlots == Init => SlotsInv
  BY DEF Init, SlotsInv

(* A wrapper that restores does so from `entry`, which no step between its  *)
(* call and its return changes: one that is refused has changed nothing.    *)
LEMMA StepSlots == SlotsInv /\ [Next]_vars => SlotsInv'
<1> SUFFICES ASSUME SlotsInv, [Next]_vars PROVE SlotsInv'
  OBVIOUS
<1>1. CASE Begin
  BY <1>1 DEF Begin, SlotsInv
<1>2. CASE Refuse
  BY <1>2 DEF Refuse, SlotsInv
<1>3. CASE Compose
  BY <1>3 DEF Compose, SlotsInv
<1>4. CASE Send
  BY <1>4 DEF Send, SlotsInv
<1>5. CASE Translate
  BY <1>5 DEF Translate, SlotsInv
<1>6. CASE Serve
  BY <1>6 DEF Serve, SlotsInv
<1>7. CASE Return
  <2>1. call.restores = "always" => slots' = entry'
    BY <1>7 DEF Return, Restored
  <2>. QED
    BY <1>7, <2>1 DEF Return, SlotsInv
<1>8. CASE Leave
  BY <1>8 DEF Leave, SlotsInv
<1>9. CASE UNCHANGED vars
  BY <1>9 DEF vars, SlotsInv
<1>. QED
  BY <1>1, <1>2, <1>3, <1>4, <1>5, <1>6, <1>7, <1>8, <1>9 DEF Next

(* For every table of requests, a wrapper not named in KeepsSlots returns   *)
(* with the static-buffer slots of the thread as it found them.             *)
THEOREM StaticsAreGivenBack == Spec => []StaticsGivenBack
<1>1. SlotsInv => StaticsGivenBack
  BY RestoringAssumption DEF SlotsInv, StaticsGivenBack
<1>. QED
  BY <1>1, InitSlots, StepSlots, PTL DEF Spec

-------------------------------------------------------------------------------
(* What a row has to be like: the words its header announces, and where a   *)
(* walk over its descriptors may come.                                      *)
LastOf(c) == NormalOf(c.header) + TranslateOf(c.header)
Stops(c)  == {NormalOf(c.header) + 1} \cup {d.at + d.len : d \in c.descs}

(* the descriptors are in the part for them, none within another; the first *)
(* is where that part begins, and where one ends there is the next, or the  *)
(* end of the request                                                       *)
LaidOut(c) ==
  /\ \A d \in c.descs : d.at \in NormalOf(c.header) + 1 .. LastOf(c)
  /\ \A d, e \in c.descs : e.at \notin d.at + 1 .. d.at + d.len - 1
  /\ \A i \in Stops(c) : i = LastOf(c) + 1 \/ \E d \in c.descs : d.at = i

(* the wrappers not named keep the rule                                     *)
RowsAreLaidOut == \A c \in Calls : c.name \in Misplaces \/ LaidOut(c)

(* the kernel goes from one stop to the next                                *)
WalkInv ==
  /\ phase # "idle" => call \in Calls
  /\ phase = "translate" => at \in Stops(call)

(* Initially there is no request to walk over.                              *)
LEMMA InitWalk == Init => WalkInv
  BY DEF Init, WalkInv

(* The kernel starts behind the normal words and moves on by the length of  *)
(* the descriptor it is at.                                                 *)
LEMMA StepWalk == WalkInv /\ [Next]_vars => WalkInv'
<1> SUFFICES ASSUME WalkInv, [Next]_vars PROVE WalkInv'
  OBVIOUS
<1>1. CASE Begin
  BY <1>1 DEF Begin, WalkInv
<1>2. CASE Refuse
  BY <1>2 DEF Refuse, WalkInv
<1>3. CASE Compose
  BY <1>3 DEF Compose, WalkInv
<1>4. CASE Send
  BY <1>4 DEF Send, WalkInv, Stops
<1>5. CASE Translate
  <2>1. CASE Descriptor = {}
    BY <1>5, <2>1 DEF Translate, WalkInv
  <2>2. ASSUME NEW d \in Descriptor, at' = at + d.len PROVE at' \in Stops(call)
    BY <2>2 DEF Descriptor, Stops
  <2>. QED
    BY <1>5, <2>1, <2>2 DEF Translate, WalkInv
<1>6. CASE Serve
  BY <1>6 DEF Serve, WalkInv
<1>7. CASE Return
  BY <1>7 DEF Return, WalkInv
<1>8. CASE Leave
  BY <1>8 DEF Leave, WalkInv
<1>9. CASE UNCHANGED vars
  BY <1>9 DEF vars, WalkInv
<1>. QED
  BY <1>1, <1>2, <1>3, <1>4, <1>5, <1>6, <1>7, <1>8, <1>9 DEF Next

(* For every table whose rows not named are laid out as their headers say,  *)
(* the kernel, which knows only the header, comes upon a descriptor         *)
(* wherever it looks for one and ends with the last word.                   *)
THEOREM RequestsAreUnderstood ==
  ASSUME RowsAreLaidOut
  PROVE  Spec => []KernelReadsWhatWasMeant
<1>1. WalkInv => KernelReadsWhatWasMeant
  <2> SUFFICES ASSUME WalkInv, phase = "translate", call.name \notin Misplaces PROVE WalkIsRight
    BY DEF KernelReadsWhatWasMeant
  <2>1. call \in Calls /\ LaidOut(call) /\ at \in Stops(call)
    BY DEF WalkInv, RowsAreLaidOut
  <2>2. NormalOf(call.header) \in Nat /\ TranslateOf(call.header) \in Nat /\ LastOf(call) \in Nat
    BY <2>1, RowsAssumption DEF NormalOf, TranslateOf, LastOf
  <2>3. \A d \in call.descs : d.at \in Sent \ Normal
    BY <2>1, <2>2 DEF LaidOut, LastOf, Sent, Normal
  <2>4. at = LastOf(call) + 1 \/ \E d \in call.descs : d.at = at
    BY <2>1 DEF LaidOut
  <2>5. at \in Sent => Descriptor # {}
    BY <2>2, <2>4 DEF Descriptor, Sent, LastOf
  <2>6. at <= LastOf(call) + 1
    BY <2>1, <2>2, <2>4 DEF LaidOut
  <2>7. \A d \in Descriptor, e \in call.descs : e.at \notin at + 1 .. at + d.len - 1
    BY <2>1 DEF LaidOut, Descriptor
  <2>. QED
    BY <2>3, <2>5, <2>6, <2>7 DEF WalkIsRight, LastOf
<1>. QED
  BY <1>1, InitWalk, StepWalk, PTL DEF Spec
==============================================================================
