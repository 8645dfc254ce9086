------------------------------- MODULE IpcWire -------------------------------
(***************************************************************************)
(* A request of a service is composed in the command buffer of the thread  *)
(* that makes it (getThreadCommandBuffer): word 0 is the header, which     *)
(* says how many of the words after it are plain (normal) and how many     *)
(* describe something the kernel translates: buffers, handles, the id of   *)
(* the process.  A wrapper is one row: the words it stores, the            *)
(* descriptors among them and what it does to the static-buffer slots in   *)
(* which the thread takes replies.  What the other words say is left out.  *)
(***************************************************************************)
EXTENDS Naturals

(* the header packs the id and two counts of six bits *)
MakeHeader(id, n, t) == id * 65536 + (n % 64) * 64 + (t % 64)
NormalOf(header)     == (header \div 64) % 64
TranslateOf(header)  == header % 64

(* a descriptor at word i and the words it takes: a buffer and its address, *)
(* k handles after a word that counts them, the id the kernel fills in      *)
Buf(i)      == [at |-> i, len |-> 2,     kind |-> "buffer"]
Stat(i)     == [at |-> i, len |-> 2,     kind |-> "static"]
Pxi(i)      == [at |-> i, len |-> 2,     kind |-> "pxi"]
ShareCountsItself(i, k) == [at |-> i, len |-> k + 2, kind |-> "shared"]
Share(i, k) == [at |-> i, len |-> k + 1, kind |-> "shared"]
Move(i, k)  == [at |-> i, len |-> k + 1, kind |-> "moved"]
Pid(i)      == [at |-> i, len |-> 2,     kind |-> "pid"]

(* a request of the wrapper `name`: the words from 1 on that it stores (a   *)
(* word only partly covered by a memcpy counts) and the descriptors in them *)
Cmd(name, id, n, t, stores, descs) ==
  [name |-> name, header |-> MakeHeader(id, n, t), stores |-> stores, descs |-> descs,
   into |-> {}, restores |-> "always", guarded |-> FALSE]

(* the wrapper lends static-buffer slots to the reply and puts back what    *)
(* they held: in every case, only after a request that was delivered, never *)
Into(slots, c)            == [c EXCEPT !.into = slots]
LeavesOnFailure(slots, c) == [c EXCEPT !.into = slots, !.restores = "if_sent"]
Leaves(slots, c)          == [c EXCEPT !.into = slots, !.restores = "never"]

(* the wrapper may return before anything is sent: arguments it refuses, a  *)
(* session it does not have                                                 *)
Guarded(c) == [c EXCEPT !.guarded = TRUE]
==============================================================================
