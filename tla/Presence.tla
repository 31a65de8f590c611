------------------------------- MODULE Presence -----------------------------
(***************************************************************************)
(* The presence sidecar (storage/gsbm/presence_track.go): one global       *)
(* sync.Map from (type, address) to a bit mask of decoded tags, which      *)
(* hand-written decoders mark and every generated FieldPresent, Reset and  *)
(* UnmarshalGSBM reaches.  A step is one operation on the map or on one    *)
(* atomic word of a mask; goroutines interleave between them.              *)
(*                                                                         *)
(* Addresses come back: the map does not pin a receiver, so a collected    *)
(* one leaves its entry behind for the next receiver at its address.       *)
(*                                                                         *)
(* `may', `owed', `fresh' and `obs' record the history of the calls and    *)
(* decide nothing.                                                         *)
(***************************************************************************)
EXTENDS Integers, FiniteSets

CONSTANTS
  Procs,          \* goroutines
  Types,          \* concrete receiver types
  Addrs,          \* addresses
  Nil,            \* the nil pointer
  None,           \* no mask, no type
  Masks,          \* presenceMask objects
  MaxTrackedTag,  \* 1024 in the code
  WordBits,       \* tags to a word of a mask: 64
  Modulus,        \* of the tags' arithmetic: 2^32
  TagsOf          \* the tags callers pass with a receiver of each type

Words == MaxTrackedTag \div WordBits

ASSUME PresenceAssumption ==
  /\ Nil \notin Addrs /\ None \notin Masks \cup Types
  /\ MaxTrackedTag \in Nat \ {0} /\ WordBits \in Nat \ {0}
  /\ MaxTrackedTag % WordBits = 0 /\ Modulus \in Nat /\ MaxTrackedTag < Modulus
  /\ TagsOf \in [Types -> SUBSET (0 .. Modulus - 1)]
  /\ Cardinality(Masks) >= Cardinality(Types) * Cardinality(Addrs) + Cardinality(Procs)

Receivers == [typ : Types, ptr : Addrs \cup {Nil}]
Keys      == [typ : Types, ptr : Addrs]

VARIABLES
  store,   \* presenceStore: a mask for some of the keys
  bits,    \* bits[m]: the tags set in a mask
  call,    \* call[p]: the call a goroutine is in, its arguments and locals
  may,     \* <<receiver, tag>>: marked since the receiver was last erased
  owed,    \* <<receiver, tag>>: a finished mark nothing has begun to erase
  fresh,   \* receivers at a reused address, not erased yet
  obs      \* obs[p]: what p's call may and must find, and what it erases

history == <<may, owed, fresh, obs>>
vars    == <<store, bits, call, history>>

Idle    == [at |-> "idle", rcv |-> [typ |-> None, ptr |-> Nil], tag |-> 0,
            mask |-> None, word |-> 0, todo |-> {}, ret |-> FALSE]
NoObs   == [may |-> FALSE, must |-> FALSE, erases |-> {}]

Marking  == {"mark", "markSet", "markStore"}
Clearing == {"clear", "clearWords"}
Asking   == {"is", "isGet"}
Erasing  == Clearing \cup {"forget", "reset"}

\* What a fresh presenceMask needs: an object neither stored nor held.
Unused == Masks \ ({store[k] : k \in DOMAIN store} \cup {call[p].mask : p \in Procs})

\* Mutant: the key is the address alone.
makeKeyAddress(r) == [typ |-> CHOOSE t \in Types : TRUE, ptr |-> r.ptr]

\* The type and data words of the interface.
makeKey(r) == [typ |-> r.typ, ptr |-> r.ptr]

\* Mutant: the cap is off by one.
untrackedLoose(tag) == tag = 0 \/ tag > MaxTrackedTag + 1

\* The first early return of MarkPresent and IsPresent.
untracked(tag) == tag = 0 \/ tag > MaxTrackedTag

\* The word of a mask that holds a tag, in unsigned arithmetic.
idx(tag) == ((tag + Modulus - 1) % Modulus) \div WordBits

Init ==
  /\ store = << >>
  /\ bits = [m \in Masks |-> {}]
  /\ call = [p \in Procs |-> Idle]
  /\ may = {} /\ owed = {} /\ fresh = {}
  /\ obs = [p \in Procs |-> NoObs]

-----------------------------------------------------------------------------
(* Calls begin and return.  Arguments no mask can hold return at once.     *)

Goto(p, l)  == call' = [call EXCEPT ![p].at = l]
Leave(p, v) == call' = [call EXCEPT ![p] = [Idle EXCEPT !.at = "returned", !.ret = v]]

Enter(p, l, r, tag, early) ==
  /\ call[p].at = "idle"
  /\ IF early THEN Leave(p, FALSE)
     ELSE call' = [call EXCEPT ![p] = [Idle EXCEPT !.at = l, !.rcv = r, !.tag = tag]]
  /\ UNCHANGED <<store, bits>>

\* Does p's call erase marks of r?
Erases(p, r) ==
  \/ call[p].at \in Erasing \ {"reset"} /\ call[p].rcv = r
  \/ call[p].at = "reset"

\* The mark's history: it may be seen from now on, no erasure under way has to
\* take it, and it is owed at its return unless an erasure meets it.
BeginMark(p, r, tag) ==
  LET early == untracked(tag) \/ r.ptr = Nil IN
  /\ Enter(p, "mark", r, tag, early)
  /\ IF early THEN UNCHANGED history ELSE
     /\ may' = may \cup {<<r, tag>>}
     /\ obs' = [q \in Procs |->
          IF q = p THEN [NoObs EXCEPT !.must = \A o \in Procs : ~Erases(o, r)]
          ELSE [obs[q] EXCEPT !.erases = @ \ {<<r, tag>>},
                 !.may = @ \/ (call[q].at \in Asking /\ call[q].rcv = r /\ call[q].tag = tag)]]
     /\ UNCHANGED <<owed, fresh>>

\* An erasure of the receivers in rs begins: from now on nothing is owed to
\* them; at its return the marks that were finished are gone.
BeginErase(p, rs) ==
  /\ owed' = {x \in owed : x[1] \notin rs}
  /\ obs' = [q \in Procs |->
       IF q = p
       THEN [NoObs EXCEPT !.erases = {x \in may : x[1] \in rs} \
              {<<call[o].rcv, call[o].tag>> : o \in {o \in Procs : call[o].at \in Marking}}]
       ELSE IF call[q].rcv \in rs THEN [obs[q] EXCEPT !.must = FALSE] ELSE obs[q]]
  /\ UNCHANGED <<may, fresh>>

BeginClear(p, r) ==
  /\ Enter(p, "clear", r, 0, r.ptr = Nil)
  /\ BeginErase(p, {r})

BeginForget(p, r) ==
  /\ Enter(p, "forget", r, 0, r.ptr = Nil)
  /\ BeginErase(p, {r})

\* Range visits the keys there at its start and perhaps some stored later, each
\* at most once.
BeginResetStore(p) ==
  /\ call[p].at = "idle"
  /\ \E ks \in SUBSET Keys :
       /\ DOMAIN store \subseteq ks
       /\ call' = [call EXCEPT ![p] = [Idle EXCEPT !.at = "reset", !.todo = ks]]
  /\ UNCHANGED <<store, bits>>
  /\ BeginErase(p, Receivers)

BeginIsPresent(p, r, tag) ==
  /\ Enter(p, "is", r, tag, untracked(tag) \/ r.ptr = Nil)
  /\ obs' = [obs EXCEPT ![p] =
       [NoObs EXCEPT !.may = <<r, tag>> \in may \/ r \in fresh, !.must = <<r, tag>> \in owed]]
  /\ UNCHANGED <<may, owed, fresh>>

\* The history at the end of a mark and of an erasure.
MarkDone(p) ==
  /\ owed' = IF obs[p].must THEN owed \cup {<<call[p].rcv, call[p].tag>>} ELSE owed
  /\ obs' = [obs EXCEPT ![p] = NoObs]
  /\ UNCHANGED <<may, fresh>>

EraseDone(p) ==
  /\ may' = may \ obs[p].erases
  /\ fresh' = fresh \ {call[p].rcv}
  /\ obs' = [obs EXCEPT ![p] = NoObs]
  /\ UNCHANGED owed

\* The caller has its result; the bits of a mask nothing refers to are garbage.
Return(p) ==
  /\ call[p].at = "returned"
  /\ call' = [call EXCEPT ![p] = Idle]
  /\ obs' = [obs EXCEPT ![p] = NoObs]
  /\ bits' = [m \in Masks |-> IF m \in Unused THEN {} ELSE bits[m]]
  /\ UNCHANGED <<store, may, owed, fresh>>

-----------------------------------------------------------------------------
(* MarkPresent *)

Key(p) == makeKey(call[p].rcv)

\* presenceStore.Load.
MarkLoad(p) ==
  /\ call[p].at = "mark"
  /\ call' = [call EXCEPT ![p] =
       IF Key(p) \in DOMAIN store
       THEN [@ EXCEPT !.at = "markSet", !.mask = store[Key(p)]]
       ELSE [@ EXCEPT !.at = "markStore"]]
  /\ UNCHANGED <<store, bits, history>>

\* An index past the words of a mask panics.
panics(tag) == idx(tag) \notin 0 .. Words - 1

\* mask.set: one atomic Or, whether the mask is still in the store or not.
MarkSet(p) ==
  /\ call[p].at = "markSet"
  /\ IF panics(call[p].tag)
     THEN Goto(p, "panicked") /\ UNCHANGED <<bits, history>>
     ELSE /\ bits' = [bits EXCEPT ![call[p].mask] = @ \cup {call[p].tag}]
          /\ Leave(p, FALSE) /\ MarkDone(p)
  /\ UNCHANGED store

\* Mutant: the new mask replaces one stored since the Load.
MarkStoreAlways(p) ==
  /\ call[p].at = "markStore"
  /\ \E m \in Unused :
     /\ bits' = [bits EXCEPT ![m] = {call[p].tag}]
     /\ store' = [k \in DOMAIN store \cup {Key(p)} |-> IF k = Key(p) THEN m ELSE store[k]]
  /\ Leave(p, FALSE) /\ MarkDone(p)

\* A new mask with the bit set, and LoadOrStore: the mask stored meanwhile wins
\* and gets the bit in a step of its own.
MarkStore(p) ==
  /\ call[p].at = "markStore"
  /\ IF panics(call[p].tag)
     THEN Goto(p, "panicked") /\ UNCHANGED <<store, bits, history>>
     ELSE IF Key(p) \in DOMAIN store
     THEN /\ call' = [call EXCEPT ![p].at = "markSet", ![p].mask = store[Key(p)]]
          /\ UNCHANGED <<store, bits, history>>
     ELSE /\ \E m \in Unused :
             /\ bits' = [bits EXCEPT ![m] = {call[p].tag}]
             /\ store' = [k \in DOMAIN store \cup {Key(p)} |->
                            IF k = Key(p) THEN m ELSE store[k]]
          /\ Leave(p, FALSE) /\ MarkDone(p)

-----------------------------------------------------------------------------
(* ClearPresence, ForgetPresence, ResetPresenceStore *)

ClearLoad(p) ==
  /\ call[p].at = "clear"
  /\ IF Key(p) \in DOMAIN store
     THEN /\ call' = [call EXCEPT ![p].at = "clearWords", ![p].mask = store[Key(p)]]
          /\ UNCHANGED history
     ELSE Leave(p, FALSE) /\ EraseDone(p)
  /\ UNCHANGED <<store, bits>>

InWord(w) == {t \in 1 .. MaxTrackedTag : idx(t) = w}

\* Mutant: the loop stops before the last word.
ClearWordShort(p) ==
  /\ call[p].at = "clearWords"
  /\ bits' = [bits EXCEPT ![call[p].mask] = @ \ InWord(call[p].word)]
  /\ IF call[p].word + 2 < Words
     THEN call' = [call EXCEPT ![p].word = @ + 1] /\ UNCHANGED history
     ELSE Leave(p, FALSE) /\ EraseDone(p)
  /\ UNCHANGED store

\* mask.clear: the words one after another.
ClearWord(p) ==
  /\ call[p].at = "clearWords"
  /\ bits' = [bits EXCEPT ![call[p].mask] = @ \ InWord(call[p].word)]
  /\ IF call[p].word + 1 < Words
     THEN call' = [call EXCEPT ![p].word = @ + 1] /\ UNCHANGED history
     ELSE Leave(p, FALSE) /\ EraseDone(p)
  /\ UNCHANGED store

\* presenceStore.Delete.
Without(k) == [j \in DOMAIN store \ {k} |-> store[j]]

Forget(p) ==
  /\ call[p].at = "forget"
  /\ store' = Without(Key(p))
  /\ Leave(p, FALSE) /\ EraseDone(p)
  /\ UNCHANGED bits

ResetDelete(p) ==
  /\ call[p].at = "reset"
  /\ \E k \in call[p].todo :
       /\ store' = Without(k)
       /\ call' = [call EXCEPT ![p].todo = @ \ {k}]
  /\ UNCHANGED <<bits, history>>

ResetEnds(p) ==
  /\ call[p].at = "reset" /\ call[p].todo = {}
  /\ Leave(p, FALSE) /\ EraseDone(p)
  /\ UNCHANGED <<store, bits>>

-----------------------------------------------------------------------------
(* IsPresent *)

IsLoad(p) ==
  /\ call[p].at = "is"
  /\ IF Key(p) \in DOMAIN store
     THEN call' = [call EXCEPT ![p].at = "isGet", ![p].mask = store[Key(p)]]
     ELSE Leave(p, FALSE)
  /\ UNCHANGED <<store, bits, history>>

IsGet(p) ==
  /\ call[p].at = "isGet"
  /\ IF panics(call[p].tag) THEN Goto(p, "panicked")
     ELSE Leave(p, call[p].tag \in bits[call[p].mask])
  /\ UNCHANGED <<store, bits, history>>

-----------------------------------------------------------------------------
\* The receivers at an address are collected, no goroutine holding one, and
\* new ones are allocated there.
Reallocate(a) ==
  /\ \A p \in Procs : call[p].rcv.ptr # a
  /\ LET here == {r \in Receivers : r.ptr = a} IN
     /\ fresh' = fresh \cup here
     /\ may' = {x \in may : x[1] \notin here}
     /\ owed' = {x \in owed : x[1] \notin here}
  /\ UNCHANGED <<store, bits, call, obs>>

Begin(p) ==
  \/ \E r \in Receivers :
       \/ \E t \in TagsOf[r.typ] : BeginMark(p, r, t) \/ BeginIsPresent(p, r, t)
       \/ BeginClear(p, r) \/ BeginForget(p, r)
  \/ BeginResetStore(p)

Step(p) ==
  \/ MarkLoad(p) \/ MarkSet(p) \/ MarkStore(p)
  \/ ClearLoad(p) \/ ClearWord(p) \/ Forget(p) \/ ResetDelete(p) \/ ResetEnds(p)
  \/ IsLoad(p) \/ IsGet(p) \/ Return(p)

Next == (\E p \in Procs : Begin(p) \/ Step(p)) \/ (\E a \in Addrs : Reallocate(a))

Spec == Init /\ [][Next]_vars

-----------------------------------------------------------------------------
(* Properties. *)

\* Types; in particular every key of the store has a mask.
TypeOK ==
  /\ DOMAIN store \subseteq Keys /\ \A k \in DOMAIN store : store[k] \in Masks
  /\ bits \in [Masks -> SUBSET (1 .. MaxTrackedTag)]
  /\ \A p \in Procs :
       /\ call[p].at \in Marking \cup Erasing \cup Asking \cup {"idle", "returned", "panicked"}
       /\ call[p].mask \in Masks \cup {None}
       /\ call[p].at \in {"markSet", "clearWords", "isGet"} => call[p].mask \in Masks
       /\ call[p].word \in 0 .. Words - 1 /\ call[p].todo \subseteq Keys
  /\ may \cup owed \subseteq Keys \X (1 .. MaxTrackedTag) /\ fresh \subseteq Keys

\* IsPresent answers TRUE for every tag whose MarkPresent returned before it was
\* called, if no ClearPresence, ForgetPresence or ResetPresenceStore of that
\* receiver ran beside either call or between them: not when goroutines mark the
\* receiver concurrently, and not when a struct at its own address is cleared.
NoLostMark ==
  \A p \in Procs : call[p].at = "returned" /\ obs[p].must => call[p].ret

\* IsPresent answers TRUE only for a tag marked on this very receiver and not
\* erased since by a call that finished before: once a receiver at a reused
\* address was cleared or forgotten, nothing of the earlier one is seen.
NoPhantom ==
  \A p \in Procs : call[p].at = "returned" /\ call[p].ret => obs[p].may

\* No tag, 0 and those above the cap included, indexes past a mask's words.
NeverPanics == \A p \in Procs : call[p].at # "panicked"
=============================================================================
