--------------------------- MODULE PresenceProofs ---------------------------
(***************************************************************************)
(* The presence sidecar is correct for any number of goroutines, receiver  *)
(* types and addresses.  An answer of IsPresent depends on the mask the    *)
(* goroutine loaded, which others may mark, clear or detach from the store *)
(* meanwhile; the inductive invariant says what each mask may hold given   *)
(* the calls under way.                                                    *)
(***************************************************************************)
EXTENDS Presence, TLAPS

\* The tags a mask can track.
TagRange == 1 .. MaxTrackedTag
NoRcv    == [typ |-> None, ptr |-> Nil]
Holding  == {"markSet", "clearWords", "isGet"}
Places   == Marking \cup Erasing \cup Asking \cup {"idle", "returned"}

Calls == [at : Places, rcv : Receivers \cup {NoRcv}, tag : Nat, mask : Masks \cup {None},
          word : 0 .. Words - 1, todo : SUBSET Keys, ret : BOOLEAN]
Records == [may : BOOLEAN, must : BOOLEAN, erases : SUBSET (Keys \X TagRange)]

\* Types, and what a goroutine's place says of its arguments: no call that goes
\* on has a nil receiver or a tag outside the mask.
Types1 ==
  /\ DOMAIN store \subseteq Keys /\ \A k \in DOMAIN store : store[k] \in Masks
  /\ bits \in [Masks -> SUBSET TagRange]
  /\ call \in [Procs -> Calls]
  /\ obs \in [Procs -> Records]
  /\ may \subseteq Keys \X TagRange /\ owed \subseteq Keys \X TagRange
  /\ fresh \subseteq Keys
Args(p) ==
  /\ call[p].at \in Marking \cup Asking => call[p].rcv \in Keys /\ call[p].tag \in TagRange
  /\ call[p].at \in Clearing \cup {"forget"} => call[p].rcv \in Keys
  /\ call[p].at \in Holding <=> call[p].mask # None
  /\ call[p].at = "clear" => call[p].word = 0
  /\ call[p].at = "reset" => call[p].rcv = NoRcv

\* A mask belongs to one receiver, in the store and in the hands of goroutines.
Apart ==
  /\ \A k, j \in DOMAIN store : store[k] = store[j] => k = j
  /\ \A p \in Procs, k \in DOMAIN store : store[k] = call[p].mask => k = call[p].rcv
  /\ \A p, q \in Procs : call[p].mask # None /\ call[p].mask = call[q].mask
                           => call[p].rcv = call[q].rcv

\* A stored mask shows marks made on its receiver only, unless the receiver has
\* come to a used address and was not cleared yet.
StoreShows ==
  \A k \in DOMAIN store : \A t \in bits[store[k]] : <<k, t>> \in may \/ k \in fresh

\* A mark under way is not one an erasure has to take; as long as it is owed no
\* erasure meets it, and the mask it loaded is still the stored one.
Marked(p) == <<call[p].rcv, call[p].tag>>
MarkFacts(p) ==
  call[p].at \in Marking =>
    /\ Marked(p) \in may /\ \A q \in Procs : Marked(p) \notin obs[q].erases
    /\ obs[p].must =>
         /\ \A q \in Procs : ~ Erases(q, call[p].rcv)
         /\ call[p].at = "markSet" => /\ call[p].rcv \in DOMAIN store
                                      /\ store[call[p].rcv] = call[p].mask

\* An erasure has taken what it had to from the words it has been through and
\* from every mask stored since it loaded its own; a reset from every key it
\* has been through.
EraseFacts(p) ==
  LET r == call[p].rcv IN
  /\ call[p].at \in Clearing \cup {"forget"} => \A x \in obs[p].erases : x[1] = r
  /\ call[p].at = "clearWords" /\ r \in DOMAIN store =>
       \A t \in bits[store[r]] : store[r] # call[p].mask \/ idx(t) < call[p].word
                                   => <<r, t>> \in may /\ <<r, t>> \notin obs[p].erases
  /\ call[p].at = "reset" =>
       \A k \in DOMAIN store \ call[p].todo :
         \A t \in bits[store[k]] : <<k, t>> \notin obs[p].erases

\* A query may answer TRUE if its tag may be set, and must if the mark is owed.
AskFacts(p) ==
  LET r == call[p].rcv IN
  call[p].at \in Asking =>
    /\ Marked(p) \in may \/ r \in fresh => obs[p].may
    /\ call[p].at = "isGet" /\ call[p].tag \in bits[call[p].mask] => obs[p].may
    /\ obs[p].must =>
         /\ \A q \in Procs : ~ Erases(q, r)
         /\ r \in DOMAIN store /\ call[p].tag \in bits[store[r]]
         /\ call[p].at = "isGet" => store[r] = call[p].mask

\* Answers given are right, and nothing else is answered for.
Answered(p) ==
  /\ call[p].at = "returned" => (call[p].ret => obs[p].may) /\ (obs[p].must => call[p].ret)
  /\ obs[p].must => call[p].at \in Marking \cup Asking \cup {"returned"}

\* A mark that is owed is in the stored mask and no erasure is near it.
OwedFacts ==
  \A x \in owed : /\ x[1] \in DOMAIN store /\ x[2] \in bits[store[x[1]]]
                  /\ \A p \in Procs : ~ Erases(p, x[1])

IInv ==
  /\ Types1 /\ Apart /\ StoreShows /\ OwedFacts
  /\ \A p \in Procs : Args(p) /\ MarkFacts(p) /\ EraseFacts(p) /\ AskFacts(p) /\ Answered(p)

-----------------------------------------------------------------------------
(* The arithmetic of words, and what a key is. *)

\* A key is a receiver that is not nil.
LEMMA KeyIsReceiver ==
  /\ \A k \in Keys : makeKey(k) = k /\ k \in Receivers /\ k # NoRcv
  /\ NoRcv \notin Receivers
  /\ \A r \in Receivers : r.ptr # Nil => r \in Keys
  BY PresenceAssumption DEF makeKey, Keys, Receivers, NoRcv

\* The words of a mask hold exactly the tags of the range.
LEMMA WordOfTag ==
  /\ Words \in Nat /\ 0 \in 0 .. Words - 1
  /\ \A t \in TagRange : idx(t) \in 0 .. Words - 1 /\ ~ panics(t)
<1>1. /\ MaxTrackedTag \in Nat /\ MaxTrackedTag > 0 /\ WordBits \in Nat /\ WordBits > 0
      /\ MaxTrackedTag % WordBits = 0 /\ MaxTrackedTag < Modulus /\ Modulus \in Int
  BY PresenceAssumption
<1>2. Words \in Nat /\ MaxTrackedTag = Words * WordBits
  BY <1>1 DEF Words
<1>3. Words > 0
  BY <1>1, <1>2
<1>4. ASSUME NEW t \in TagRange PROVE idx(t) \in 0 .. Words - 1
  <2>1. (t + Modulus - 1) % Modulus = t - 1
    BY <1>1 DEF TagRange
  <2> DEFINE d == (t - 1) \div WordBits
  <2>2. d \in Nat /\ d * WordBits <= t - 1
    BY <1>1 DEF TagRange
  <2>3. d * WordBits < Words * WordBits
    BY <2>2, <1>1, <1>2 DEF TagRange
  <2>4. d < Words
    BY <2>3, <2>2, <1>1, <1>2
  <2> QED BY <2>1, <2>2, <2>4, <1>2 DEF idx
<1> QED BY <1>2, <1>3, <1>4 DEF panics

\* No call is under way at the start and nothing is stored.
LEMMA InitInv == Init => IInv
  BY PresenceAssumption, KeyIsReceiver, WordOfTag
  DEF Init, IInv, Types1, Apart, StoreShows, OwedFacts, Args, MarkFacts, EraseFacts,
      AskFacts, Answered, Idle, NoObs, NoRcv, Calls, Records, Places, Marking, Erasing,
      Clearing, Asking, Holding

-----------------------------------------------------------------------------
(* Marks. *)

USE DEF Marking, Erasing, Clearing, Asking, Holding, Places, NoRcv

\* A call that has an argument looks it up under the receiver itself.
LEMMA KeyOf ==
  ASSUME IInv, NEW p \in Procs, call[p].at \in Marking \cup Asking \cup Clearing \cup {"forget"}
  PROVE  Key(p) = call[p].rcv /\ call[p].rcv \in Keys
  BY KeyIsReceiver DEF IInv, Args, Key

\* A lookup that finds a mask keeps it and changes nothing else of the call.
Takes(p, l, m) == call' = [call EXCEPT ![p].at = l, ![p].mask = m]
LEMMA TakeMask ==
  ASSUME Types1, NEW p \in Procs, NEW l \in Places, NEW m \in Masks, Takes(p, l, m)
  PROVE  /\ call' \in [Procs -> Calls]
         /\ \A q \in Procs \ {p} : call'[q] = call[q]
         /\ call'[p].at = l /\ call'[p].mask = m
         /\ call'[p].rcv = call[p].rcv /\ call'[p].tag = call[p].tag
         /\ call'[p].word = call[p].word
<1>1. call[p] \in Calls /\ call \in [Procs -> Calls]
  BY DEF Types1
<1>2. call'[p] = [call[p] EXCEPT !.at = l, !.mask = m] /\ call' = [call EXCEPT ![p] = call'[p]]
  BY <1>1 DEF Takes
<1>3. call'[p] \in Calls
  BY <1>1, <1>2 DEF Calls
<1>4. /\ call'[p].at = l /\ call'[p].mask = m
      /\ call'[p].rcv = call[p].rcv /\ call'[p].tag = call[p].tag
      /\ call'[p].word = call[p].word
  BY <1>1, <1>2 DEF Calls
<1>5. call' \in [Procs -> Calls] /\ \A q \in Procs \ {p} : call'[q] = call[q]
  BY <1>1, <1>2, <1>3
<1> QED BY <1>4, <1>5

\* MarkPresent's presenceStore.Load: a mask it finds is its receiver's own.
LEMMA MarkLoadInv == ASSUME IInv, NEW p \in Procs, MarkLoad(p) PROVE IInv'
<1> DEFINE r == call[p].rcv
<1>1. Key(p) = r /\ r \in Keys /\ UNCHANGED <<store, bits, history>> /\ call[p].at = "mark"
  BY KeyOf DEF MarkLoad
<1>2. /\ call' \in [Procs -> Calls]
      /\ \A q \in Procs \ {p} : call'[q] = call[q]
      /\ call'[p].rcv = r /\ call'[p].tag = call[p].tag
      /\ \/ r \in DOMAIN store /\ call'[p].at = "markSet" /\ call'[p].mask = store[r]
         \/ call'[p].at = "markStore" /\ call'[p].mask = None
  <2>1. CASE r \in DOMAIN store
    <3>1. call' = [call EXCEPT ![p] = [@ EXCEPT !.at = "markSet", !.mask = store[r]]]
      BY <1>1, <2>1 DEF MarkLoad
    <3> QED BY <3>1, <2>1 DEF IInv, Types1, Calls
  <2>2. CASE r \notin DOMAIN store
    <3>1. call' = [call EXCEPT ![p] = [@ EXCEPT !.at = "markStore"]]
      BY <1>1, <2>2 DEF MarkLoad
    <3> QED BY <3>1, <1>1 DEF IInv, Types1, Calls, Args
  <2> QED BY <2>1, <2>2
<1>3. Types1'
  BY <1>1, <1>2 DEF history, IInv, Types1
<1>4. Apart'
  <2>1. \A k, j \in DOMAIN store' : store'[k] = store'[j] => k = j
    BY <1>1 DEF IInv, Apart
  <2>2. ASSUME NEW q \in Procs, NEW k \in DOMAIN store', store'[k] = call'[q].mask
        PROVE  k = call'[q].rcv
    BY <2>2, <1>1, <1>2, PresenceAssumption DEF IInv, Types1, Apart
  <2>3. ASSUME NEW q \in Procs, NEW o \in Procs, call'[q].mask # None,
               call'[q].mask = call'[o].mask
        PROVE  call'[q].rcv = call'[o].rcv
    BY <2>3, <1>1, <1>2 DEF IInv, Apart
  <2> QED BY <2>1, <2>2, <2>3 DEF Apart
<1>5. StoreShows' /\ OwedFacts'
  BY <1>1, <1>2 DEF history, IInv, StoreShows, OwedFacts, Erases
<1>6. ASSUME NEW q \in Procs PROVE Args(q)'
  BY <1>1, <1>2, PresenceAssumption DEF IInv, Types1, Args
<1>7. ASSUME NEW q \in Procs PROVE MarkFacts(q)'
  BY <1>1, <1>2 DEF history, IInv, MarkFacts, Erases, Marked
<1>8. ASSUME NEW q \in Procs PROVE EraseFacts(q)'
  BY <1>1, <1>2 DEF history, IInv, EraseFacts
<1>9. ASSUME NEW q \in Procs PROVE AskFacts(q)' /\ Answered(q)'
  BY <1>1, <1>2 DEF history, IInv, AskFacts, Answered, Erases, Marked
<1> QED BY <1>3, <1>4, <1>5, <1>6, <1>7, <1>8, <1>9 DEF IInv

\* A call that leaves holds no mask and no receiver any more.
LEMMA LeaveFacts ==
  ASSUME Types1, NEW p \in Procs, NEW v \in BOOLEAN, Leave(p, v)
  PROVE  /\ call' \in [Procs -> Calls]
         /\ \A q \in Procs \ {p} : call'[q] = call[q]
         /\ call'[p].at = "returned" /\ call'[p].ret = v
         /\ call'[p].mask = None /\ call'[p].rcv = NoRcv
  BY WordOfTag DEF Leave, Idle, Types1, Calls

\* The record of a finished mark: it is owed if no erasure has met it.
LEMMA MarkDoneFacts ==
  ASSUME IInv, NEW p \in Procs, MarkDone(p), call[p].at \in Marking
  PROVE  /\ owed' \subseteq Keys \X TagRange /\ obs' \in [Procs -> Records]
         /\ \A x \in owed' : x \in owed \/ (x = Marked(p) /\ obs[p].must)
         /\ \A q \in Procs \ {p} : obs'[q] = obs[q]
         /\ ~ obs'[p].must /\ obs'[p].erases = {}
         /\ UNCHANGED <<may, fresh>>
  BY DEF MarkDone, NoObs, Marked, IInv, Types1, Args, Records

\* MarkPresent's mask.set: the bit lands in the mask the store still holds, unless
\* an erasure of the receiver has met the call.
LEMMA MarkSetInv == ASSUME IInv, NEW p \in Procs, MarkSet(p) PROVE IInv'
<1> DEFINE r == call[p].rcv
           t == call[p].tag
           m == call[p].mask
<1>1. call[p].at = "markSet" /\ r \in Keys /\ t \in TagRange /\ m \in Masks /\ ~ panics(t)
  BY WordOfTag DEF MarkSet, IInv, Args, Types1, Calls
<1>2. /\ bits' = [bits EXCEPT ![m] = @ \cup {t}] /\ store' = store
      /\ Leave(p, FALSE) /\ MarkDone(p)
  BY <1>1 DEF MarkSet
<1>3. /\ call' \in [Procs -> Calls]
      /\ \A q \in Procs \ {p} : call'[q] = call[q]
      /\ call'[p].at = "returned" /\ call'[p].ret = FALSE
      /\ call'[p].mask = None /\ call'[p].rcv = NoRcv
  BY <1>2, LeaveFacts DEF IInv
<1>4. /\ owed' \subseteq Keys \X TagRange /\ obs' \in [Procs -> Records]
      /\ \A x \in owed' : x \in owed \/ (x = Marked(p) /\ obs[p].must)
      /\ \A q \in Procs \ {p} : obs'[q] = obs[q]
      /\ ~ obs'[p].must /\ obs'[p].erases = {}
      /\ UNCHANGED <<may, fresh>>
  BY <1>1, <1>2, MarkDoneFacts
<1>5. /\ bits' \in [Masks -> SUBSET TagRange]
      /\ \A n \in Masks : bits[n] \subseteq bits'[n]
      /\ \A n \in Masks, u \in TagRange : u \in bits'[n] => u \in bits[n] \/ (n = m /\ u = t)
      /\ t \in bits'[m]
  BY <1>1, <1>2 DEF IInv, Types1
<1>6. Marked(p) = <<r, t>> /\ <<r, t>> \in may /\ \A q \in Procs : <<r, t>> \notin obs[q].erases
  BY <1>1 DEF IInv, MarkFacts, Marked
<1>7. \A k \in DOMAIN store : store[k] = m => k = r
  BY DEF IInv, Apart
<1>8. Types1'
  BY <1>2, <1>3, <1>4, <1>5 DEF IInv, Types1
<1>9. Apart'
  BY <1>2, <1>3, PresenceAssumption DEF IInv, Types1, Apart
<1>10. StoreShows'
  BY <1>2, <1>4, <1>5, <1>6, <1>7 DEF IInv, Types1, StoreShows
<1>11. OwedFacts'
  <2>1. ASSUME NEW x \in owed' PROVE x[1] \in DOMAIN store /\ x[2] \in bits'[store[x[1]]]
                                     /\ \A q \in Procs : ~ Erases(q, x[1])
    BY <1>1, <1>4, <1>5, <1>6 DEF IInv, Types1, OwedFacts, MarkFacts
  <2> QED BY <2>1, <1>2, <1>3 DEF OwedFacts, Erases
<1>12. ASSUME NEW q \in Procs PROVE Args(q)'
  BY <1>3 DEF IInv, Args
<1>13. ASSUME NEW q \in Procs PROVE MarkFacts(q)'
  BY <1>2, <1>3, <1>4 DEF IInv, MarkFacts, Erases, Marked
<1>14. ASSUME NEW q \in Procs PROVE EraseFacts(q)'
  BY <1>2, <1>3, <1>4, <1>5, <1>6, <1>7 DEF IInv, Types1, EraseFacts
<1>15. ASSUME NEW q \in Procs PROVE AskFacts(q)' /\ Answered(q)'
  <2>1. CASE q = p
    BY <2>1, <1>3, <1>4 DEF AskFacts, Answered
  <2>2. CASE q # p
    <3>1. call[q].at = "isGet" /\ call[q].mask = m => call[q].rcv = r
      BY <1>1, PresenceAssumption DEF IInv, Apart
    <3>2. call[q].at = "isGet" => call[q].mask \in Masks /\ call[q].tag \in TagRange
      BY DEF IInv, Types1, Args, Calls
    <3>3. Answered(q)'
      BY <2>2, <1>3, <1>4 DEF IInv, Answered
    <3>4. call[q].at = "isGet" /\ call[q].tag \in bits'[call[q].mask] =>
            call[q].tag \in bits[call[q].mask] \/ Marked(q) \in may
      BY <3>1, <3>2, <1>5, <1>6 DEF Marked
    <3>5. AskFacts(q)'
      BY <2>2, <3>4, <1>2, <1>3, <1>4, <1>5 DEF IInv, Types1, AskFacts, Erases, Marked
    <3> QED BY <3>3, <3>5
  <2> QED BY <2>1, <2>2
<1> QED BY <1>8, <1>9, <1>10, <1>11, <1>12, <1>13, <1>14, <1>15 DEF IInv

\* MarkPresent's LoadOrStore: the loser of the race takes the winner's mask.
LEMMA MarkStoreInv == ASSUME IInv, NEW p \in Procs, MarkStore(p) PROVE IInv'
<1> DEFINE r == call[p].rcv
           t == call[p].tag
<1>1. /\ call[p].at = "markStore" /\ r \in Keys /\ t \in TagRange /\ ~ panics(t)
      /\ Key(p) = r /\ call[p].mask = None
  BY WordOfTag, KeyOf DEF MarkStore, IInv, Args
<1>2. CASE r \in DOMAIN store
  <2>1. /\ call' = [call EXCEPT ![p].at = "markSet", ![p].mask = store[r]]
        /\ UNCHANGED <<store, bits, history>>
    BY <1>1, <1>2 DEF MarkStore
  <2>2. /\ call' \in [Procs -> Calls]
        /\ \A q \in Procs \ {p} : call'[q] = call[q]
        /\ call'[p].rcv = r /\ call'[p].tag = t
        /\ call'[p].at = "markSet" /\ call'[p].mask = store[r]
    <3>1. Types1 /\ store[r] \in Masks /\ Takes(p, "markSet", store[r])
      BY <1>2, <2>1 DEF IInv, Types1, Takes
    <3> QED BY <3>1, TakeMask
  <2>3. Types1'
    BY <2>1, <2>2 DEF history, IInv, Types1
  <2>4. Apart'
    BY <1>2, <2>1, <2>2, PresenceAssumption DEF IInv, Types1, Apart
  <2>5. StoreShows' /\ OwedFacts'
    BY <1>1, <2>1, <2>2 DEF history, IInv, StoreShows, OwedFacts, Erases
  <2>6. ASSUME NEW q \in Procs PROVE Args(q)'
    BY <1>1, <1>2, <2>1, <2>2, PresenceAssumption DEF IInv, Types1, Args
  <2>7. ASSUME NEW q \in Procs PROVE MarkFacts(q)'
    BY <1>1, <1>2, <2>1, <2>2 DEF history, IInv, MarkFacts, Erases, Marked
  <2>8. ASSUME NEW q \in Procs PROVE EraseFacts(q)'
    BY <1>1, <2>1, <2>2 DEF history, IInv, EraseFacts
  <2>9. ASSUME NEW q \in Procs PROVE AskFacts(q)' /\ Answered(q)'
    BY <1>1, <2>1, <2>2 DEF history, IInv, AskFacts, Answered, Erases, Marked
  <2> QED BY <2>3, <2>4, <2>5, <2>6, <2>7, <2>8, <2>9 DEF IInv
<1>3. CASE r \notin DOMAIN store
  <2>1. PICK m \in Unused :
          /\ bits' = [bits EXCEPT ![m] = {t}]
          /\ store' = [k \in DOMAIN store \cup {r} |-> IF k = r THEN m ELSE store[k]]
    BY <1>1, <1>3 DEF MarkStore
  <2>2. /\ m \in Masks /\ \A k \in DOMAIN store : store[k] # m
        /\ \A q \in Procs : call[q].mask # m
    BY DEF Unused
  <2>3. Leave(p, FALSE) /\ MarkDone(p)
    BY <1>1, <1>3 DEF MarkStore
  <2>4. /\ call' \in [Procs -> Calls]
        /\ \A q \in Procs \ {p} : call'[q] = call[q]
        /\ call'[p].at = "returned" /\ call'[p].ret = FALSE
        /\ call'[p].mask = None /\ call'[p].rcv = NoRcv
    BY <2>3, LeaveFacts DEF IInv
  <2>5. /\ owed' \subseteq Keys \X TagRange /\ obs' \in [Procs -> Records]
        /\ \A x \in owed' : x \in owed \/ (x = Marked(p) /\ obs[p].must)
        /\ \A q \in Procs \ {p} : obs'[q] = obs[q]
        /\ ~ obs'[p].must /\ obs'[p].erases = {}
        /\ UNCHANGED <<may, fresh>>
    BY <1>1, <2>3, MarkDoneFacts
  <2>6. /\ bits' \in [Masks -> SUBSET TagRange]
        /\ bits'[m] = {t} /\ \A n \in Masks \ {m} : bits'[n] = bits[n]
        /\ DOMAIN store' = DOMAIN store \cup {r}
        /\ store'[r] = m /\ \A k \in DOMAIN store : store'[k] = store[k]
    BY <1>1, <1>3, <2>1, <2>2 DEF IInv, Types1
  <2>7. /\ Marked(p) = <<r, t>> /\ <<r, t>> \in may
        /\ \A q \in Procs : <<r, t>> \notin obs[q].erases
    BY <1>1 DEF IInv, MarkFacts, Marked
  <2>8. /\ \A k \in DOMAIN store : store[k] \in Masks \ {m} /\ k # r
        /\ \A q \in Procs : call[q].mask # None => call[q].mask \in Masks \ {m}
    BY <1>3, <2>2 DEF IInv, Types1, Calls
  <2>9. Types1'
    BY <1>1, <2>2, <2>4, <2>5, <2>6 DEF IInv, Types1
  <2>10. Apart'
    BY <2>4, <2>6, <2>8, <2>2, PresenceAssumption DEF IInv, Types1, Apart
  <2>11. StoreShows'
    <3>1. ASSUME NEW k \in DOMAIN store', NEW u \in bits'[store'[k]]
          PROVE  <<k, u>> \in may \/ k \in fresh
      BY <2>6, <2>7, <2>8 DEF IInv, StoreShows
    <3> QED BY <3>1, <2>5 DEF StoreShows
  <2>12. OwedFacts'
    <3>1. ASSUME NEW x \in owed'
          PROVE  /\ x[1] \in DOMAIN store' /\ x[2] \in bits'[store'[x[1]]]
                 /\ \A q \in Procs : ~ Erases(q, x[1])
      <4>1. CASE x \in owed
        BY <4>1, <2>6, <2>8 DEF IInv, OwedFacts
      <4>2. CASE x = <<r, t>> /\ obs[p].must
        BY <4>2, <1>1, <2>6 DEF IInv, MarkFacts
      <4> QED BY <4>1, <4>2, <2>5, <2>7
    <3> QED BY <3>1, <2>4 DEF OwedFacts, Erases
  <2>13. ASSUME NEW q \in Procs PROVE Args(q)'
    BY <2>4 DEF IInv, Args
  <2>14. ASSUME NEW q \in Procs PROVE MarkFacts(q)'
    BY <2>4, <2>5, <2>6 DEF IInv, MarkFacts, Erases, Marked
  <2>15. ASSUME NEW q \in Procs PROVE EraseFacts(q)'
    BY <2>4, <2>5, <2>6, <2>7, <2>8 DEF IInv, EraseFacts
  <2>16. ASSUME NEW q \in Procs PROVE AskFacts(q)' /\ Answered(q)'
    <3>1. call[q].at = "isGet" => call[q].mask \in Masks \ {m}
      BY <2>8 DEF IInv, Args
    <3>2. AskFacts(q)'
      <4>1. CASE q = p
        BY <4>1, <2>4 DEF AskFacts
      <4>2. CASE q # p
        <5>1. /\ call'[q] = call[q] /\ obs'[q] = obs[q] /\ may' = may /\ fresh' = fresh
              /\ call[q].at = "isGet" => bits'[call[q].mask] = bits[call[q].mask]
          BY <4>2, <3>1, <2>4, <2>5, <2>6
        <5>2. /\ \A k \in DOMAIN store : /\ k \in DOMAIN store' /\ store'[k] = store[k]
                                         /\ bits'[store'[k]] = bits[store[k]]
              /\ \A k : (\A o \in Procs : ~ Erases(o, k)) => \A o \in Procs : ~ Erases(o, k)'
          <6>1. \A k \in DOMAIN store : /\ k \in DOMAIN store' /\ store'[k] = store[k]
                                       /\ bits'[store'[k]] = bits[store[k]]
            BY <2>6, <2>8
          <6>2. \A k : (\A o \in Procs : ~ Erases(o, k)) => \A o \in Procs : ~ Erases(o, k)'
            BY <2>4 DEF Erases
          <6> QED BY <6>1, <6>2
        <5>3. AskFacts(q)
          BY DEF IInv
        <5> QED BY <5>1, <5>2, <5>3 DEF AskFacts, Marked
      <4> QED BY <4>1, <4>2
    <3>3. Answered(q)'
      BY <2>4, <2>5 DEF IInv, Answered
    <3> QED BY <3>2, <3>3
  <2> QED BY <2>9, <2>10, <2>11, <2>12, <2>13, <2>14, <2>15, <2>16 DEF IInv
<1> QED BY <1>2, <1>3

-----------------------------------------------------------------------------
(* Erasures. *)

\* An erasure may end once nothing it had to take is left in a stored mask.
LEMMA EraseEnds ==
  ASSUME IInv, NEW p \in Procs, call[p].at \in Erasing,
         Leave(p, FALSE), EraseDone(p),
         DOMAIN store' \subseteq DOMAIN store,
         \A k \in DOMAIN store' : store'[k] = store[k],
         bits' \in [Masks -> SUBSET TagRange], \A n \in Masks : bits'[n] \subseteq bits[n],
         \A k \in DOMAIN store' : \A t \in bits'[store[k]] :
           <<k, t>> \notin obs[p].erases /\ (k = call[p].rcv => <<k, t>> \in may),
         \A k \in DOMAIN store :
           ~ Erases(p, k) => k \in DOMAIN store' /\ bits'[store[k]] = bits[store[k]]
  PROVE  IInv'
<1>1. /\ call' \in [Procs -> Calls]
      /\ \A q \in Procs \ {p} : call'[q] = call[q]
      /\ call'[p].at = "returned" /\ call'[p].ret = FALSE
      /\ call'[p].mask = None /\ call'[p].rcv = NoRcv
  BY LeaveFacts DEF IInv
<1>2. /\ may' = may \ obs[p].erases /\ fresh' = fresh \ {call[p].rcv} /\ owed' = owed
      /\ obs' \in [Procs -> Records]
      /\ \A q \in Procs \ {p} : obs'[q] = obs[q]
      /\ ~ obs'[p].must /\ obs'[p].erases = {}
  BY DEF EraseDone, NoObs, IInv, Types1, Records
<1>3. \A k \in DOMAIN store : store[k] \in Masks
  BY DEF IInv, Types1
<1>4. Types1'
  BY <1>1, <1>2 DEF IInv, Types1
<1>5. Apart'
  BY <1>1, <1>3, PresenceAssumption DEF IInv, Apart
<1>6. StoreShows'
  BY <1>2, <1>3 DEF IInv, StoreShows
<1>7. OwedFacts'
  BY <1>1, <1>2 DEF IInv, OwedFacts, Erases
<1>8. ASSUME NEW q \in Procs PROVE Args(q)'
  BY <1>1 DEF IInv, Args
<1>9. ASSUME NEW q \in Procs PROVE MarkFacts(q)'
  BY <1>1, <1>2 DEF IInv, MarkFacts, Erases, Marked
<1>10. ASSUME NEW q \in Procs PROVE EraseFacts(q)'
  BY <1>1, <1>2, <1>3 DEF IInv, EraseFacts
<1>11. ASSUME NEW q \in Procs PROVE AskFacts(q)' /\ Answered(q)'
  <2>1. Answered(q)'
    BY <1>1, <1>2 DEF IInv, Answered
  <2>2. call[q].at = "isGet" => call[q].mask \in Masks
    BY DEF IInv, Types1, Args, Calls
  <2>3. AskFacts(q)'
    BY <2>2, <1>1, <1>2 DEF IInv, AskFacts, Erases, Marked
  <2> QED BY <2>1, <2>3
<1> QED BY <1>4, <1>5, <1>6, <1>7, <1>8, <1>9, <1>10, <1>11 DEF IInv

\* ClearPresence's Load: with no mask stored there is nothing to take away.
LEMMA ClearLoadInv == ASSUME IInv, NEW p \in Procs, ClearLoad(p) PROVE IInv'
<1> DEFINE r == call[p].rcv
<1>1. call[p].at = "clear" /\ r \in Keys /\ Key(p) = r /\ UNCHANGED <<store, bits>>
  BY KeyOf DEF ClearLoad
<1>2. CASE r \in DOMAIN store
  <2>1. Types1 /\ store[r] \in Masks /\ Takes(p, "clearWords", store[r]) /\ UNCHANGED history
    BY <1>1, <1>2 DEF IInv, Types1, ClearLoad, Takes
  <2>2. /\ call' \in [Procs -> Calls]
        /\ \A q \in Procs \ {p} : call'[q] = call[q]
        /\ call'[p].at = "clearWords" /\ call'[p].mask = store[r]
        /\ call'[p].rcv = r /\ call'[p].word = call[p].word
    BY <2>1, TakeMask
  <2>3. Types1'
    BY <1>1, <2>1, <2>2 DEF history, IInv, Types1
  <2>4. Apart'
    BY <1>1, <1>2, <2>1, <2>2, PresenceAssumption DEF IInv, Types1, Apart
  <2>5. StoreShows' /\ OwedFacts'
    BY <1>1, <2>1, <2>2 DEF history, IInv, StoreShows, OwedFacts, Erases
  <2>6. ASSUME NEW q \in Procs PROVE Args(q)'
    BY <1>1, <2>1, <2>2, PresenceAssumption DEF IInv, Args
  <2>7. ASSUME NEW q \in Procs PROVE MarkFacts(q)'
    BY <1>1, <2>1, <2>2 DEF history, IInv, MarkFacts, Erases, Marked
  <2>8. call[p].word = 0 /\ \A t \in bits[store[r]] : ~ (idx(t) < 0)
    BY <1>1, <2>1, WordOfTag DEF IInv, Types1, Args
  <2>9. ASSUME NEW q \in Procs PROVE EraseFacts(q)'
    BY <1>1, <2>1, <2>2, <2>8 DEF history, IInv, EraseFacts
  <2>10. ASSUME NEW q \in Procs PROVE AskFacts(q)' /\ Answered(q)'
    <3>1. AskFacts(q)'
      BY <1>1, <2>1, <2>2 DEF history, IInv, AskFacts, Erases, Marked
    <3>2. Answered(q)'
      BY <1>1, <2>1, <2>2 DEF history, IInv, Answered
    <3> QED BY <3>1, <3>2
  <2> QED BY <2>3, <2>4, <2>5, <2>6, <2>7, <2>9, <2>10 DEF IInv
<1>3. CASE r \notin DOMAIN store
  <2>1. Leave(p, FALSE) /\ EraseDone(p)
    BY <1>1, <1>3 DEF ClearLoad
  <2>2. \A k \in DOMAIN store : \A t \in bits[store[k]] :
          <<k, t>> \notin obs[p].erases /\ (k = r => <<k, t>> \in may)
    BY <1>1, <1>3 DEF IInv, EraseFacts
  <2>3. bits \in [Masks -> SUBSET TagRange]
    BY DEF IInv, Types1
  <2> QED BY <1>1, <2>1, <2>2, <2>3, EraseEnds
<1> QED BY <1>2, <1>3

\* ClearPresence clears one word of the mask with an atomic store.
LEMMA ClearWordInv == ASSUME IInv, NEW p \in Procs, ClearWord(p) PROVE IInv'
<1> DEFINE r == call[p].rcv
           m == call[p].mask
           w == call[p].word
<1>1. /\ call[p].at = "clearWords" /\ r \in Keys /\ m \in Masks /\ w \in 0 .. Words - 1
      /\ Erases(p, r) /\ UNCHANGED store
  BY KeyOf DEF ClearWord, IInv, Types1, Args, Calls, Erases
<1>2. /\ bits' \in [Masks -> SUBSET TagRange]
      /\ \A n \in Masks : bits'[n] \subseteq bits[n]
      /\ \A n \in Masks \ {m} : bits'[n] = bits[n]
      /\ \A t \in bits'[m] : t \in TagRange /\ idx(t) # w
  BY <1>1 DEF ClearWord, IInv, Types1, InWord, TagRange
<1>3. \A k \in DOMAIN store : store[k] \in Masks /\ (store[k] = m => k = r)
  BY DEF IInv, Types1, Apart
<1>4. \A k \in DOMAIN store : ~ Erases(p, k) => bits'[store[k]] = bits[store[k]]
  BY <1>1, <1>2, <1>3
<1>5. CASE w + 1 < Words
  <2>1. call' = [call EXCEPT ![p].word = @ + 1] /\ UNCHANGED history
    BY <1>1, <1>5 DEF ClearWord
  <2>2. /\ call' \in [Procs -> Calls]
        /\ \A q \in Procs \ {p} : call'[q] = call[q]
        /\ call'[p].at = "clearWords" /\ call'[p].rcv = r /\ call'[p].mask = m
        /\ call'[p].word = w + 1
    BY <1>1, <1>5, <2>1, WordOfTag DEF IInv, Types1, Calls
  <2>3. Types1'
    BY <1>1, <1>2, <2>1, <2>2 DEF history, IInv, Types1
  <2>4. Apart'
    BY <1>1, <2>2 DEF IInv, Apart
  <2>5. StoreShows'
    BY <1>1, <1>2, <1>3, <2>1 DEF history, IInv, StoreShows
  <2>6. OwedFacts'
    BY <1>1, <1>4, <2>1, <2>2 DEF history, IInv, OwedFacts, Erases
  <2>7. ASSUME NEW q \in Procs PROVE Args(q)'
    BY <1>1, <2>2 DEF IInv, Args
  <2>8. ASSUME NEW q \in Procs PROVE MarkFacts(q)'
    BY <1>1, <2>1, <2>2 DEF history, IInv, MarkFacts, Erases, Marked
  <2>9. ASSUME NEW q \in Procs PROVE EraseFacts(q)'
    <3>1. CASE q = p
      <4>1. ASSUME r \in DOMAIN store, NEW t \in bits'[store[r]],
                   store[r] # m \/ idx(t) < w + 1
            PROVE  <<r, t>> \in may /\ <<r, t>> \notin obs[p].erases
        <5>1. t \in bits[store[r]] /\ (store[r] = m => idx(t) # w) /\ idx(t) \in Int
          BY <4>1, <1>2, <1>3, WordOfTag DEF IInv, Types1
        <5>2. store[r] # m \/ idx(t) < w
          BY <4>1, <5>1, <1>1, WordOfTag
        <5> QED BY <4>1, <5>1, <5>2, <1>1 DEF IInv, EraseFacts
      <4> QED BY <3>1, <4>1, <1>1, <2>1, <2>2 DEF history, IInv, EraseFacts
    <3>2. CASE q # p
      BY <3>2, <1>1, <1>2, <1>3, <2>1, <2>2 DEF history, IInv, EraseFacts
    <3> QED BY <3>1, <3>2
  <2>10. ASSUME NEW q \in Procs PROVE AskFacts(q)'
    <3>1. call[q].at = "isGet" => call[q].mask \in Masks
      BY DEF IInv, Types1, Args, Calls
    <3> QED BY <3>1, <1>1, <1>2, <1>4, <2>1, <2>2 DEF history, IInv, AskFacts, Erases, Marked
  <2>11. ASSUME NEW q \in Procs PROVE Answered(q)'
    BY <1>1, <2>1, <2>2 DEF history, IInv, Answered
  <2> QED BY <2>3, <2>4, <2>5, <2>6, <2>7, <2>8, <2>9, <2>10, <2>11 DEF IInv
<1>6. CASE ~ (w + 1 < Words)
  <2>1. Leave(p, FALSE) /\ EraseDone(p)
    BY <1>1, <1>6 DEF ClearWord
  <2>2. ASSUME NEW k \in DOMAIN store, NEW t \in bits'[store[k]]
        PROVE  <<k, t>> \notin obs[p].erases /\ (k = r => <<k, t>> \in may)
    <3>1. CASE k # r
      BY <3>1, <1>1 DEF IInv, EraseFacts
    <3>2. CASE k = r
      <4>1. t \in bits[store[r]] /\ (store[r] = m => idx(t) # w) /\ idx(t) \in 0 .. Words - 1
        BY <3>2, <1>2, <1>3, WordOfTag DEF IInv, Types1
      <4>2. store[r] # m \/ idx(t) < w
        BY <4>1, <1>1, <1>6, WordOfTag
      <4> QED BY <3>2, <4>1, <4>2, <1>1 DEF IInv, EraseFacts
    <3> QED BY <3>1, <3>2
  <2> QED BY <1>1, <1>2, <1>4, <2>1, <2>2, EraseEnds
<1> QED BY <1>5, <1>6

\* ForgetPresence's Delete: the receiver's mask leaves the store whole.
LEMMA ForgetInv == ASSUME IInv, NEW p \in Procs, Forget(p) PROVE IInv'
<1> DEFINE r == call[p].rcv
<1>1. call[p].at = "forget" /\ r \in Keys /\ Key(p) = r /\ Erases(p, r)
  BY KeyOf DEF Forget, Erases
<1>2. /\ DOMAIN store' = DOMAIN store \ {r} /\ \A k \in DOMAIN store' : store'[k] = store[k]
      /\ Leave(p, FALSE) /\ EraseDone(p) /\ bits' = bits
  BY <1>1 DEF Forget, Without
<1>3. \A k \in DOMAIN store' : \A t \in bits[store[k]] :
        <<k, t>> \notin obs[p].erases /\ (k = r => <<k, t>> \in may)
  BY <1>1, <1>2 DEF IInv, EraseFacts
<1>4. bits \in [Masks -> SUBSET TagRange]
  BY DEF IInv, Types1
<1> QED BY <1>1, <1>2, <1>3, <1>4, EraseEnds

\* ResetPresenceStore's Range has been through every key it had to visit.
LEMMA ResetEndsInv == ASSUME IInv, NEW p \in Procs, ResetEnds(p) PROVE IInv'
<1>1. /\ call[p].at = "reset" /\ call[p].todo = {} /\ Leave(p, FALSE) /\ EraseDone(p)
      /\ UNCHANGED <<store, bits>> /\ call[p].rcv \notin Keys
  BY KeyIsReceiver DEF ResetEnds, IInv, Args
<1>2. \A k \in DOMAIN store : \A t \in bits[store[k]] :
        <<k, t>> \notin obs[p].erases /\ (k = call[p].rcv => <<k, t>> \in may)
  BY <1>1 DEF IInv, EraseFacts, Types1
<1>3. bits \in [Masks -> SUBSET TagRange]
  BY DEF IInv, Types1
<1> QED BY <1>1, <1>2, <1>3, EraseEnds

\* ResetPresenceStore deletes one key of those it still has to visit.
LEMMA ResetDeleteInv == ASSUME IInv, NEW p \in Procs, ResetDelete(p) PROVE IInv'
<1>1. PICK k \in call[p].todo : /\ store' = Without(k)
                                /\ call' = [call EXCEPT ![p].todo = @ \ {k}]
  BY DEF ResetDelete
<1>2. /\ DOMAIN store' = DOMAIN store \ {k} /\ \A j \in DOMAIN store' : store'[j] = store[j]
      /\ call[p].at = "reset" /\ UNCHANGED <<bits, history>>
  BY <1>1 DEF ResetDelete, Without
<1>3. /\ call' \in [Procs -> Calls]
      /\ \A q \in Procs \ {p} : call'[q] = call[q]
      /\ call'[p].at = "reset" /\ call'[p].todo = call[p].todo \ {k}
      /\ call'[p].rcv = call[p].rcv /\ call'[p].mask = call[p].mask
  BY <1>1, <1>2 DEF IInv, Types1, Calls
<1>4. \A j : Erases(p, j)
  BY <1>2 DEF Erases
<1>5. Types1'
  BY <1>2, <1>3 DEF history, IInv, Types1
<1>6. Apart'
  BY <1>2, <1>3 DEF IInv, Apart
<1>7. StoreShows'
  BY <1>2 DEF history, IInv, StoreShows
<1>8. OwedFacts'
  BY <1>2, <1>4 DEF history, IInv, OwedFacts
<1>9. ASSUME NEW q \in Procs PROVE Args(q)'
  BY <1>2, <1>3 DEF IInv, Args
<1>10. ASSUME NEW q \in Procs PROVE MarkFacts(q)'
  BY <1>2, <1>3, <1>4 DEF history, IInv, MarkFacts, Marked
<1>11. ASSUME NEW q \in Procs PROVE EraseFacts(q)'
  BY <1>2, <1>3 DEF history, IInv, EraseFacts
<1>12. ASSUME NEW q \in Procs PROVE AskFacts(q)'
  BY <1>2, <1>3, <1>4 DEF history, IInv, AskFacts, Marked
<1>13. ASSUME NEW q \in Procs PROVE Answered(q)'
  BY <1>2, <1>3 DEF history, IInv, Answered
<1> QED BY <1>5, <1>6, <1>7, <1>8, <1>9, <1>10, <1>11, <1>12, <1>13 DEF IInv

-----------------------------------------------------------------------------
(* Queries. *)

\* A query that returns the right answer.
LEMMA AnswerInv ==
  ASSUME IInv, NEW p \in Procs, NEW v \in BOOLEAN, Leave(p, v),
         call[p].at \in Asking \cup {"idle"}, UNCHANGED <<store, bits, history>>,
         v => obs[p].may, obs[p].must => v
  PROVE  IInv'
<1>1. /\ call' \in [Procs -> Calls]
      /\ \A q \in Procs \ {p} : call'[q] = call[q]
      /\ call'[p].at = "returned" /\ call'[p].ret = v
      /\ call'[p].mask = None /\ call'[p].rcv = NoRcv
  BY LeaveFacts DEF IInv
<1>2. Types1'
  BY <1>1 DEF history, IInv, Types1
<1>3. Apart'
  BY <1>1, PresenceAssumption DEF IInv, Apart, Types1
<1>4. StoreShows' /\ OwedFacts'
  BY <1>1 DEF history, IInv, StoreShows, OwedFacts, Erases
<1>5. ASSUME NEW q \in Procs PROVE Args(q)'
  BY <1>1 DEF IInv, Args
<1>6. ASSUME NEW q \in Procs PROVE MarkFacts(q)'
  BY <1>1 DEF history, IInv, MarkFacts, Erases, Marked
<1>7. ASSUME NEW q \in Procs PROVE EraseFacts(q)'
  BY <1>1 DEF history, IInv, EraseFacts
<1>8. ASSUME NEW q \in Procs PROVE AskFacts(q)'
  BY <1>1 DEF history, IInv, AskFacts, Erases, Marked
<1>9. ASSUME NEW q \in Procs PROVE Answered(q)'
  BY <1>1 DEF history, IInv, Answered
<1> QED BY <1>2, <1>3, <1>4, <1>5, <1>6, <1>7, <1>8, <1>9 DEF IInv

\* IsPresent's Load: no mask means no mark is owed.
LEMMA IsLoadInv == ASSUME IInv, NEW p \in Procs, IsLoad(p) PROVE IInv'
<1> DEFINE r == call[p].rcv
<1>1. /\ call[p].at = "is" /\ r \in Keys /\ Key(p) = r /\ UNCHANGED <<store, bits, history>>
      /\ call[p].tag \in TagRange
  BY KeyOf DEF IsLoad, IInv, Args
<1>2. CASE r \in DOMAIN store
  <2>1. Types1 /\ store[r] \in Masks /\ Takes(p, "isGet", store[r])
    BY <1>1, <1>2 DEF IInv, Types1, IsLoad, Takes
  <2>2. /\ call' \in [Procs -> Calls]
        /\ \A q \in Procs \ {p} : call'[q] = call[q]
        /\ call'[p].at = "isGet" /\ call'[p].mask = store[r]
        /\ call'[p].rcv = r /\ call'[p].tag = call[p].tag
    BY <2>1, TakeMask
  <2>3. Types1'
    BY <1>1, <2>2 DEF history, IInv, Types1
  <2>4. Apart'
    BY <1>1, <1>2, <2>1, <2>2, PresenceAssumption DEF IInv, Types1, Apart
  <2>5. StoreShows' /\ OwedFacts'
    BY <1>1, <2>2 DEF history, IInv, StoreShows, OwedFacts, Erases
  <2>6. ASSUME NEW q \in Procs PROVE Args(q)'
    BY <1>1, <2>1, <2>2, PresenceAssumption DEF IInv, Args
  <2>7. ASSUME NEW q \in Procs PROVE MarkFacts(q)'
    BY <1>1, <2>2 DEF history, IInv, MarkFacts, Erases, Marked
  <2>8. ASSUME NEW q \in Procs PROVE EraseFacts(q)'
    BY <1>1, <2>2 DEF history, IInv, EraseFacts
  <2>9. ASSUME NEW q \in Procs PROVE AskFacts(q)'
    <3>1. call[p].tag \in bits[store[r]] => obs[p].may
      BY <1>1, <1>2 DEF IInv, StoreShows, AskFacts, Marked
    <3>2. CASE q = p
      BY <3>1, <3>2, <1>1, <2>2 DEF history, IInv, AskFacts, Erases, Marked
    <3>3. CASE q # p
      BY <3>3, <1>1, <2>2 DEF history, IInv, AskFacts, Erases, Marked
    <3> QED BY <3>2, <3>3
  <2>10. ASSUME NEW q \in Procs PROVE Answered(q)'
    BY <1>1, <2>2 DEF history, IInv, Answered
  <2> QED BY <2>3, <2>4, <2>5, <2>6, <2>7, <2>8, <2>9, <2>10 DEF IInv
<1>3. CASE r \notin DOMAIN store
  <2>1. Leave(p, FALSE)
    BY <1>1, <1>3 DEF IsLoad
  <2>2. ~ obs[p].must
    BY <1>1, <1>3 DEF IInv, AskFacts
  <2> QED BY <1>1, <2>1, <2>2, AnswerInv
<1> QED BY <1>2, <1>3

\* IsPresent's mask.get: the answer is the word's at that moment.
LEMMA IsGetInv == ASSUME IInv, NEW p \in Procs, IsGet(p) PROVE IInv'
<1> DEFINE v == call[p].tag \in bits[call[p].mask]
<1>1. call[p].at = "isGet" /\ call[p].tag \in TagRange
  BY KeyOf DEF IsGet, IInv, Args
<1>2. ~ panics(call[p].tag)
  BY <1>1, WordOfTag
<1>3. Leave(p, v) /\ UNCHANGED <<store, bits, history>>
  BY <1>2 DEF IsGet
<1>4. v \in BOOLEAN /\ (v => obs[p].may) /\ (obs[p].must => v)
  BY <1>1 DEF IInv, AskFacts
<1> QED BY <1>1, <1>3, <1>4, AnswerInv

\* A call that has returned gives its goroutine back.
LEMMA ReturnInv == ASSUME IInv, NEW p \in Procs, Return(p) PROVE IInv'
<1>1. /\ call' \in [Procs -> Calls] /\ call[p].at = "returned"
      /\ \A q \in Procs \ {p} : call'[q] = call[q]
      /\ call'[p].at = "idle" /\ call'[p].mask = None /\ call'[p].rcv = NoRcv
      /\ UNCHANGED <<store, may, owed, fresh>>
  BY WordOfTag DEF Return, Idle, IInv, Types1, Calls
<1>2. /\ obs' \in [Procs -> Records] /\ \A q \in Procs \ {p} : obs'[q] = obs[q]
      /\ ~ obs'[p].must /\ obs'[p].erases = {}
  BY DEF Return, NoObs, IInv, Types1, Records
<1>3. /\ bits' \in [Masks -> SUBSET TagRange]
      /\ \A k \in DOMAIN store : bits'[store[k]] = bits[store[k]]
      /\ \A q \in Procs : call[q].mask # None => bits'[call[q].mask] = bits[call[q].mask]
  BY DEF Return, Unused, IInv, Types1, Calls
<1>4. Types1'
  BY <1>1, <1>2, <1>3 DEF IInv, Types1
<1>5. Apart'
  BY <1>1, PresenceAssumption DEF IInv, Types1, Apart
<1>6. StoreShows' /\ OwedFacts'
  BY <1>1, <1>3 DEF IInv, StoreShows, OwedFacts, Erases
<1>7. ASSUME NEW q \in Procs PROVE Args(q)'
  BY <1>1 DEF IInv, Args
<1>8. ASSUME NEW q \in Procs PROVE MarkFacts(q)'
  BY <1>1, <1>2 DEF IInv, MarkFacts, Erases, Marked
<1>9. ASSUME NEW q \in Procs PROVE EraseFacts(q)'
  BY <1>1, <1>2, <1>3 DEF IInv, EraseFacts
<1>10. ASSUME NEW q \in Procs PROVE AskFacts(q)'
  <2>1. CASE q = p
    BY <2>1, <1>1 DEF AskFacts
  <2>2. CASE q # p
    <3>1. call[q].at = "isGet" => bits'[call[q].mask] = bits[call[q].mask]
      BY <1>3 DEF IInv, Args
    <3>2. \A o \in Procs, k \in Keys : Erases(o, k)' <=> Erases(o, k)
      BY <1>1 DEF Erases
    <3>3. call[q].at \in Asking => call[q].rcv \in Keys
      BY DEF IInv, Args
    <3>4. call'[q] = call[q] /\ obs'[q] = obs[q] /\ store' = store /\ may' = may /\ fresh' = fresh
      BY <2>2, <1>1, <1>2
    <3>5. AskFacts(q) /\ (call[q].rcv \in DOMAIN store
                           => bits'[store[call[q].rcv]] = bits[store[call[q].rcv]])
      BY <1>3 DEF IInv
    <3> QED BY <3>1, <3>2, <3>3, <3>4, <3>5 DEF AskFacts, Marked
  <2> QED BY <2>1, <2>2
<1>11. ASSUME NEW q \in Procs PROVE Answered(q)'
  BY <1>1, <1>2 DEF IInv, Answered
<1> QED BY <1>4, <1>5, <1>6, <1>7, <1>8, <1>9, <1>10, <1>11 DEF IInv

-----------------------------------------------------------------------------
(* Calls begin, and addresses come back. *)

\* What Enter makes of a call.
LEMMA EnterFacts ==
  ASSUME IInv, NEW p \in Procs, NEW l \in {"mark", "is", "clear", "forget"},
         NEW r \in Receivers, NEW t \in Nat, NEW early \in BOOLEAN, Enter(p, l, r, t, early)
  PROVE  /\ call' \in [Procs -> Calls] /\ \A q \in Procs \ {p} : call'[q] = call[q]
         /\ call[p].at = "idle" /\ call'[p].mask = None /\ UNCHANGED <<store, bits>>
         /\ early => call'[p].at = "returned" /\ call'[p].ret = FALSE /\ call'[p].rcv = NoRcv
         /\ ~ early => /\ call'[p].at = l /\ call'[p].rcv = r /\ call'[p].tag = t
                       /\ call'[p].word = 0
<1>1. CASE early
  BY <1>1, LeaveFacts DEF Enter, IInv
<1>2. CASE ~ early
  <2> DEFINE c == [Idle EXCEPT !.at = l, !.rcv = r, !.tag = t]
  <2>1. call' = [call EXCEPT ![p] = c] /\ call[p].at = "idle" /\ UNCHANGED <<store, bits>>
    BY <1>2 DEF Enter
  <2>2. c \in Calls /\ c.at = l /\ c.rcv = r /\ c.tag = t /\ c.word = 0 /\ c.mask = None
    BY WordOfTag DEF Idle, Calls
  <2> HIDE DEF c
  <2> QED BY <1>2, <2>1, <2>2 DEF IInv, Types1
<1> QED BY <1>1, <1>2

\* A MarkPresent begins: it may be owed unless an erasure is already under way.
LEMMA BeginMarkInv ==
  ASSUME IInv, NEW p \in Procs, NEW r \in Receivers, NEW t \in Nat, BeginMark(p, r, t)
  PROVE  IInv'
<1> DEFINE early == untracked(t) \/ r.ptr = Nil
<1>1. /\ call' \in [Procs -> Calls] /\ \A q \in Procs \ {p} : call'[q] = call[q]
      /\ call[p].at = "idle" /\ call'[p].mask = None /\ UNCHANGED <<store, bits>>
      /\ early => call'[p].at = "returned" /\ call'[p].ret = FALSE /\ call'[p].rcv = NoRcv
      /\ ~ early => call'[p].at = "mark" /\ call'[p].rcv = r /\ call'[p].tag = t
  BY EnterFacts DEF BeginMark
<1> HIDE DEF early
<1>2. CASE early
  <2>1. UNCHANGED history /\ Leave(p, FALSE)
    BY <1>2 DEF BeginMark, Enter, early
  <2>2. ~ obs[p].must
    BY <1>1 DEF IInv, Answered
  <2> QED BY <1>1, <2>1, <2>2, AnswerInv
<1>3. CASE ~ early
  <2>1. r \in Keys /\ t \in TagRange
    BY <1>3, KeyIsReceiver, PresenceAssumption DEF untracked, TagRange, early
  <2>2. may' = may \cup {<<r, t>>} /\ UNCHANGED <<owed, fresh>>
    BY <1>3 DEF BeginMark, early
  <2>3. obs' = [q \in Procs |->
          IF q = p THEN [NoObs EXCEPT !.must = \A o \in Procs : ~Erases(o, r)]
          ELSE [obs[q] EXCEPT !.erases = @ \ {<<r, t>>},
                 !.may = @ \/ (call[q].at \in Asking /\ call[q].rcv = r /\ call[q].tag = t)]]
    BY <1>3 DEF BeginMark, early
  <2>4. /\ obs' \in [Procs -> Records]
        /\ obs'[p].must <=> \A o \in Procs : ~Erases(o, r)
        /\ obs'[p].erases = {}
        /\ \A q \in Procs \ {p} :
             /\ obs'[q].erases = obs[q].erases \ {<<r, t>>}
             /\ obs'[q].must <=> obs[q].must
             /\ obs'[q].may <=> obs[q].may \/ (/\ call[q].at \in Asking /\ call[q].rcv = r
                                               /\ call[q].tag = t)
    BY <2>3 DEF NoObs, IInv, Types1, Records
  <2>5. \A q \in Procs : <<r, t>> \notin obs'[q].erases
    BY <2>4
  <2>6. Types1'
    BY <1>1, <2>1, <2>2, <2>4 DEF IInv, Types1
  <2>7. Apart'
    BY <1>1, PresenceAssumption DEF IInv, Types1, Apart
  <2>8. StoreShows' /\ OwedFacts'
    BY <1>1, <1>3, <2>2 DEF IInv, StoreShows, OwedFacts, Erases
  <2>9. \A o \in Procs, k \in Keys : Erases(o, k)' <=> Erases(o, k)
    BY <1>1, <1>3 DEF Erases
  <2>10. ASSUME NEW q \in Procs PROVE Args(q)'
    BY <1>1, <1>3, <2>1 DEF IInv, Args
  <2>11. ASSUME NEW q \in Procs PROVE MarkFacts(q)'
    <3>1. CASE q = p
      BY <3>1, <1>1, <1>3, <2>2, <2>4, <2>5 DEF MarkFacts, Erases, Marked
    <3>2. CASE q # p
      <4>1. /\ call'[q] = call[q] /\ store' = store /\ Marked(q)' = Marked(q)
            /\ obs'[q].must <=> obs[q].must
            /\ \A o \in Procs : obs'[o].erases \subseteq obs[o].erases
        BY <3>2, <1>1, <2>4 DEF Marked
      <4>2. MarkFacts(q) /\ (call[q].at \in Marking => call[q].rcv \in Keys)
        BY DEF IInv, Args
      <4> QED BY <4>1, <4>2, <2>2, <2>9 DEF MarkFacts
    <3> QED BY <3>1, <3>2
  <2>12. ASSUME NEW q \in Procs PROVE EraseFacts(q)'
    BY <1>1, <1>3, <2>2, <2>4 DEF IInv, EraseFacts
  <2>13. ASSUME NEW q \in Procs PROVE AskFacts(q)'
    <3>1. CASE q = p
      BY <3>1, <1>1, <1>3 DEF AskFacts
    <3>2. CASE q # p
      <4>1. /\ call'[q] = call[q] /\ store' = store /\ Marked(q)' = Marked(q) /\ bits' = bits
            /\ obs'[q].must <=> obs[q].must
            /\ obs[q].may \/ (call[q].at \in Asking /\ Marked(q) = <<r, t>>) => obs'[q].may
        BY <3>2, <1>1, <2>4 DEF Marked
      <4>2. AskFacts(q) /\ (call[q].at \in Asking => call[q].rcv \in Keys)
        BY DEF IInv, Args
      <4> QED BY <4>1, <4>2, <2>2, <2>9 DEF AskFacts
    <3> QED BY <3>1, <3>2
  <2>14. ASSUME NEW q \in Procs PROVE Answered(q)'
    BY <1>1, <1>3, <2>4 DEF IInv, Answered
  <2> QED BY <2>6, <2>7, <2>8, <2>10, <2>11, <2>12, <2>13, <2>14 DEF IInv
<1> QED BY <1>2, <1>3

\* An IsPresent begins: it must say TRUE of a mark that is owed now.
LEMMA BeginIsPresentInv ==
  ASSUME IInv, NEW p \in Procs, NEW r \in Receivers, NEW t \in Nat, BeginIsPresent(p, r, t)
  PROVE  IInv'
<1> DEFINE early == untracked(t) \/ r.ptr = Nil
<1>1. /\ call' \in [Procs -> Calls] /\ \A q \in Procs \ {p} : call'[q] = call[q]
      /\ call[p].at = "idle" /\ call'[p].mask = None /\ UNCHANGED <<store, bits>>
      /\ early => call'[p].at = "returned" /\ call'[p].ret = FALSE /\ call'[p].rcv = NoRcv
      /\ ~ early => call'[p].at = "is" /\ call'[p].rcv = r /\ call'[p].tag = t
  BY EnterFacts DEF BeginIsPresent
<1>2. /\ UNCHANGED <<may, owed, fresh>> /\ obs' \in [Procs -> Records]
      /\ \A q \in Procs \ {p} : obs'[q] = obs[q]
      /\ obs'[p].erases = {}
      /\ obs'[p].may <=> <<r, t>> \in may \/ r \in fresh
      /\ obs'[p].must <=> <<r, t>> \in owed
  <2> DEFINE mayBe == <<r, t>> \in may \/ r \in fresh
             mustBe == <<r, t>> \in owed
  <2>1. /\ obs' = [obs EXCEPT ![p] = [NoObs EXCEPT !.may = mayBe, !.must = mustBe]]
        /\ UNCHANGED <<may, owed, fresh>>
    BY DEF BeginIsPresent
  <2>2. mayBe \in BOOLEAN /\ mustBe \in BOOLEAN
    OBVIOUS
  <2>3. /\ obs' \in [Procs -> Records]
        /\ \A q \in Procs \ {p} : obs'[q] = obs[q]
        /\ obs'[p].erases = {} /\ obs'[p].may = mayBe /\ obs'[p].must = mustBe
    <3> HIDE DEF mayBe, mustBe
    <3> QED BY <2>1, <2>2 DEF NoObs, IInv, Types1, Records
  <2> QED BY <2>1, <2>3
<1>3. ~ early => r \in Keys /\ t \in TagRange
  BY KeyIsReceiver, PresenceAssumption DEF untracked, TagRange
<1>4. early => ~ obs'[p].must
  BY <1>2, PresenceAssumption DEF untracked, TagRange, IInv, Types1, Keys
<1>5. Types1'
  BY <1>1, <1>2 DEF IInv, Types1
<1>6. Apart'
  BY <1>1, PresenceAssumption DEF IInv, Types1, Apart
<1>7. StoreShows' /\ OwedFacts'
  BY <1>1, <1>2 DEF IInv, StoreShows, OwedFacts, Erases
<1>8. ASSUME NEW q \in Procs PROVE Args(q)'
  BY <1>1, <1>3 DEF IInv, Args
<1>9. ASSUME NEW q \in Procs PROVE MarkFacts(q)'
  BY <1>1, <1>2 DEF IInv, MarkFacts, Erases, Marked
<1>10. ASSUME NEW q \in Procs PROVE EraseFacts(q)'
  BY <1>1, <1>2 DEF IInv, EraseFacts
<1>11. ASSUME NEW q \in Procs PROVE AskFacts(q)'
  <2>1. CASE q = p
    BY <2>1, <1>1, <1>2 DEF IInv, AskFacts, OwedFacts, Erases, Marked
  <2>2. CASE q # p
    BY <2>2, <1>1, <1>2 DEF IInv, AskFacts, Erases, Marked
  <2> QED BY <2>1, <2>2
<1>12. ASSUME NEW q \in Procs PROVE Answered(q)'
  BY <1>1, <1>2, <1>4 DEF IInv, Answered
<1> QED BY <1>5, <1>6, <1>7, <1>8, <1>9, <1>10, <1>11, <1>12 DEF IInv

\* An erasure begins, of one receiver or of all: what it will take is settled,
\* and no mark or query it meets is owed anything any more.
LEMMA BeginEraseInv ==
  ASSUME IInv, NEW p \in Procs, NEW rs \in SUBSET Receivers, BeginErase(p, rs),
         call[p].at = "idle", call' \in [Procs -> Calls],
         \A q \in Procs \ {p} : call'[q] = call[q],
         call'[p].mask = None, UNCHANGED <<store, bits>>,
         \/ call'[p].at = "returned" /\ call'[p].ret = FALSE
         \/ /\ call'[p].at \in {"clear", "forget"} /\ call'[p].word = 0
            /\ call'[p].rcv \in Keys /\ rs = {call'[p].rcv}
         \/ /\ call'[p].at = "reset" /\ call'[p].rcv = NoRcv
            /\ rs = Receivers /\ DOMAIN store \subseteq call'[p].todo
  PROVE  IInv'
<1>1. UNCHANGED <<may, fresh>> /\ owed' = {x \in owed : x[1] \notin rs}
  BY DEF BeginErase
<1>2. /\ obs' \in [Procs -> Records]
      /\ ~ obs'[p].must /\ \A x \in obs'[p].erases : x[1] \in rs
      /\ \A o \in Procs : call[o].at \in Marking => Marked(o) \notin obs'[p].erases
      /\ \A q \in Procs \ {p} :
           /\ obs'[q].erases = obs[q].erases /\ (obs'[q].may <=> obs[q].may)
           /\ obs'[q].must => obs[q].must /\ call[q].rcv \notin rs
  <2> DEFINE gone == {x \in may : x[1] \in rs} \
              {<<call[o].rcv, call[o].tag>> : o \in {o \in Procs : call[o].at \in Marking}}
  <2>1. obs' = [q \in Procs |->
          IF q = p THEN [NoObs EXCEPT !.erases = gone]
          ELSE IF call[q].rcv \in rs THEN [obs[q] EXCEPT !.must = FALSE] ELSE obs[q]]
    BY DEF BeginErase
  <2>2. /\ gone \subseteq Keys \X TagRange /\ \A x \in gone : x[1] \in rs
        /\ \A o \in Procs : call[o].at \in Marking => Marked(o) \notin gone
    BY DEF IInv, Types1, Marked
  <2> HIDE DEF gone
  <2>3. obs'[p] = [NoObs EXCEPT !.erases = gone] /\ obs'[p] \in Records
    BY <2>1, <2>2 DEF NoObs, Records
  <2>4. ~ obs'[p].must /\ obs'[p].erases = gone
    BY <2>3 DEF NoObs
  <2>5. ASSUME NEW q \in Procs \ {p}
        PROVE  /\ obs'[q] \in Records
               /\ obs'[q].erases = obs[q].erases /\ (obs'[q].may <=> obs[q].may)
               /\ obs'[q].must => obs[q].must /\ call[q].rcv \notin rs
    <3>1. obs[q] \in Records
      BY DEF IInv, Types1
    <3> QED BY <3>1, <2>1 DEF Records
  <2>6. obs' \in [Procs -> Records]
    BY <2>1, <2>3, <2>5
  <2> QED BY <2>2, <2>4, <2>5, <2>6
<1>3. /\ \A q \in Procs \ {p}, k \in Keys : Erases(q, k)' <=> Erases(q, k)
      /\ \A k \in Keys : Erases(p, k)' => k \in rs
  BY KeyIsReceiver DEF Erases
<1>4. \A q \in Procs : call[q].at \in Marking \cup Asking => call[q].rcv \in Keys /\ q # p
  BY DEF IInv, Args
<1>5. Types1'
  BY <1>1, <1>2 DEF IInv, Types1
<1>6. Apart'
  BY PresenceAssumption DEF IInv, Types1, Apart
<1>7. StoreShows'
  BY <1>1 DEF IInv, StoreShows
<1>8. OwedFacts'
  <2>1. ASSUME NEW x \in owed' PROVE x \in owed /\ x[1] \in Keys /\ x[1] \notin rs
    BY <2>1, <1>1 DEF IInv, Types1
  <2> QED BY <2>1, <1>3 DEF IInv, OwedFacts
<1>9. ASSUME NEW q \in Procs PROVE Args(q)'
  BY DEF IInv, Args
<1>10. ASSUME NEW q \in Procs PROVE MarkFacts(q)'
  <2>1. CASE q = p
    BY <2>1 DEF MarkFacts
  <2>2. CASE q # p
    <3>1. MarkFacts(q) /\ call'[q] = call[q] /\ Marked(q)' = Marked(q)
      BY <2>2 DEF IInv, Marked
    <3> QED BY <2>2, <3>1, <1>1, <1>2, <1>3, <1>4 DEF MarkFacts
  <2> QED BY <2>1, <2>2
<1>11. ASSUME NEW q \in Procs PROVE EraseFacts(q)'
  <2>1. CASE q = p
    BY <2>1, <1>2 DEF EraseFacts
  <2>2. CASE q # p
    BY <2>2, <1>1, <1>2 DEF IInv, EraseFacts
  <2> QED BY <2>1, <2>2
<1>12. ASSUME NEW q \in Procs PROVE AskFacts(q)'
  <2>1. CASE q = p
    BY <2>1 DEF AskFacts
  <2>2. CASE q # p
    <3>1. AskFacts(q) /\ call'[q] = call[q] /\ Marked(q)' = Marked(q)
      BY <2>2 DEF IInv, Marked
    <3> QED BY <2>2, <3>1, <1>1, <1>2, <1>3, <1>4 DEF AskFacts
  <2> QED BY <2>1, <2>2
<1>13. ASSUME NEW q \in Procs PROVE Answered(q)'
  BY <1>2 DEF IInv, Answered
<1> QED BY <1>5, <1>6, <1>7, <1>8, <1>9, <1>10, <1>11, <1>12, <1>13 DEF IInv

\* A ClearPresence or ForgetPresence begins: an erasure of one receiver.
LEMMA BeginClearInv ==
  ASSUME IInv, NEW p \in Procs, NEW r \in Receivers, BeginClear(p, r) \/ BeginForget(p, r)
  PROVE  IInv'
<1> DEFINE early == r.ptr = Nil
<1>1. /\ call' \in [Procs -> Calls] /\ \A q \in Procs \ {p} : call'[q] = call[q]
      /\ call[p].at = "idle" /\ call'[p].mask = None /\ UNCHANGED <<store, bits>>
      /\ early => call'[p].at = "returned" /\ call'[p].ret = FALSE
      /\ ~ early => /\ call'[p].at \in {"clear", "forget"}
                    /\ call'[p].rcv = r /\ call'[p].word = 0
  <2>1. CASE BeginClear(p, r)
    BY <2>1, EnterFacts DEF BeginClear
  <2>2. CASE BeginForget(p, r)
    BY <2>2, EnterFacts DEF BeginForget
  <2> QED BY <2>1, <2>2
<1>2. BeginErase(p, {r})
  BY DEF BeginClear, BeginForget
<1>3. ~ early => r \in Keys
  BY KeyIsReceiver
<1> QED BY <1>1, <1>2, <1>3, BeginEraseInv

\* A ResetPresenceStore begins: an erasure of every receiver stored.
LEMMA BeginResetStoreInv == ASSUME IInv, NEW p \in Procs, BeginResetStore(p) PROVE IInv'
<1>1. PICK ks \in SUBSET Keys :
        /\ DOMAIN store \subseteq ks
        /\ call' = [call EXCEPT ![p] = [Idle EXCEPT !.at = "reset", !.todo = ks]]
  BY DEF BeginResetStore
<1>2. call[p].at = "idle" /\ UNCHANGED <<store, bits>> /\ BeginErase(p, Receivers)
  BY DEF BeginResetStore
<1>3. /\ call' \in [Procs -> Calls] /\ \A q \in Procs \ {p} : call'[q] = call[q]
      /\ call'[p].at = "reset" /\ call'[p].mask = None /\ call'[p].rcv = NoRcv
      /\ call'[p].todo = ks
  BY <1>1, WordOfTag DEF Idle, IInv, Types1, Calls
<1> QED BY <1>1, <1>2, <1>3, BeginEraseInv

\* A collected receiver's address is given to a new one, whose mask still shows
\* the old marks.
LEMMA ReallocateInv == ASSUME IInv, NEW a \in Addrs, Reallocate(a) PROVE IInv'
<1> DEFINE here == {r \in Receivers : r.ptr = a}
<1>1. /\ UNCHANGED <<store, bits, call, obs>> /\ fresh' = fresh \cup here
      /\ may' = {x \in may : x[1] \notin here} /\ owed' = {x \in owed : x[1] \notin here}
      /\ \A p \in Procs : call[p].rcv \notin here
  BY DEF Reallocate
<1>2. here \subseteq Keys
  BY PresenceAssumption DEF Receivers, Keys
<1> HIDE DEF here
<1>3. Types1'
  BY <1>1, <1>2 DEF IInv, Types1
<1>4. Apart' /\ \A p \in Procs : Args(p)' /\ Answered(p)'
  BY <1>1 DEF IInv, Apart, Args, Answered
<1>5. StoreShows'
  BY <1>1 DEF IInv, StoreShows
<1>6. OwedFacts'
  BY <1>1 DEF IInv, OwedFacts, Erases
<1>7. ASSUME NEW p \in Procs PROVE MarkFacts(p)'
  BY <1>1 DEF IInv, MarkFacts, Erases, Marked
<1>8. ASSUME NEW p \in Procs PROVE EraseFacts(p)'
  BY <1>1 DEF IInv, EraseFacts
<1>9. ASSUME NEW p \in Procs PROVE AskFacts(p)'
  BY <1>1 DEF IInv, AskFacts, Erases, Marked
<1> QED BY <1>3, <1>4, <1>5, <1>6, <1>7, <1>8, <1>9 DEF IInv

-----------------------------------------------------------------------------
\* Every operation on the map and on a word of a mask keeps the invariant.
LEMMA StepInv == IInv /\ [Next]_vars => IInv'
<1> SUFFICES ASSUME IInv, [Next]_vars PROVE IInv'
  OBVIOUS
<1>1. CASE UNCHANGED vars
  BY <1>1 DEF vars, history, IInv, Types1, Apart, StoreShows, OwedFacts, Args, MarkFacts,
              EraseFacts, AskFacts, Answered, Erases, Marked
<1>2. ASSUME NEW p \in Procs, Begin(p) PROVE IInv'
  <2>1. \A r \in Receivers : TagsOf[r.typ] \subseteq Nat
    BY PresenceAssumption DEF Receivers
  <2> QED BY <1>2, <2>1, BeginMarkInv, BeginIsPresentInv, BeginClearInv, BeginResetStoreInv
       DEF Begin
<1>3. ASSUME NEW p \in Procs, Step(p) PROVE IInv'
  BY <1>3, MarkLoadInv, MarkSetInv, MarkStoreInv, ClearLoadInv, ClearWordInv, ForgetInv,
     ResetDeleteInv, ResetEndsInv, IsLoadInv, IsGetInv, ReturnInv DEF Step
<1>4. ASSUME NEW a \in Addrs, Reallocate(a) PROVE IInv'
  BY <1>4, ReallocateInv
<1> QED BY <1>1, <1>2, <1>3, <1>4 DEF Next

\* For any number of goroutines, types and addresses: IsPresent answers TRUE for
\* every mark that was finished and that nothing began to erase.
THEOREM MarksAreNotLost == Spec => []NoLostMark
<1>1. IInv => NoLostMark
  BY DEF IInv, Answered, NoLostMark
<1> QED BY InitInv, StepInv, <1>1, PTL DEF Spec

\* For any number of goroutines, types and addresses: IsPresent answers TRUE only
\* for a tag marked on this receiver and not erased before the call.
THEOREM MarksAreNotInvented == Spec => []NoPhantom
<1>1. IInv => NoPhantom
  BY DEF IInv, Answered, NoPhantom
<1> QED BY InitInv, StepInv, <1>1, PTL DEF Spec

\* Whatever tags callers pass, mask.set and mask.get stay inside the mask's words.
THEOREM MasksAreNotOverrun == Spec => []NeverPanics
<1>1. IInv => NeverPanics
  BY DEF IInv, Types1, Calls, NeverPanics
<1> QED BY InitInv, StepInv, <1>1, PTL DEF Spec
=============================================================================
