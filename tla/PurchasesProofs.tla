-------------------------- MODULE PurchasesProofs --------------------------
(* Proofs about Purchases for any purchases, calls, bounds and periods.        *)
EXTENDS Purchases, SequenceTheorems, TLAPS

States == {"none", "paid", "grace", "hold", "ended", "revoked"}
Kinds == {"renewed", "grace", "hold", "ended", "revoked"}
Holding == [state : States, end : Nat, until : Nat]
Notice == [item : Items, kind : Kinds, end : Nat, until : Nat]
Job == [pc : {"idle", "grant", "activate", "stale", "apply"},
        item : Items \cup {Nothing}, note : Nat, end : Nat, at : Nat]

Shapes ==
  /\ now \in Nat
  /\ shop \in [Items -> Holding]
  /\ sent \in Seq(Notice)
  /\ bought \subseteq Items /\ queued \subseteq Items
  /\ lots \in [Items -> Nat] /\ taken \in [Items -> Nat]
  /\ finish \in [Items -> {"none", "pending", "done"}]
  /\ handled \subseteq 1 .. Len(sent)
  /\ job \in [Calls -> Job]

(* What a call has read belongs to what it will do.  A pack that a call found  *)
(* paid had not been refunded when its call began.                             *)
JobShape ==
  \A c \in Calls :
    /\ job[c].pc = "grant" =>
         /\ job[c].item \in Packs /\ job[c].at <= Len(sent)
         /\ \A n \in 1 .. Len(sent) : sent[n].item = job[c].item => n > job[c].at
    /\ job[c].pc = "activate" => job[c].item \in Subs
    /\ job[c].pc \in {"apply", "stale"} =>
         /\ job[c].note \in 1 .. Len(sent) /\ sent[job[c].note].item \in Subs
         /\ job[c].item \in Subs

(* Of a pack the store says nothing but that it refunded it, and it says so.   *)
PacksAreRefunded ==
  /\ \A n \in 1 .. Len(sent) : sent[n].item \in Packs =>
       sent[n].kind = "revoked" /\ shop[sent[n].item].state = "revoked"
  /\ \A p \in Packs : shop[p].state = "revoked" =>
       \E n \in 1 .. Len(sent) : sent[n].item = p

(* A lot is granted with the purchase, and only a pack has one.                *)
LotsAreGranted ==
  \A i \in Items : lots[i] = IF i \in bought \cap Packs THEN 1 ELSE 0

(* A lot is taken back once, of a refunded pack, and the first refund that is  *)
(* handled in time takes it.                                                   *)
LotsAreTaken ==
  \A i \in Items :
    /\ taken[i] <= lots[i]
    /\ taken[i] # 0 => shop[i].state = "revoked"
    /\ i \in bought \cap Packs /\ i \notin slipped
         /\ (\E n \in handled : sent[n].item = i) => taken[i] = 1

FinishIsQueued == \A i \in Items : finish[i] = "pending" => i \in queued

IInv ==
  /\ Shapes
  /\ JobShape
  /\ PacksAreRefunded
  /\ LotsAreGranted
  /\ LotsAreTaken
  /\ FinishIsQueued

----------------------------------------------------------------------------
LEMMA Constants ==
  /\ Packs \cap Subs = {} /\ Items = Packs \cup Subs
  /\ OnAndroid \subseteq Items /\ Nothing \notin Items
  /\ Period \in Nat /\ Horizon \in Nat /\ NoDate \in Nat /\ NoDate = 0
  BY PurchasesAssumption DEF Items, NoDate

LEMMA InitInv == Init => IInv
  <1> SUFFICES ASSUME Init PROVE IInv
    OBVIOUS
  <1>1. sent = <<>> /\ Len(sent) = 0 /\ sent \in Seq(Notice)
    BY DEF Init
  <1>2. Shapes
    BY <1>1 DEF Init, Shapes, Holding, States, Job, Idle
  <1>3. JobShape /\ PacksAreRefunded
    BY <1>1, Constants DEF Init, JobShape, PacksAreRefunded, Idle
  <1>4. LotsAreGranted /\ LotsAreTaken /\ FinishIsQueued
    BY <1>1, Constants DEF Init, LotsAreGranted, LotsAreTaken, FinishIsQueued
  <1> QED
    BY <1>2, <1>3, <1>4 DEF IInv

(* A notification more leaves those before it what they were.                  *)
LEMMA OneMore ==
  ASSUME Shapes, NEW e \in Notice, sent' = Append(sent, e)
  PROVE  /\ sent' \in Seq(Notice)
         /\ Len(sent') = Len(sent) + 1 /\ Len(sent) \in Nat
         /\ \A n \in 1 .. Len(sent) : sent'[n] = sent[n]
         /\ sent'[Len(sent) + 1] = e
         /\ 1 .. Len(sent') = (1 .. Len(sent)) \cup {Len(sent) + 1}
  <1>1. Len(sent) \in Nat /\ sent \in Seq(Notice)
    BY LenProperties DEF Shapes
  <1> QED
    BY <1>1, AppendProperties

(* The store tells of one purchase that moved on.                              *)
LEMMA Announced ==
  ASSUME IInv, UNCHANGED server, now' = now, NEW i \in Items, NEW h \in Holding,
         shop' = [shop EXCEPT ![i] = h], NEW k \in Kinds,
         sent' = Append(sent, [item |-> i, kind |-> k,
                               end |-> shop'[i].end, until |-> shop'[i].until]),
         i \in Packs => k = "revoked" /\ h.state = "revoked"
  PROVE  IInv'
  <1> DEFINE e == [item |-> i, kind |-> k, end |-> h.end, until |-> h.until]
  <1>1. /\ Shapes /\ JobShape /\ PacksAreRefunded
        /\ LotsAreGranted /\ LotsAreTaken /\ FinishIsQueued
    BY DEF IInv
  <1>2. /\ shop \in [Items -> Holding] /\ shop' \in [Items -> Holding]
        /\ shop'[i] = h
        /\ \A j \in Items : j # i => shop'[j] = shop[j]
    BY <1>1 DEF Shapes
  <1>3. e \in Notice /\ sent' = Append(sent, e)
    BY <1>2 DEF Notice, Holding
  <1>4. /\ sent' \in Seq(Notice)
        /\ Len(sent') = Len(sent) + 1 /\ Len(sent) \in Nat
        /\ \A n \in 1 .. Len(sent) : sent'[n] = sent[n]
        /\ sent'[Len(sent) + 1] = e
        /\ 1 .. Len(sent') = (1 .. Len(sent)) \cup {Len(sent) + 1}
    BY <1>1, <1>3, OneMore
  <1>5. /\ bought' = bought /\ lots' = lots /\ taken' = taken /\ finish' = finish
        /\ queued' = queued /\ handled' = handled /\ job' = job /\ slipped' = slipped
    BY DEF server, purchases
  <1>6. Shapes'
    BY <1>1, <1>2, <1>4, <1>5 DEF Shapes
  <1>7. JobShape'
    <2> SUFFICES ASSUME NEW c \in Calls
                 PROVE  /\ job[c].pc = "grant" =>
                             /\ job[c].item \in Packs /\ job[c].at <= Len(sent')
                             /\ \A n \in 1 .. Len(sent') :
                                  sent'[n].item = job[c].item => n > job[c].at
                        /\ job[c].pc = "activate" => job[c].item \in Subs
                        /\ job[c].pc \in {"apply", "stale"} =>
                             /\ job[c].note \in 1 .. Len(sent')
                             /\ sent'[job[c].note].item \in Subs
                             /\ job[c].item \in Subs
      BY <1>5 DEF JobShape
    <2>1. job[c].at \in Nat
      BY <1>1 DEF Shapes, Job
    <2> QED
      BY <1>1, <1>4, <2>1 DEF JobShape
  <1>8. PacksAreRefunded'
    <2>1. ASSUME NEW n \in 1 .. Len(sent'), sent'[n].item \in Packs
          PROVE  sent'[n].kind = "revoked" /\ shop'[sent'[n].item].state = "revoked"
      <3>1. CASE n = Len(sent) + 1
        BY <3>1, <2>1, <1>2, <1>4
      <3>2. CASE n \in 1 .. Len(sent)
        <4>1. /\ sent[n].item \in Packs /\ sent[n].kind = "revoked"
              /\ shop[sent[n].item].state = "revoked"
          BY <3>2, <2>1, <1>1, <1>4 DEF PacksAreRefunded
        <4> QED
          BY <4>1, <3>2, <1>2, <1>4, Constants
      <3> QED
        BY <3>1, <3>2, <1>4
    <2>2. ASSUME NEW p \in Packs, shop'[p].state = "revoked"
          PROVE  \E n \in 1 .. Len(sent') : sent'[n].item = p
      <3>1. CASE p = i
        BY <3>1, <1>4
      <3>2. CASE p # i
        <4>1. shop[p].state = "revoked"
          BY <3>2, <2>2, <1>2, Constants
        <4>2. PICK n \in 1 .. Len(sent) : sent[n].item = p
          BY <4>1, <1>1 DEF PacksAreRefunded
        <4> QED
          BY <4>2, <1>4
      <3> QED
        BY <3>1, <3>2
    <2> QED
      BY <2>1, <2>2 DEF PacksAreRefunded
  <1>9. LotsAreGranted' /\ FinishIsQueued'
    BY <1>1, <1>5 DEF LotsAreGranted, FinishIsQueued
  <1>10. LotsAreTaken'
    <2> SUFFICES ASSUME NEW j \in Items
                 PROVE  /\ taken[j] <= lots[j]
                        /\ taken[j] # 0 => shop'[j].state = "revoked"
                        /\ j \in bought \cap Packs /\ j \notin slipped
                             /\ (\E n \in handled : sent'[n].item = j) => taken[j] = 1
      BY <1>5 DEF LotsAreTaken
    <2>1. taken[j] <= lots[j] /\ (taken[j] # 0 => shop[j].state = "revoked")
      BY <1>1 DEF LotsAreTaken
    <2>2. taken[j] # 0 => j \in Packs
      BY <2>1, <1>1 DEF LotsAreGranted, Shapes
    <2>3. taken[j] # 0 => shop'[j].state = "revoked"
      BY <2>1, <2>2, <1>2
    <2>4. \A n \in handled : sent'[n] = sent[n]
      BY <1>1, <1>4 DEF Shapes
    <2> QED
      BY <2>1, <2>3, <2>4, <1>1 DEF LotsAreTaken
  <1> QED
    BY <1>6, <1>7, <1>8, <1>9, <1>10 DEF IInv

LEMMA StoreStepInv ==
  ASSUME IInv, NEW i \in Items, StoreStep(i)
  PROVE  IInv'
  <1>1. /\ now \in Nat /\ shop[i] \in Holding /\ shop \in [Items -> Holding]
        /\ shop[i].end \in Nat /\ shop[i].until \in Nat
        /\ \A a \in Nat, b \in Nat : Later(a, b) \in Nat
    BY DEF IInv, Shapes, Holding, Later
  <1>2. \A st \in States, a \in Nat, b \in Nat :
          /\ [state |-> st, end |-> a, until |-> b] \in Holding
          /\ [state |-> st, end |-> a, until |-> b].state = st
    BY DEF Holding
  <1>3. /\ "none" \in States /\ "paid" \in States /\ "grace" \in States
        /\ "hold" \in States /\ "ended" \in States /\ "revoked" \in States
        /\ now + 1 \in Nat /\ now + Period \in Nat
        /\ Later(shop[i].end, now) + Period \in Nat
    <2>1. Later(shop[i].end, now) \in Nat
      BY <1>1
    <2>2. now + 1 \in Nat /\ now + Period \in Nat
      BY <1>1, Constants
    <2>3. Later(shop[i].end, now) + Period \in Nat
      BY <2>1, Constants
    <2> QED
      BY <2>2, <2>3 DEF States
  <1>4. CASE Buy(i) /\ i \in Packs
    <2>1. /\ shop' = [shop EXCEPT ![i] = [state |-> "paid", end |-> 0, until |-> 0]]
          /\ UNCHANGED <<now, server, sent>> /\ shop[i].state = "none"
      BY <1>4 DEF Buy, Move
    <2>2. [state |-> "paid", end |-> 0, until |-> 0] \in Holding
      BY <1>2, <1>3
    <2>3. Shapes' /\ JobShape' /\ LotsAreGranted' /\ FinishIsQueued'
      BY <1>1, <2>1, <2>2
         DEF IInv, Shapes, JobShape, LotsAreGranted, FinishIsQueued, server, purchases
    <2>4. /\ shop'[i].state = "paid"
          /\ \A j \in Items : j # i => shop'[j] = shop[j]
      BY <1>1, <2>1
    <2>5. PacksAreRefunded'
      BY <2>1, <2>4, Constants DEF IInv, PacksAreRefunded
    <2>6. LotsAreTaken'
      BY <2>1, <2>4 DEF IInv, LotsAreTaken, server, purchases
    <2> QED
      BY <2>3, <2>5, <2>6 DEF IInv
  <1>5. CASE Buy(i) /\ i \notin Packs
    <2>1. PICK h \in Holding :
            shop' = [shop EXCEPT ![i] = h] /\ Announce(i, "renewed")
            /\ UNCHANGED <<now, server>>
      BY <1>5, <1>2, <1>3 DEF Buy, Move
    <2> QED
      BY <1>5, <2>1, Announced DEF Announce, Kinds
  <1>6. CASE i \in Subs /\ Renew(i)
    <2>1. PICK h \in Holding :
            shop' = [shop EXCEPT ![i] = h] /\ Announce(i, "renewed")
            /\ UNCHANGED <<now, server>>
      BY <1>6, <1>2, <1>3 DEF Renew, Move
    <2> QED
      BY <1>6, <2>1, Announced, Constants DEF Announce, Kinds
  <1>7. CASE i \in Subs /\ FailToRenew(i)
    <2>1. PICK h \in Holding :
            /\ shop' = [shop EXCEPT ![i] = h]
            /\ Announce(i, "grace") \/ Announce(i, "hold")
            /\ UNCHANGED <<now, server>>
      BY <1>7, <1>1, <1>2, <1>3 DEF FailToRenew, Move
    <2> QED
      BY <1>7, <2>1, Announced, Constants DEF Announce, Kinds
  <1>8. CASE i \in Subs /\ Lapse(i)
    <2>1. PICK h \in Holding :
            shop' = [shop EXCEPT ![i] = h] /\ Announce(i, "ended")
            /\ UNCHANGED <<now, server>>
      BY <1>8, <1>1, <1>2, <1>3 DEF Lapse, Move
    <2> QED
      BY <1>8, <2>1, Announced, Constants DEF Announce, Kinds
  <1>9. CASE Refund(i)
    <2>1. PICK h \in Holding :
            /\ shop' = [shop EXCEPT ![i] = h] /\ h.state = "revoked"
            /\ Announce(i, "revoked") /\ UNCHANGED <<now, server>>
      BY <1>9, <1>1, <1>2, <1>3 DEF Refund, Move
    <2> QED
      BY <2>1, Announced DEF Announce, Kinds
  <1> QED
    BY <1>4, <1>5, <1>6, <1>7, <1>8, <1>9, StoreStep(i) DEF StoreStep

----------------------------------------------------------------------------
(* What a call may be about to do.                                             *)
LEMMA JobSteps ==
  ASSUME IInv, NEW c \in Calls
  PROVE  /\ job \in [Calls -> Job] /\ Idle \in Job /\ Idle.pc = "idle"
         /\ Return(c) => /\ job' \in [Calls -> Job]
                         /\ job'[c].pc = "idle"
                         /\ \A d \in Calls : d # c => job'[d] = job[d]
  <1>1. job \in [Calls -> Job]
    BY DEF IInv, Shapes
  <1>2. Idle \in Job /\ Idle.pc = "idle"
    BY DEF Job, Idle
  <1> QED
    BY <1>1, <1>2 DEF Return

LEMMA VerifyInv ==
  ASSUME IInv, NEW c \in Calls, NEW i \in Items, Verify(c, i)
  PROVE  IInv'
  <1> DEFINE j == [pc |-> IF i \in Packs THEN "grant" ELSE "activate",
                   item |-> i, note |-> 0, end |-> shop[i].end, at |-> Len(sent)]
  <1>1. /\ job \in [Calls -> Job] /\ shop[i] \in Holding
        /\ Len(sent) \in Nat /\ shop[i].end \in Nat
    BY LenProperties DEF IInv, Shapes, Holding
  <1>2. /\ job' = [job EXCEPT ![c] = j] /\ shop[i].state # "revoked"
        /\ UNCHANGED <<now, store, purchases, plan, handled, cache, slipped, manual>>
    BY DEF Verify
  <1>3. j \in Job
    BY <1>1 DEF Job
  <1>4. job' \in [Calls -> Job] /\ job'[c] = j
        /\ \A d \in Calls : d # c => job'[d] = job[d]
    BY <1>1, <1>2, <1>3
  <1>5. \A n \in 1 .. Len(sent) : i \in Packs => sent[n].item # i
    BY <1>2 DEF IInv, PacksAreRefunded
  <1>6. JobShape'
    <2> SUFFICES ASSUME NEW d \in Calls
                 PROVE  /\ job'[d].pc = "grant" =>
                             /\ job'[d].item \in Packs /\ job'[d].at <= Len(sent)
                             /\ \A n \in 1 .. Len(sent) :
                                  sent[n].item = job'[d].item => n > job'[d].at
                        /\ job'[d].pc = "activate" => job'[d].item \in Subs
                        /\ job'[d].pc \in {"apply", "stale"} =>
                             /\ job'[d].note \in 1 .. Len(sent)
                             /\ sent[job'[d].note].item \in Subs
                             /\ job'[d].item \in Subs
      BY <1>2 DEF JobShape, store
    <2>1. CASE d = c
      BY <2>1, <1>1, <1>4, <1>5, Constants
    <2>2. CASE d # c
      BY <2>2, <1>4 DEF IInv, JobShape
    <2> QED
      BY <2>1, <2>2
  <1> QED
    BY <1>2, <1>4, <1>6 DEF IInv, Shapes, PacksAreRefunded, LotsAreGranted,
       LotsAreTaken, FinishIsQueued, store, purchases

LEMMA GoogleReadInv ==
  ASSUME IInv, NEW c \in Calls, NEW n \in 1 .. Len(sent), GoogleRead(c, n)
  PROVE  IInv'
  <1>1. /\ job \in [Calls -> Job] /\ sent[n] \in Notice /\ sent[n].item \in Items
        /\ Len(sent) \in Nat /\ shop[sent[n].item].end \in Nat
    <2>1. /\ job \in [Calls -> Job] /\ sent \in Seq(Notice)
          /\ shop \in [Items -> Holding]
      BY DEF IInv, Shapes
    <2>2. Len(sent) \in Nat /\ sent[n] \in Notice
      BY <2>1, LenProperties, ElementOfSeq
    <2>3. sent[n].item \in Items
      BY <2>2 DEF Notice
    <2>4. shop[sent[n].item] \in Holding
      BY <2>1, <2>3
    <2> QED
      BY <2>1, <2>2, <2>3, <2>4 DEF Holding
  <1>2. PICK k \in {"stale", "apply"} :
          /\ job' = [job EXCEPT ![c] = [pc |-> k, item |-> sent[n].item, note |-> n,
                       end |-> shop[sent[n].item].end, at |-> Len(sent)]]
          /\ sent[n].item \in Subs
          /\ UNCHANGED <<now, store, purchases, plan, handled, cache, slipped, manual>>
    BY DEF GoogleRead
  <1>3. [pc |-> k, item |-> sent[n].item, note |-> n,
         end |-> shop[sent[n].item].end, at |-> Len(sent)] \in Job
    BY <1>1 DEF Job
  <1>4. /\ job' \in [Calls -> Job] /\ job'[c].pc = k /\ job'[c].note = n
        /\ job'[c].item = sent[n].item
        /\ \A d \in Calls : d # c => job'[d] = job[d]
    BY <1>1, <1>2, <1>3
  <1>5. JobShape'
    BY <1>2, <1>4 DEF IInv, JobShape, store
  <1> QED
    BY <1>2, <1>4, <1>5 DEF IInv, Shapes, PacksAreRefunded, LotsAreGranted,
       LotsAreTaken, FinishIsQueued, store, purchases

(* Recording a purchase: Google is told now, or the row in the outbox is there. *)
LEMMA Recorded ==
  ASSUME IInv, NEW i \in Items, RecordPurchase(i)
  PROVE  /\ bought' = bought \cup {i} /\ bought' \subseteq Items
         /\ queued' \subseteq Items /\ queued \subseteq queued'
         /\ finish' \in [Items -> {"none", "pending", "done"}]
         /\ FinishIsQueued'
  <1>1. /\ bought \subseteq Items /\ queued \subseteq Items
        /\ finish \in [Items -> {"none", "pending", "done"}] /\ FinishIsQueued
    BY DEF IInv, Shapes
  <1>2. /\ bought' = bought \cup {i}
        /\ queued' = IF i \in OnAndroid \ bought THEN queued \cup {i} ELSE queued
    BY DEF RecordPurchase
  <1>3. CASE finish' = finish
    BY <1>1, <1>2, <1>3 DEF FinishIsQueued
  <1>4. CASE finish' = [finish EXCEPT ![i] = "done"]
    BY <1>1, <1>2, <1>4 DEF FinishIsQueued
  <1>5. CASE i \in OnAndroid /\ finish' = [finish EXCEPT ![i] = IF i \in bought THEN @ ELSE "pending"]
    BY <1>1, <1>2, <1>5 DEF FinishIsQueued
  <1> QED
    BY <1>3, <1>4, <1>5, RecordPurchase(i), <1>1, <1>2 DEF RecordPurchase, FinishPurchase

LEMMA GrantInv ==
  ASSUME IInv, NEW c \in Calls, Grant(c)
  PROVE  IInv'
  <1> DEFINE i == job[c].item
  <1>1. /\ job[c].pc = "grant" /\ i \in Packs /\ i \in Items
        /\ \A n \in 1 .. Len(sent) : sent[n].item = i => n > job[c].at
    BY Constants DEF Grant, IInv, JobShape
  <1>2. /\ RecordPurchase(i) /\ Return(c)
        /\ lots' = IF i \notin bought THEN [lots EXCEPT ![i] = @ + 1] ELSE lots
        /\ slipped' = IF Overtaken(i, job[c].at, {"revoked"}) THEN slipped \cup {i} ELSE slipped
        /\ UNCHANGED <<now, store, taken, plan, handled, cache, manual>>
    BY DEF Grant
  <1>3. /\ bought' = bought \cup {i} /\ bought' \subseteq Items
        /\ queued' \subseteq Items
        /\ finish' \in [Items -> {"none", "pending", "done"}]
        /\ FinishIsQueued'
    BY <1>1, <1>2, Recorded
  <1>4. /\ job' \in [Calls -> Job] /\ job'[c].pc = "idle"
        /\ \A d \in Calls : d # c => job'[d] = job[d]
    BY <1>2, JobSteps
  <1>5. /\ lots \in [Items -> Nat] /\ LotsAreGranted /\ PacksAreRefunded /\ LotsAreTaken
        /\ handled \subseteq 1 .. Len(sent) /\ JobShape
    BY DEF IInv, Shapes
  <1>6. /\ lots' \in [Items -> Nat]
        /\ \A j \in Items : lots'[j] = IF j \in bought' \cap Packs THEN 1 ELSE 0
    BY <1>1, <1>2, <1>3, <1>5 DEF LotsAreGranted
  <1>7. Shapes'
    BY <1>2, <1>3, <1>4, <1>6 DEF IInv, Shapes, store
  <1>8. JobShape'
    BY <1>2, <1>4, <1>5 DEF JobShape, store
  <1>9. PacksAreRefunded' /\ LotsAreGranted'
    BY <1>2, <1>5, <1>6 DEF PacksAreRefunded, LotsAreGranted, store
  <1>10. LotsAreTaken'
    <2> SUFFICES ASSUME NEW j \in Items
                 PROVE  /\ taken[j] <= lots'[j]
                        /\ taken[j] # 0 => shop[j].state = "revoked"
                        /\ j \in bought' \cap Packs /\ j \notin slipped'
                             /\ (\E n \in handled : sent[n].item = j) => taken[j] = 1
      BY <1>2 DEF LotsAreTaken, store
    <2>1. lots[j] <= lots'[j] /\ lots[j] \in Nat /\ lots'[j] \in Nat /\ taken[j] \in Nat
      <3>1. lots[j] \in Nat /\ lots'[j] \in Nat /\ taken[j] \in Nat
        BY <1>5, <1>6 DEF IInv, Shapes
      <3>2. /\ lots[j] = IF j \in bought \cap Packs THEN 1 ELSE 0
            /\ lots'[j] = IF j \in bought' \cap Packs THEN 1 ELSE 0
        BY <1>5, <1>6 DEF LotsAreGranted
      <3>3. bought \subseteq bought'
        BY <1>3
      <3> QED
        BY <3>1, <3>2, <3>3
    <2>2. taken[j] <= lots'[j] /\ (taken[j] # 0 => shop[j].state = "revoked")
      BY <2>1, <1>5 DEF LotsAreTaken
    <2>3. ASSUME j \in bought' \cap Packs, j \notin slipped', NEW n \in handled, sent[n].item = j
          PROVE  taken[j] = 1
      <3>1. CASE j = i
        <4>1. n > job[c].at /\ sent[n].kind = "revoked"
          BY <3>1, <2>3, <1>1, <1>5 DEF PacksAreRefunded
        <4>2. Overtaken(i, job[c].at, {"revoked"})
          BY <4>1, <3>1, <2>3 DEF Overtaken
        <4> QED
          BY <4>2, <3>1, <2>3, <1>2
      <3>2. CASE j # i
        BY <3>2, <2>3, <1>2, <1>3, <1>5 DEF LotsAreTaken
      <3> QED
        BY <3>1, <3>2
    <2> QED
      BY <2>2, <2>3
  <1> QED
    BY <1>3, <1>7, <1>8, <1>9, <1>10 DEF IInv

LEMMA ActivateInv ==
  ASSUME IInv, NEW c \in Calls, Activate(c)
  PROVE  IInv'
  <1> DEFINE s == job[c].item
  <1>1. s \in Subs /\ s \in Items /\ s \notin Packs
    BY Constants DEF Activate, IInv, JobShape
  <1>2. /\ RecordPurchase(s) /\ Return(c) /\ slipped \subseteq slipped'
        /\ UNCHANGED <<now, store, lots, taken, handled, cache, manual>>
    BY DEF Activate
  <1>3. /\ bought' = bought \cup {s} /\ bought' \subseteq Items
        /\ queued' \subseteq Items
        /\ finish' \in [Items -> {"none", "pending", "done"}]
        /\ FinishIsQueued'
    BY <1>1, <1>2, Recorded
  <1>4. /\ job' \in [Calls -> Job] /\ job'[c].pc = "idle"
        /\ \A d \in Calls : d # c => job'[d] = job[d]
    BY <1>2, JobSteps
  <1>5. bought' \cap Packs = bought \cap Packs
    BY <1>1, <1>3
  <1>6. Shapes'
    BY <1>2, <1>3, <1>4 DEF IInv, Shapes, store
  <1>7. JobShape'
    BY <1>2, <1>4 DEF IInv, JobShape, store
  <1>8. PacksAreRefunded' /\ LotsAreGranted' /\ LotsAreTaken'
    BY <1>2, <1>5 DEF IInv, PacksAreRefunded, LotsAreGranted, LotsAreTaken, store
  <1> QED
    BY <1>3, <1>6, <1>7, <1>8 DEF IInv

LEMMA FinishQueuedInv ==
  ASSUME IInv, NEW i \in Items, FinishQueued(i)
  PROVE  IInv'
  <1>1. /\ queued' = queued \ {i}
        /\ finish' = IF finish[i] = "pending" THEN [finish EXCEPT ![i] = "done"] ELSE finish
        /\ UNCHANGED <<now, store, bought, lots, taken, plan, handled, cache, job,
                       slipped, manual>>
    BY DEF FinishQueued, FinishPurchase
  <1>2. /\ finish \in [Items -> {"none", "pending", "done"}] /\ queued \subseteq Items
        /\ FinishIsQueued
    BY DEF IInv, Shapes
  <1>3. /\ finish' \in [Items -> {"none", "pending", "done"}]
        /\ finish'[i] # "pending"
        /\ \A j \in Items : j # i => finish'[j] = finish[j]
    BY <1>1, <1>2
  <1>4. FinishIsQueued'
    BY <1>1, <1>2, <1>3 DEF FinishIsQueued
  <1> QED
    BY <1>1, <1>2, <1>3, <1>4 DEF IInv, Shapes, JobShape, PacksAreRefunded,
       LotsAreGranted, LotsAreTaken, store

----------------------------------------------------------------------------
(* Handling a notification.  The purchases stay what they are, and a pack's    *)
(* refund is only put aside where that is known, or where there is no lot.     *)
PutAside(n) ==
  /\ UNCHANGED <<now, shop, sent, purchases>>
  /\ handled' = handled \cup {n}
  /\ slipped \subseteq slipped'
  /\ sent[n].item \in Packs =>
       n \in handled \/ sent[n].item \notin bought \/ sent[n].item \in slipped'

LEMMA PutAsideInv ==
  ASSUME IInv, NEW n \in 1 .. Len(sent), PutAside(n), job' \in [Calls -> Job], JobShape'
  PROVE  IInv'
  <1>1. Shapes'
    BY DEF IInv, Shapes, PutAside, purchases
  <1>2. PacksAreRefunded' /\ LotsAreGranted' /\ FinishIsQueued'
    BY DEF IInv, PacksAreRefunded, LotsAreGranted, FinishIsQueued, PutAside, purchases
  <1>3. LotsAreTaken'
    BY DEF IInv, LotsAreTaken, PutAside, purchases
  <1> QED
    BY <1>1, <1>2, <1>3 DEF IInv

LEMMA RefundPackInv ==
  ASSUME IInv, NEW n \in 1 .. Len(sent), UNCHANGED <<now, store, job>>,
         sent[n].item \in Packs \cap bought, RefundPack(n, sent[n].item)
  PROVE  IInv'
  <1> DEFINE p == sent[n].item
  <1>1. /\ p \in Items /\ shop[p].state = "revoked" /\ lots[p] = 1
        /\ taken \in [Items -> Nat] /\ lots \in [Items -> Nat]
        /\ finish \in [Items -> {"none", "pending", "done"}]
        /\ \A i \in Items : taken[i] <= lots[i]
    BY Constants DEF IInv, Shapes, PacksAreRefunded, LotsAreGranted, LotsAreTaken
  <1>2. taken[p] \in {0, 1}
    BY <1>1
  <1>3. /\ handled' = handled \cup {n}
        /\ UNCHANGED <<bought, lots, queued, plan, slipped>>
    BY DEF RefundPack
  <1>4. /\ taken' \in [Items -> Nat] /\ taken'[p] = 1
        /\ \A i \in Items : i # p => taken'[i] = taken[i]
    BY <1>1, <1>2 DEF RefundPack, Revocable
  <1>5. /\ finish' \in [Items -> {"none", "pending", "done"}]
        /\ \A i \in Items : finish'[i] = "pending" => finish[i] = "pending"
    BY <1>1 DEF RefundPack, Revocable
  <1>6. Shapes'
    BY <1>3, <1>4, <1>5 DEF IInv, Shapes, store
  <1>7. JobShape' /\ PacksAreRefunded' /\ LotsAreGranted' /\ FinishIsQueued'
    BY <1>3, <1>5 DEF IInv, JobShape, PacksAreRefunded, LotsAreGranted, FinishIsQueued, store
  <1>8. LotsAreTaken'
    BY <1>1, <1>3, <1>4 DEF IInv, LotsAreTaken, store
  <1> QED
    BY <1>6, <1>7, <1>8 DEF IInv

LEMMA ApplyPutsAside ==
  ASSUME NEW n, NEW s \in Subs, NEW change, NEW late, sent[n].item \in Subs,
         UNCHANGED <<now, shop, sent>>, ApplySubscriptionChange(n, s, change, late)
  PROVE  PutAside(n)
  BY Constants DEF ApplySubscriptionChange, RecordOnly, PutAside, WriteSubscription

LEMMA NoticeInv ==
  ASSUME IInv, NEW n \in 1 .. Len(sent), AppleNotice(n) \/ GoogleRevoked(n)
  PROVE  IInv'
  <1>1. UNCHANGED <<now, store, job>> /\ job \in [Calls -> Job] /\ JobShape
    BY DEF AppleNotice, GoogleRevoked, IInv, Shapes
  <1>2. UNCHANGED <<now, shop, sent>> /\ job' \in [Calls -> Job] /\ JobShape'
    BY <1>1 DEF JobShape, store
  <1>3. sent[n].item \in Items
    <2>1. sent \in Seq(Notice)
      BY DEF IInv, Shapes
    <2>2. sent[n] \in Notice
      BY <2>1, ElementOfSeq
    <2> QED
      BY <2>2 DEF Notice
  <1>4. CASE sent[n].item \in Packs /\ sent[n].item \in bought /\ n \notin handled
    <2>1. \/ RefundPack(n, sent[n].item)
          \/ /\ handled' = handled \cup {n} /\ slipped' = slipped \cup {sent[n].item}
             /\ UNCHANGED purchases
      BY <1>4 DEF AppleNotice, GoogleRevoked
    <2>2. CASE RefundPack(n, sent[n].item)
      BY <2>2, <1>1, <1>4, RefundPackInv
    <2>3. CASE /\ handled' = handled \cup {n} /\ slipped' = slipped \cup {sent[n].item}
               /\ UNCHANGED purchases
      BY <2>3, <1>2, PutAsideInv DEF PutAside
    <2> QED
      BY <2>1, <2>2, <2>3
  <1>5. CASE sent[n].item \in Packs /\ ~ (sent[n].item \in bought /\ n \notin handled)
    <2>1. RecordOnly(n)
      BY <1>5 DEF AppleNotice, GoogleRevoked
    <2> QED
      BY <2>1, <1>2, <1>5, PutAsideInv DEF PutAside, RecordOnly
  <1>6. CASE sent[n].item \in Subs
    <2>1. \E change, late : ApplySubscriptionChange(n, sent[n].item, change, late)
      BY <1>6, Constants DEF AppleNotice, GoogleRevoked
    <2>2. PutAside(n)
      BY <2>1, <1>2, <1>6, ApplyPutsAside
    <2> QED
      BY <2>2, <1>2, PutAsideInv
  <1> QED
    BY <1>3, <1>4, <1>5, <1>6, Constants

LEMMA GoogleApplyInv ==
  ASSUME IInv, NEW c \in Calls, GoogleApply(c)
  PROVE  IInv'
  <1> DEFINE n == job[c].note
  <1>1. n \in 1 .. Len(sent) /\ sent[n].item \in Subs
    BY DEF GoogleApply, IInv, JobShape
  <1>2. Return(c) /\ UNCHANGED <<now, shop, sent>>
    BY DEF GoogleApply, store
  <1>3. job' \in [Calls -> Job] /\ JobShape'
    BY <1>2, JobSteps DEF IInv, JobShape
  <1>4. PutAside(n)
    <2>1. CASE RecordOnly(n)
      BY <2>1, <1>1, <1>2, Constants DEF RecordOnly, PutAside
    <2>2. CASE \E change, late : ApplySubscriptionChange(n, job[c].item, change, late)
      BY <2>2, <1>1, <1>2, Constants
         DEF ApplySubscriptionChange, RecordOnly, PutAside, WriteSubscription
    <2> QED
      BY <2>1, <2>2 DEF GoogleApply
  <1> QED
    BY <1>1, <1>3, <1>4, PutAsideInv

LEMMA FailInv ==
  ASSUME IInv, NEW c \in Calls, Fail(c)
  PROVE  IInv'
  <1>1. /\ Return(c)
        /\ UNCHANGED <<now, store, purchases, plan, handled, cache, slipped, manual>>
    BY DEF Fail
  <1>2. job' \in [Calls -> Job] /\ JobShape'
    BY <1>1, JobSteps DEF IInv, JobShape, store
  <1> QED
    BY <1>1, <1>2 DEF IInv, Shapes, PacksAreRefunded, LotsAreGranted, LotsAreTaken,
       FinishIsQueued, store, purchases

(* Time, an operator and the cache do not touch a purchase.                    *)
LEMMA ElsewhereInv ==
  ASSUME IInv, UNCHANGED <<shop, sent, purchases, handled, job, slipped>>, now' \in Nat
  PROVE  IInv'
  BY DEF IInv, Shapes, JobShape, PacksAreRefunded, LotsAreGranted, LotsAreTaken,
     FinishIsQueued, purchases

LEMMA NextInv == IInv /\ [Next]_vars => IInv'
  <1> SUFFICES ASSUME IInv, [Next]_vars PROVE IInv'
    OBVIOUS
  <1>0. now \in Nat
    BY DEF IInv, Shapes
  <1>1. CASE Tick \/ SetPlan \/ ClearPlan \/ \E e \in events : Deliver(e)
    <2>1. UNCHANGED <<shop, sent, purchases, handled, job, slipped>> /\ now' \in Nat
      BY <1>0, <1>1 DEF Tick, SetPlan, ClearPlan, Deliver, server, store
    <2> QED
      BY <2>1, ElsewhereInv
  <1>2. CASE \E i \in Items : StoreStep(i) \/ FinishQueued(i)
    BY <1>2, StoreStepInv, FinishQueuedInv
  <1>3. CASE \E c \in Calls : CallStep(c) \/ \E i \in Items : Verify(c, i)
    BY <1>3, GrantInv, ActivateInv, GoogleApplyInv, FailInv, VerifyInv DEF CallStep
  <1>4. CASE \E n \in 1 .. Len(sent) :
               AppleNotice(n) \/ GoogleRevoked(n) \/ \E c \in Calls : GoogleRead(c, n)
    BY <1>4, NoticeInv, GoogleReadInv
  <1>5. CASE UNCHANGED vars
    BY <1>0, <1>5, ElsewhereInv DEF vars, store, server
  <1> QED
    BY <1>1, <1>2, <1>3, <1>4, <1>5 DEF Next

----------------------------------------------------------------------------
LEMMA Settles == IInv => PurchasesSettleOnce
  <1> SUFFICES ASSUME IInv, NEW i \in Items
               PROVE  /\ lots[i] <= 1 /\ taken[i] <= lots[i]
                      /\ taken[i] = 1 => shop[i].state = "revoked"
                      /\ lots[i] = 1 /\ shop[i].state = "revoked" /\ Followed(i) => taken[i] = 1
                      /\ finish[i] = "pending" => i \in queued
    BY DEF PurchasesSettleOnce
  <1>1. /\ lots[i] = IF i \in bought \cap Packs THEN 1 ELSE 0
        /\ taken[i] <= lots[i] /\ (taken[i] # 0 => shop[i].state = "revoked")
        /\ finish[i] = "pending" => i \in queued
    BY DEF IInv, LotsAreGranted, LotsAreTaken, FinishIsQueued
  <1>2. ASSUME lots[i] = 1, shop[i].state = "revoked", Followed(i)
        PROVE  taken[i] = 1
    <2>1. i \in bought \cap Packs /\ i \notin slipped
      BY <1>1, <1>2 DEF Followed
    <2>2. PICK n \in 1 .. Len(sent) : sent[n].item = i
      BY <1>2, <2>1 DEF IInv, PacksAreRefunded
    <2>3. n \in handled
      BY <1>2, <2>2 DEF Followed
    <2> QED
      BY <2>1, <2>2, <2>3 DEF IInv, LotsAreTaken
  <1> QED
    BY <1>1, <1>2

(* A purchase is granted once and taken back once, only when it was refunded,  *)
(* and Google is told of it or will be (purchases.go, notifications.go).       *)
THEOREM SettlesOnce == Spec => []PurchasesSettleOnce
  <1>1. Spec => []IInv
    BY InitInv, NextInv, PTL DEF Spec
  <1> QED
    BY <1>1, Settles, PTL

----------------------------------------------------------------------------
(* The cache.                                                                  *)
Row == [of : Subs \cup {Nothing, Operator}, status : {"active", "grace", "lapsed"},
        end : Nat, grace : Nat]
Event == [on : BOOLEAN, at : Nat]

PlanShape ==
  /\ sub \in Row
  /\ clock \in Nat /\ events \subseteq Event /\ cache \in Event
  /\ \A e \in events : 0 < e.at /\ e.at <= clock
  /\ cache.at <= clock

(* While a plan applies, the newest event says so, and it is still to be       *)
(* delivered or is what the cache has.                                         *)
NewestSaysOn ==
  ~ manual /\ Entitled(sub) =>
    /\ 0 < clock
    /\ \A e \in events : e.at = clock => e.on = TRUE
    /\ cache.at = clock => cache.on = TRUE
    /\ cache.at = clock \/ \E e \in events : e.at = clock

CInv == PlanShape /\ NewestSaysOn

LEMMA InitCache == Init => CInv
  <1> SUFFICES ASSUME Init PROVE CInv
    OBVIOUS
  <1>1. PlanShape
    BY DEF Init, PlanShape, Row, Event
  <1>2. ~ Entitled(sub)
    BY DEF Init, Entitled
  <1> QED
    BY <1>1, <1>2 DEF CInv, NewestSaysOn

(* Whatever is written, an event follows from a change of what applies.        *)
LEMMA WrittenInv ==
  ASSUME CInv, NEW next \in Row, WriteSubscription(next),
         now' = now, UNCHANGED <<cache, manual>>
  PROVE  CInv'
  <1>1. /\ clock \in Nat /\ events \subseteq Event /\ cache \in Event
        /\ \A e \in events : e.at \in Nat /\ 0 < e.at /\ e.at <= clock
        /\ cache.at \in Nat /\ cache.at <= clock
    BY DEF CInv, PlanShape, Event
  <1>2. sub' = next /\ (Entitled(sub)' <=> Entitled(next))
    BY DEF WriteSubscription, Entitled
  <1>3. CASE Entitled(sub) = Entitled(next)
    <2>1. UNCHANGED <<events, clock>>
      BY <1>3 DEF WriteSubscription
    <2>2. PlanShape'
      BY <1>2, <2>1 DEF CInv, PlanShape
    <2>3. Entitled(sub)' => Entitled(sub)
      BY <1>2, <1>3 DEF Entitled
    <2>4. NewestSaysOn'
      BY <2>1, <2>3 DEF CInv, NewestSaysOn
    <2> QED
      BY <2>2, <2>4 DEF CInv
  <1>4. CASE Entitled(sub) # Entitled(next)
    <2> DEFINE new == [on |-> Entitled(next), at |-> clock + 1]
    <2>1. clock' = clock + 1 /\ events' = events \cup {new}
      BY <1>4 DEF WriteSubscription
    <2>2. new \in Event /\ new.at = clock + 1
      BY <1>1 DEF Event, Entitled
    <2>3. /\ clock' \in Nat /\ 0 < clock'
          /\ \A e \in events : e.at < clock'
          /\ cache.at < clock'
      BY <1>1, <2>1
    <2>4. /\ events' \subseteq Event
          /\ \A e \in events' : 0 < e.at /\ e.at <= clock'
      BY <1>1, <2>1, <2>2, <2>3
    <2>5. PlanShape'
      BY <1>1, <1>2, <2>3, <2>4 DEF PlanShape
    <2>6. Entitled(next) => new.on = TRUE
      BY DEF Entitled
    <2>7. NewestSaysOn'
      <3>1. \A e \in events' : e.at = clock' => e = new
        BY <1>1, <2>1, <2>3
      <3>2. cache'.at # clock'
        BY <1>1, <2>3
      <3>3. \E e \in events' : e.at = clock'
        BY <2>1, <2>2
      <3> QED
        BY <1>2, <2>3, <2>6, <3>1, <3>2, <3>3 DEF NewestSaysOn
    <2> QED
      BY <2>5, <2>7 DEF CInv
  <1> QED
    BY <1>3, <1>4

(* Time takes a plan away and gives none.                                      *)
LEMMA PlanRests ==
  ASSUME CInv, UNCHANGED <<sub, events, clock, cache, manual>>,
         now \in Nat, now' \in Nat, now <= now'
  PROVE  CInv'
  <1>1. PlanShape'
    BY DEF CInv, PlanShape
  <1>2. sub.end \in Nat /\ sub.grace \in Nat
    BY DEF CInv, PlanShape, Row
  <1>3. Entitled(sub)' => Entitled(sub)
    BY <1>2 DEF Entitled, Later
  <1>4. NewestSaysOn'
    BY <1>3 DEF CInv, NewestSaysOn
  <1> QED
    BY <1>1, <1>4 DEF CInv

(* A plan an operator writes is not the cache's concern.                       *)
LEMMA OperatorInv ==
  ASSUME CInv, SetPlan \/ ClearPlan, now \in Nat
  PROVE  CInv'
  <1>1. manual' = TRUE /\ sub' \in Row /\ UNCHANGED <<events, clock, cache>>
    BY Constants DEF SetPlan, ClearPlan, Row
  <1> QED
    BY <1>1 DEF CInv, PlanShape, NewestSaysOn

LEMMA DeliverInv ==
  ASSUME CInv, NEW d \in events, Deliver(d)
  PROVE  CInv'
  <1>1. /\ cache' = IF d.at > cache.at THEN d ELSE cache
        /\ events' = events \ {d} \/ events' = events
        /\ UNCHANGED <<now, sub, clock, manual>>
    BY DEF Deliver, Newer
  <1>2. /\ clock \in Nat /\ events \subseteq Event /\ cache \in Event
        /\ d.at \in Nat /\ d.at <= clock /\ cache.at \in Nat /\ cache.at <= clock
    BY DEF CInv, PlanShape, Event
  <1>3. PlanShape'
    BY <1>1, <1>2 DEF CInv, PlanShape
  <1>4. Entitled(sub)' <=> Entitled(sub)
    BY <1>1 DEF Entitled
  <1>5. NewestSaysOn'
    <2> SUFFICES ASSUME ~ manual, Entitled(sub)
                 PROVE  /\ 0 < clock
                        /\ \A e \in events' : e.at = clock => e.on = TRUE
                        /\ cache'.at = clock => cache'.on = TRUE
                        /\ cache'.at = clock \/ \E e \in events' : e.at = clock
      BY <1>1, <1>4 DEF NewestSaysOn
    <2>1. /\ 0 < clock
          /\ \A e \in events : e.at = clock => e.on = TRUE
          /\ cache.at = clock => cache.on = TRUE
          /\ cache.at = clock \/ \E e \in events : e.at = clock
      BY DEF CInv, NewestSaysOn
    <2>2. CASE d.at = clock
      BY <2>1, <2>2, <1>1, <1>2
    <2>3. CASE d.at # clock
      BY <2>1, <2>3, <1>1, <1>2
    <2> QED
      BY <2>2, <2>3
  <1> QED
    BY <1>3, <1>5 DEF CInv

Change == [status : {"active", "grace", "lapsed"}, end : Nat, grace : Nat, asOf : Nat]

LEMMA Changes ==
  /\ \A note \in Notice : AppleChange(note) \in Change
  /\ \A k \in Kinds, end \in Nat : GoogleChange(k, end) \in Change
  <1>1. ASSUME NEW note \in Notice PROVE AppleChange(note) \in Change
    BY Constants DEF AppleChange, Change, Notice
  <1>2. ASSUME NEW k \in Kinds, NEW end \in Nat PROVE GoogleChange(k, end) \in Change
    BY Constants DEF GoogleChange, Change
  <1> QED
    BY <1>1, <1>2

LEMMA ChangeInv ==
  ASSUME CInv, now \in Nat, NEW n, NEW s \in Subs, NEW change \in Change, NEW late,
         ApplySubscriptionChange(n, s, change, late), now' = now, UNCHANGED <<cache, manual>>
  PROVE  CInv'
  <1>1. CASE RecordOnly(n)
    BY <1>1, PlanRests DEF RecordOnly, plan
  <1>2. CASE ~ RecordOnly(n)
    <2> DEFINE next == [of |-> s, status |-> change.status,
              end |-> Later(sub.end, change.end),
              grace |-> IF change.grace # NoDate THEN change.grace
                        ELSE IF change.status = "grace" THEN sub.grace ELSE 0]
    <2>1. sub.end \in Nat /\ sub.grace \in Nat
      BY DEF CInv, PlanShape, Row
    <2>2. next \in Row
      BY <2>1 DEF Row, Change, Later
    <2>3. WriteSubscription(next)
      BY <1>2 DEF ApplySubscriptionChange
    <2> QED
      BY <2>2, <2>3, WrittenInv
  <1> QED
    BY <1>1, <1>2

LEMMA NoticeTypes ==
  ASSUME IInv
  PROVE  /\ now \in Nat
         /\ \A n \in 1 .. Len(sent) :
              /\ sent[n] \in Notice /\ sent[n].kind \in Kinds
              /\ sent[n].item \in Items
         /\ \A c \in Calls : job[c] \in Job /\ job[c].end \in Nat
  <1>1. now \in Nat /\ sent \in Seq(Notice) /\ job \in [Calls -> Job]
    BY DEF IInv, Shapes
  <1>2. \A n \in 1 .. Len(sent) : sent[n] \in Notice
    BY <1>1, ElementOfSeq
  <1> QED
    BY <1>1, <1>2 DEF Notice, Job

LEMMA NextCache == IInv /\ CInv /\ [Next]_vars => CInv'
  <1> SUFFICES ASSUME IInv, CInv, [Next]_vars PROVE CInv'
    OBVIOUS
  <1>0. now \in Nat
    BY NoticeTypes
  <1>1. CASE Tick
    BY <1>0, <1>1, PlanRests DEF Tick, server, plan
  <1>2. ASSUME NEW i \in Items, StoreStep(i) PROVE CInv'
    <2>1. now' = now /\ UNCHANGED server
      BY <1>2 DEF StoreStep, Buy, Refund, Renew, FailToRenew, Lapse
    <2> QED
      BY <2>1, <1>0, PlanRests DEF server, plan
  <1>3. ASSUME NEW i \in Items, FinishQueued(i) PROVE CInv'
    BY <1>0, <1>3, PlanRests DEF FinishQueued, plan
  <1>4. ASSUME NEW c \in Calls, Grant(c) \/ Fail(c) PROVE CInv'
    BY <1>0, <1>4, PlanRests DEF Grant, Fail, plan
  <1>5. ASSUME NEW c \in Calls, NEW i \in Items, Verify(c, i) PROVE CInv'
    BY <1>0, <1>5, PlanRests DEF Verify, plan
  <1>6. ASSUME NEW c \in Calls, Activate(c) PROVE CInv'
    <2> DEFINE next == [of |-> job[c].item, status |-> "active",
                        end |-> EndToStore(job[c].item, job[c].end), grace |-> 0]
    <2>1. job[c].item \in Subs /\ job[c].end \in Nat /\ sub.end \in Nat
      BY <1>6, NoticeTypes DEF Activate, IInv, JobShape, CInv, PlanShape, Row
    <2>2. next \in Row
      BY <2>1 DEF Row, EndToStore, Later
    <2> QED
      BY <1>6, <2>2, WrittenInv DEF Activate
  <1>7. ASSUME NEW n \in 1 .. Len(sent), AppleNotice(n) \/ GoogleRevoked(n) PROVE CInv'
    <2>1. now' = now /\ UNCHANGED <<cache, manual>>
      BY <1>7 DEF AppleNotice, GoogleRevoked
    <2>2. CASE sent[n].item \in Packs
      <3>1. UNCHANGED plan
        BY <1>7, <2>2 DEF AppleNotice, GoogleRevoked, RefundPack, RecordOnly
      <3> QED
        BY <3>1, <2>1, <1>0, PlanRests DEF plan
    <2>3. CASE sent[n].item \in Subs
      <3>1. \E change \in Change : \E late : ApplySubscriptionChange(n, sent[n].item, change, late)
        <4>1. AppleChange(sent[n]) \in Change /\ GoogleChange("revoked", NoDate) \in Change
          BY NoticeTypes, Changes, Constants DEF Kinds
        <4> QED
          BY <1>7, <2>3, <4>1, Constants DEF AppleNotice, GoogleRevoked
      <3> QED
        BY <3>1, <2>1, <2>3, <1>0, ChangeInv
    <2> QED
      BY <2>2, <2>3, NoticeTypes, Constants
  <1>8. ASSUME NEW n \in 1 .. Len(sent), NEW c \in Calls, GoogleRead(c, n) PROVE CInv'
    BY <1>0, <1>8, PlanRests DEF GoogleRead, plan
  <1>9. ASSUME NEW c \in Calls, GoogleApply(c) PROVE CInv'
    <2>1. now' = now /\ UNCHANGED <<cache, manual>>
      BY <1>9 DEF GoogleApply
    <2>2. CASE RecordOnly(job[c].note)
      BY <2>1, <2>2, <1>0, PlanRests DEF RecordOnly, plan
    <2>3. CASE ~ RecordOnly(job[c].note)
      <3> DEFINE n == job[c].note
      <3>1. n \in 1 .. Len(sent) /\ job[c].pc = "apply"
        BY <1>9, <2>3 DEF GoogleApply, IInv, JobShape
      <3>2. GoogleChange(sent[n].kind, job[c].end) \in Change
        BY <3>1, NoticeTypes, Changes
      <3>3. \E late : ApplySubscriptionChange(n, job[c].item,
                        GoogleChange(sent[n].kind, job[c].end), late)
        BY <1>9, <2>3 DEF GoogleApply
      <3>4. job[c].item \in Subs
        BY <3>1 DEF IInv, JobShape
      <3> QED
        BY <3>2, <3>3, <3>4, <2>1, <1>0, ChangeInv
    <2> QED
      BY <2>2, <2>3
  <1>10. CASE SetPlan \/ ClearPlan
    BY <1>0, <1>10, OperatorInv
  <1>11. CASE \E d \in events : Deliver(d)
    BY <1>11, DeliverInv
  <1>12. CASE UNCHANGED vars
    BY <1>0, <1>12, PlanRests DEF vars, server, plan
  <1> QED
    BY <1>1, <1>2, <1>3, <1>4, <1>5, <1>6, <1>7, <1>8, <1>9, <1>10, <1>11, <1>12
       DEF Next, CallStep

(* When the outbox has delivered every event, in whatever order and however    *)
(* often, no plan that applies is denied (subscription_cache.sql).             *)
THEOREM PlansAreNotDenied == Spec => []CacheNeverDenies
  <1>1. IInv /\ CInv => CacheNeverDenies
    <2> SUFFICES ASSUME CInv, events = {}, ~ manual, Entitled(sub) PROVE cache.on
      BY DEF CacheNeverDenies
    <2>1. cache.at = clock
      BY DEF CInv, NewestSaysOn
    <2> QED
      BY <2>1 DEF CInv, NewestSaysOn
  <1>2. Init => IInv /\ CInv
    BY InitInv, InitCache
  <1>3. IInv /\ CInv /\ [Next]_vars => (IInv /\ CInv)'
    BY NextInv, NextCache
  <1>4. Spec => [](IInv /\ CInv)
    BY <1>2, <1>3, PTL DEF Spec
  <1> QED
    BY <1>1, <1>4, PTL

----------------------------------------------------------------------------
(* Following the store.  The invariant says what the store says of each        *)
(* subscription, what the calls under way have read of it, and what the row    *)
(* that was written from it has.                                               *)
(* The notifications about s, and the newest of them.                          *)
Of(s) == {n \in 1 .. Len(sent) : sent[n].item = s}
Newest(s, n) == n \in Of(s) /\ \A m \in Of(s) : m <= n
Heard(s) == \E n \in handled : Newest(s, n)

(* The state a notification of this kind announces.                            *)
Announces(kind) == IF kind = "renewed" THEN "paid" ELSE kind

(* Google's refund: the end of the period goes back, for good.                 *)
Gone(s) == s \in OnAndroid /\ shop[s].state = "revoked"

(* Notifications from which the end of a period is taken over.                 *)
Extends(n) ==
  \/ sent[n].kind = "renewed"
  \/ sent[n].kind = "grace" /\ sent[n].item \in OnAndroid

(* What the store says of s is what it said last, and each period ends later   *)
(* than those before it.                                                       *)
StoreTells(s) ==
  /\ shop[s].state = "none" => Of(s) = {}
  /\ shop[s].state # "none" => \E n \in Of(s) :
       /\ Newest(s, n) /\ Announces(sent[n].kind) = shop[s].state
       /\ s \notin OnAndroid => sent[n].end = shop[s].end
  /\ ~ Gone(s) => \A n \in Of(s) : sent[n].end <= shop[s].end
  /\ s \in OnAndroid /\ (\E n \in Of(s) : sent[n].kind = "revoked") => Gone(s)
  /\ shop[s].state \in {"paid", "grace"} \/ (shop[s].state # "none" /\ s \notin OnAndroid) =>
       \E n \in Of(s) : Extends(n) /\ sent[n].end = shop[s].end

(* Access ends with the period, but for Apple's days of grace.                 *)
StoreDates(s) ==
  /\ shop[s].state \in {"hold", "ended"} => shop[s].end <= now
  /\ shop[s].state \in {"paid", "hold"} => shop[s].until = shop[s].end
  /\ shop[s].state = "grace" /\ s \in OnAndroid => shop[s].until = shop[s].end
  /\ shop[s].state = "grace" /\ s \notin OnAndroid => shop[s].end <= now
  /\ shop[s].state = "ended" => shop[s].until <= now

(* What Apple has told of the period that is running.                          *)
PeriodTold(s) ==
  s \notin OnAndroid => \A n \in Of(s) :
    /\ sent[n].end # 0 /\ (sent[n].kind = "grace" => sent[n].until # 0)
    /\ sent[n].end = shop[s].end =>
         /\ shop[s].state = "paid" => sent[n].kind = "renewed"
         /\ shop[s].state = "grace" => sent[n].kind \in {"renewed", "grace"}
         /\ shop[s].state = "hold" => sent[n].kind \in {"renewed", "hold"}
         /\ shop[s].state = "ended" => sent[n].kind # "revoked"
         /\ sent[n].kind = "grace" /\ shop[s].state \in {"grace", "ended"} =>
              sent[n].until = shop[s].until

(* What a call has read of s was so when it read it.                           *)
ReadAt(c, s) ==
  LET j == job[c] IN
  /\ j.pc \in {"activate", "apply"} =>
       /\ shop[s].state # "none"
       /\ ~ Gone(s) => /\ j.end <= shop[s].end
                       /\ \A n \in Of(s) : n <= j.at /\ Extends(n) => sent[n].end <= j.end
  /\ j.pc = "activate" /\ (\A m \in Of(s) : m <= j.at) =>
       shop[s].state # "revoked" /\ (shop[s].state = "grace" => s \in OnAndroid)
  /\ j.pc \in {"apply", "stale"} =>
       s \in OnAndroid /\ j.note \in Of(s) /\ j.note <= j.at /\ sent[j.note].kind # "revoked"
  /\ j.pc = "stale" => sent[j.note].kind \in {"hold", "ended"}
  /\ j.pc = "apply" /\ sent[j.note].kind \in {"hold", "ended"}
       /\ (\A m \in Of(s) : m <= j.at) => shop[s].end <= now

(* The row that follows s: its dates are the store's ...                       *)
DatesFollow(s) ==
  /\ s \in bought /\ shop[s].state # "none"
  /\ ~ Gone(s) => sub.end <= shop[s].end
  /\ s \in OnAndroid => sub.grace <= sub.end
  /\ s \notin OnAndroid /\ sub.status = "grace" =>
       \E n \in handled \cap Of(s) :
         sent[n].kind = "grace" /\ sent[n].until = sub.grace /\ sub.end <= sent[n].end

(* ... and so is its status, when what it was taken from is the newest.        *)
StatusFollows(s) ==
  /\ ~ Gone(s) => \A n \in handled \cap Of(s) : Extends(n) => sent[n].end <= sub.end
  /\ s \in OnAndroid /\ Heard(s) /\ shop[s].state \in {"paid", "grace"}
       /\ now < shop[s].end => sub.status # "lapsed"
  /\ s \notin OnAndroid /\ shop[s].state = "paid" /\ sub.end = shop[s].end =>
       sub.status = "active"
  /\ s \notin OnAndroid /\ Heard(s) /\ shop[s].state = "grace" /\ sub.end = shop[s].end =>
       sub.status = "grace"
  /\ Heard(s) /\ shop[s].state = "revoked" /\ (s \in OnAndroid \/ sub.end = shop[s].end) =>
       sub.status = "lapsed"

StoreKnown(s) == StoreTells(s) /\ StoreDates(s) /\ PeriodTold(s)
RowFollows(s) == sub.of = s => DatesFollow(s) /\ (s \notin slipped => StatusFollows(s))

SInv ==
  \A s \in Subs :
    /\ StoreKnown(s)
    /\ \A c \in Calls : job[c].item = s => ReadAt(c, s) /\ job[c].at <= Len(sent)
    /\ RowFollows(s)

----------------------------------------------------------------------------
LEMMA Dated ==
  ASSUME IInv, CInv, NEW s \in Subs
  PROVE  /\ s \in Items /\ s \notin Packs
         /\ now \in Nat /\ Len(sent) \in Nat /\ handled \subseteq 1 .. Len(sent)
         /\ shop[s] \in Holding /\ shop[s].end \in Nat /\ shop[s].until \in Nat
         /\ shop[s].state \in States
         /\ \A n \in Of(s) :
              /\ n \in 1 .. Len(sent) /\ n \in Nat /\ n <= Len(sent)
              /\ sent[n].item = s /\ sent[n].kind \in Kinds
              /\ sent[n].end \in Nat /\ sent[n].until \in Nat
         /\ sub \in Row /\ sub.end \in Nat /\ sub.grace \in Nat
         /\ sub.status \in {"active", "grace", "lapsed"}
  <1>1. s \in Items /\ s \notin Packs
    BY Constants
  <1>2. /\ now \in Nat /\ sent \in Seq(Notice) /\ shop \in [Items -> Holding]
        /\ handled \subseteq 1 .. Len(sent)
    BY DEF IInv, Shapes
  <1>3. shop[s] \in Holding
    BY <1>1, <1>2
  <1>4. Len(sent) \in Nat
    BY <1>2, LenProperties
  <1>5. \A n \in 1 .. Len(sent) : sent[n] \in Notice
    BY <1>2, ElementOfSeq
  <1>6. \A n \in Of(s) : n \in 1 .. Len(sent) /\ sent[n].item = s
    BY DEF Of
  <1>7. sub \in Row
    BY DEF CInv, PlanShape
  <1>8. \A n \in Of(s) :
          /\ n \in 1 .. Len(sent) /\ n \in Nat /\ n <= Len(sent)
          /\ sent[n].item = s /\ sent[n].kind \in Kinds
          /\ sent[n].end \in Nat /\ sent[n].until \in Nat
    BY <1>4, <1>5, <1>6 DEF Notice
  <1>9. shop[s].end \in Nat /\ shop[s].until \in Nat /\ shop[s].state \in States
    BY <1>3 DEF Holding
  <1> QED
    BY <1>1, <1>2, <1>3, <1>4, <1>7, <1>8, <1>9 DEF Row

(* There is one newest notification.                                           *)
LEMMA OneNewest ==
  ASSUME IInv, CInv, NEW s \in Subs, NEW n, NEW m, Newest(s, n), Newest(s, m)
  PROVE  n = m
  <1>1. n \in Nat /\ m \in Nat /\ n <= m /\ m <= n
    BY Dated DEF Newest
  <1> QED
    BY <1>1

----------------------------------------------------------------------------
(* What a step does to what the store says of s: nothing, ...                  *)
Quiet(s) ==
  /\ shop'[s] = shop[s] /\ now <= now' /\ now' \in Nat /\ Len(sent) <= Len(sent')
  /\ Of(s)' = Of(s) /\ \A n \in Of(s) : sent'[n] = sent[n]

(* ... or it moves on, and says so.                                            *)
Spoke(s) ==
  /\ now' = now /\ Len(sent') = Len(sent) + 1
  /\ Of(s)' = Of(s) \cup {Len(sent) + 1}
  /\ sent'[Len(sent) + 1].item = s
  /\ \A n \in Of(s) : sent'[n] = sent[n]
  /\ ~ Gone(s) /\ shop'[s].state # "none"
  /\ shop'[s].end \in Nat
  /\ shop[s].end <= shop'[s].end \/ Gone(s)' \/ shop[s].state = "none"
  /\ shop'[s].state = "paid" => shop[s].state = "none" \/ shop[s].end < shop'[s].end

LEMMA StoreRests ==
  ASSUME IInv, CInv, NEW s \in Subs, StoreKnown(s), Quiet(s)
  PROVE  StoreKnown(s)'
  <1>0. /\ now \in Nat /\ now' \in Nat /\ now <= now' /\ shop'[s] = shop[s]
        /\ shop[s].end \in Nat /\ shop[s].until \in Nat
        /\ Of(s)' = Of(s) /\ \A n \in Of(s) : sent'[n] = sent[n]
    BY Dated DEF Quiet
  <1>1. StoreTells(s)'
    BY <1>0 DEF StoreKnown, StoreTells, Newest, Gone, Extends
  <1>2. StoreDates(s)'
    BY <1>0 DEF StoreKnown, StoreDates
  <1>3. PeriodTold(s)'
    BY <1>0 DEF StoreKnown, PeriodTold
  <1> QED
    BY <1>1, <1>2, <1>3 DEF StoreKnown

(* What the store says when s moves on: its state and dates, one after all     *)
(* that it has said.                                                           *)
Says(s, h, k) ==
  /\ shop'[s] = h
  /\ Len(sent') = Len(sent) + 1
  /\ Of(s)' = Of(s) \cup {Len(sent) + 1}
  /\ \A n \in Of(s) : sent'[n] = sent[n]
  /\ sent'[Len(sent) + 1].item = s /\ sent'[Len(sent) + 1].kind = k
  /\ sent'[Len(sent) + 1].end = h.end /\ sent'[Len(sent) + 1].until = h.until
  /\ \A t \in Subs : t # s => /\ shop'[t] = shop[t] /\ Of(t)' = Of(t)
                              /\ \A n \in Of(t) : sent'[n] = sent[n]

LEMMA Said ==
  ASSUME IInv, CInv, NEW s \in Items, NEW h \in Holding, NEW k \in Kinds,
         shop' = [shop EXCEPT ![s] = h],
         sent' = Append(sent, [item |-> s, kind |-> k,
                               end |-> shop'[s].end, until |-> shop'[s].until])
  PROVE  Says(s, h, k)
  <1> DEFINE e == [item |-> s, kind |-> k, end |-> h.end, until |-> h.until]
  <1>1. shop \in [Items -> Holding] /\ Shapes
    BY DEF IInv, Shapes
  <1>2. shop'[s] = h /\ \A t \in Subs : t # s => shop'[t] = shop[t]
    BY <1>1, Constants
  <1>3. e \in Notice /\ sent' = Append(sent, e)
    BY <1>1, <1>2 DEF Notice, Holding
  <1>4. /\ Len(sent') = Len(sent) + 1 /\ Len(sent) \in Nat
        /\ \A n \in 1 .. Len(sent) : sent'[n] = sent[n]
        /\ sent'[Len(sent) + 1] = e
        /\ 1 .. Len(sent') = (1 .. Len(sent)) \cup {Len(sent) + 1}
    BY <1>1, <1>3, OneMore
  <1>5. \A t \in Items : \A n \in Of(t) : sent'[n] = sent[n]
    BY <1>4 DEF Of
  <1>6. e.item = s /\ e.kind = k /\ e.end = h.end /\ e.until = h.until
    OBVIOUS
  <1> HIDE DEF e
  <1>7. Of(s)' = Of(s) \cup {Len(sent) + 1}
    BY <1>4, <1>6 DEF Of
  <1>8. \A t \in Subs : t # s => Of(t)' = Of(t)
    <2> SUFFICES ASSUME NEW t \in Subs, t # s
                 PROVE  {n \in 1 .. Len(sent') : sent'[n].item = t}
                          = {n \in 1 .. Len(sent) : sent[n].item = t}
      BY DEF Of
    <2> QED
      BY <1>4, <1>6
  <1>9. /\ sent'[Len(sent) + 1].item = s /\ sent'[Len(sent) + 1].kind = k
        /\ sent'[Len(sent) + 1].end = h.end /\ sent'[Len(sent) + 1].until = h.until
    BY <1>4, <1>6
  <1>10. /\ \A n \in Of(s) : sent'[n] = sent[n]
         /\ \A t \in Subs : \A n \in Of(t) : sent'[n] = sent[n]
    BY <1>5, Constants
  <1> QED
    BY <1>2, <1>4, <1>7, <1>8, <1>9, <1>10 DEF Says

(* Where a subscription can go from where it is, and with which dates.         *)
Moves(s, k, h) ==
  /\ h.state = Announces(k)
  /\ CASE k = "renewed" ->
            /\ ~ Gone(s) /\ h.until = h.end /\ h.end # 0
            /\ shop[s].state = "none" \/ shop[s].end < h.end
       [] k = "grace" ->
            /\ shop[s].state = "paid" /\ shop[s].end <= now /\ h.until = now + 1
            /\ h.end = IF s \in OnAndroid THEN now + 1 ELSE shop[s].end
       [] k = "hold" ->
            /\ shop[s].state = "paid" /\ shop[s].end <= now
            /\ h.end = shop[s].end /\ h.until = h.end
       [] k = "ended" ->
            /\ shop[s].state \in {"paid", "grace", "hold"}
            /\ h.end = shop[s].end /\ h.until = shop[s].until /\ shop[s].until <= now
       [] k = "revoked" ->
            /\ shop[s].state \in {"paid", "grace", "hold"}
            /\ s \notin OnAndroid => h.end = shop[s].end

LEMMA StoreMoves ==
  ASSUME IInv, CInv, NEW s \in Subs, StoreKnown(s), now' = now,
         NEW h \in Holding, NEW k \in Kinds, Moves(s, k, h),
         shop' = [shop EXCEPT ![s] = h],
         sent' = Append(sent, [item |-> s, kind |-> k,
                               end |-> shop'[s].end, until |-> shop'[s].until])
  PROVE  StoreKnown(s)' /\ Spoke(s)
  <1> PICK N : N = Len(sent) + 1
    OBVIOUS
  <1>0. /\ now \in Nat /\ Len(sent) \in Nat /\ N \in Nat
        /\ shop[s].end \in Nat /\ shop[s].until \in Nat /\ h.end \in Nat /\ h.until \in Nat
        /\ \A n \in Of(s) :
              /\ n \in Nat /\ n < N
              /\ sent[n].item = s /\ sent[n].kind \in Kinds
              /\ sent[n].end \in Nat /\ sent[n].until \in Nat
    BY Dated DEF Holding
  <1>1. /\ shop'[s] = h
        /\ Len(sent') = N
        /\ Of(s)' = Of(s) \cup {N}
        /\ \A n \in Of(s) : sent'[n] = sent[n]
        /\ sent'[N].item = s /\ sent'[N].kind = k
        /\ sent'[N].end = h.end /\ sent'[N].until = h.until
    <2>1. s \in Items
      BY Constants
    <2>2. Says(s, h, k)
      BY <2>1, Said
    <2> QED
      BY <2>2 DEF Says
  <1>2. StoreTells(s) /\ StoreDates(s) /\ PeriodTold(s)
    BY DEF StoreKnown
  <1>3. shop[s].state = "none" => Of(s) = {}
    BY <1>2 DEF StoreTells
  <1>4. /\ h.state = "revoked" <=> k = "revoked"
        /\ h.state = "paid" <=> k = "renewed"
        /\ h.state = "grace" <=> k = "grace"
        /\ h.state = "hold" <=> k = "hold"
        /\ h.state = "ended" <=> k = "ended"
        /\ h.state # "none" /\ h.state = Announces(k)
    BY DEF Moves, Announces, Kinds
  <1>5. /\ ~ Gone(s)
        /\ shop[s].end <= h.end \/ (k = "revoked" /\ s \in OnAndroid) \/ shop[s].state = "none"
        /\ k = "renewed" => shop[s].state = "none" \/ shop[s].end < h.end
    <2>1. CASE k = "renewed"
      BY <2>1, <1>0 DEF Moves
    <2>2. CASE k = "grace"
      BY <2>2, <1>0 DEF Moves, Gone
    <2>3. CASE k = "hold"
      BY <2>3, <1>0 DEF Moves, Gone
    <2>4. CASE k = "ended"
      BY <2>4, <1>0 DEF Moves, Gone
    <2>5. CASE k = "revoked"
      BY <2>5, <1>0 DEF Moves, Gone
    <2> QED
      BY <2>1, <2>2, <2>3, <2>4, <2>5 DEF Kinds
  <1>6. ~ Gone(s)' => \A n \in Of(s) : sent[n].end <= h.end
    <2> SUFFICES ASSUME ~ Gone(s)', NEW n \in Of(s) PROVE sent[n].end <= h.end
      OBVIOUS
    <2>1. sent[n].end <= shop[s].end /\ shop[s].state # "none"
      BY <1>2, <1>5 DEF StoreTells
    <2>2. ~ (k = "revoked" /\ s \in OnAndroid)
      BY <1>1, <1>4 DEF Gone
    <2> QED
      BY <1>0, <1>5, <2>1, <2>2
  <1>7. Newest(s, N)' /\ N \in Of(s)'
    BY <1>0, <1>1 DEF Newest
  <1>8. StoreTells(s)'
    <2>1. (\E n \in Of(s)' : sent'[n].kind = "revoked") /\ s \in OnAndroid => Gone(s)'
      <3>1. ~ (s \in OnAndroid /\ \E n \in Of(s) : sent[n].kind = "revoked")
        BY <1>2, <1>5 DEF StoreTells
      <3> QED
        BY <1>1, <1>4, <3>1 DEF Gone
    <2>2. ~ Gone(s)' => \A n \in Of(s)' : sent'[n].end <= shop'[s].end
      <3>1. \A n \in Of(s) : sent'[n].end = sent[n].end
        BY <1>1
      <3>2. shop'[s].end = h.end /\ sent'[N].end = h.end /\ h.end <= h.end
        BY <1>0, <1>1
      <3>3. Of(s)' = Of(s) \cup {N}
        BY <1>1
      <3> QED
        BY <1>6, <3>1, <3>2, <3>3
    <2>3. /\ shop'[s].state \in {"paid", "grace"} \/ (shop'[s].state # "none" /\ s \notin OnAndroid)
          => \E n \in Of(s)' : Extends(n)' /\ sent'[n].end = shop'[s].end
      <3>1. CASE k = "renewed" \/ (k = "grace" /\ s \in OnAndroid)
        BY <3>1, <1>1, <1>7 DEF Extends
      <3>2. CASE ~ (k = "renewed" \/ (k = "grace" /\ s \in OnAndroid))
        <4> SUFFICES ASSUME s \notin OnAndroid
                     PROVE \E n \in Of(s)' : Extends(n)' /\ sent'[n].end = shop'[s].end
          BY <1>1, <1>4, <3>2
        <4>1. h.end = shop[s].end /\ shop[s].state # "none"
          BY <3>2 DEF Moves, Kinds
        <4>2. PICK n \in Of(s) : Extends(n) /\ sent[n].end = shop[s].end
          BY <1>2, <4>1 DEF StoreTells
        <4>3. n \in Of(s)' /\ sent'[n] = sent[n] /\ shop'[s].end = h.end
          BY <1>1
        <4>4. Extends(n)'
          BY <4>2, <4>3 DEF Extends
        <4> QED
          BY <4>1, <4>2, <4>3, <4>4
      <3> QED
        BY <3>1, <3>2
    <2>4. Announces(sent'[N].kind) = shop'[s].state
      BY <1>1, <1>4
    <2> QED
      BY <1>1, <1>4, <1>7, <2>1, <2>2, <2>3, <2>4 DEF StoreTells, Announces
  <1>9. StoreDates(s)'
    BY <1>0, <1>1, <1>2, <1>4 DEF StoreDates, Moves, Kinds
  <1>10. PeriodTold(s)'
    <2> SUFFICES ASSUME s \notin OnAndroid, NEW n \in Of(s)'
                 PROVE  /\ sent'[n].end # 0
                        /\ sent'[n].kind = "grace" => sent'[n].until # 0
                        /\ sent'[n].end = h.end =>
                             /\ k = "renewed" => sent'[n].kind = "renewed"
                             /\ k = "grace" => sent'[n].kind \in {"renewed", "grace"}
                             /\ k = "hold" => sent'[n].kind \in {"renewed", "hold"}
                             /\ k = "ended" => sent'[n].kind # "revoked"
                             /\ sent'[n].kind = "grace" /\ k \in {"grace", "ended"} =>
                                  sent'[n].until = h.until
      <3>1. shop'[s] = h
        BY <1>1
      <3> QED
        BY <3>1, <1>4 DEF PeriodTold
    <2>1. CASE n = N
      <3>1. sent'[n].kind = k /\ sent'[n].until = h.until
        BY <2>1, <1>1
      <3>2. k = "grace" => h.until # 0
        BY <1>0 DEF Moves
      <3>3. h.end # 0
        <4>1. CASE k = "renewed"
          BY <4>1 DEF Moves
        <4>2. CASE k # "renewed"
          <5>1. h.end = shop[s].end /\ shop[s].state # "none"
            BY <4>2 DEF Moves, Kinds
          <5>2. PICK m \in Of(s) : sent[m].end = shop[s].end
            BY <1>2, <5>1 DEF StoreTells
          <5> QED
            BY <1>2, <5>1, <5>2 DEF PeriodTold
        <4> QED
          BY <4>1, <4>2
      <3>4. sent'[n].end = h.end
        BY <2>1, <1>1
      <3> QED
        BY <3>1, <3>2, <3>3, <3>4
    <2>2. CASE n \in Of(s) /\ k = "renewed"
      <3>1. sent'[n] = sent[n] /\ shop[s].state # "none"
        BY <2>2, <1>1, <1>3
      <3>2. sent[n].end <= shop[s].end /\ shop[s].end < h.end
        BY <2>2, <3>1, <1>2, <1>5 DEF StoreTells
      <3>3. sent[n].end # h.end
        BY <2>2, <3>2, <1>0
      <3>4. sent[n].end # 0 /\ (sent[n].kind = "grace" => sent[n].until # 0)
        BY <2>2, <1>2 DEF PeriodTold
      <3> QED
        BY <3>1, <3>3, <3>4
    <2>3. CASE n \in Of(s) /\ k # "renewed"
      <3>1. h.end = shop[s].end /\ shop[s].state # "none"
        BY <2>3 DEF Moves, Kinds
      <3>2. /\ sent'[n] = sent[n] /\ sent[n].end # 0
            /\ sent[n].kind = "grace" => sent[n].until # 0
            /\ sent[n].end = shop[s].end =>
                 /\ shop[s].state = "paid" => sent[n].kind = "renewed"
                 /\ shop[s].state = "grace" => sent[n].kind \in {"renewed", "grace"}
                 /\ shop[s].state = "hold" => sent[n].kind \in {"renewed", "hold"}
                 /\ sent[n].kind = "grace" /\ shop[s].state \in {"grace", "ended"} =>
                              sent[n].until = shop[s].until
        BY <2>3, <1>1, <1>2 DEF PeriodTold
      <3> QED
        BY <2>3, <3>1, <3>2 DEF Moves, Kinds
    <2> QED
      BY <1>1, <2>1, <2>2, <2>3
  <1>11. Spoke(s)
    <2>1. shop[s].end <= h.end \/ Gone(s)' \/ shop[s].state = "none"
      BY <1>1, <1>4, <1>5 DEF Gone
    <2> QED
      BY <1>0, <1>1, <1>4, <1>5, <2>1 DEF Spoke
  <1> QED
    BY <1>8, <1>9, <1>10, <1>11 DEF StoreKnown

(* The store says one thing about one purchase.                                *)
LEMMA Turned ==
  ASSUME IInv, CInv, NEW i \in Items, StoreStep(i), \A s \in Subs : StoreKnown(s)
  PROVE  /\ UNCHANGED server /\ now' = now
         /\ \E h \in Holding :
              /\ shop' = [shop EXCEPT ![i] = h]
              /\ \/ i \in Packs /\ sent' = sent
                 \/ \E k \in Kinds :
                      /\ sent' = Append(sent, [item |-> i, kind |-> k,
                                           end |-> shop'[i].end, until |-> shop'[i].until])
                      /\ i \in Subs => Moves(i, k, h)
  <1>0. UNCHANGED server /\ now' = now
    BY DEF StoreStep, Buy, Refund, Renew, FailToRenew, Lapse
  <1>1. /\ now \in Nat /\ shop[i] \in Holding /\ shop \in [Items -> Holding]
        /\ shop[i].end \in Nat /\ shop[i].until \in Nat
        /\ Period \in Nat /\ 0 < Period
    BY PurchasesAssumption DEF IInv, Shapes, Holding
  <1>2. \A st \in States, a \in Nat, b \in Nat :
          /\ [state |-> st, end |-> a, until |-> b] \in Holding
          /\ [state |-> st, end |-> a, until |-> b].state = st
          /\ [state |-> st, end |-> a, until |-> b].end = a
          /\ [state |-> st, end |-> a, until |-> b].until = b
    BY DEF Holding
  <1>3. i \in Packs <=> i \notin Subs
    BY Constants
  <1> SUFFICES \E st \in States, a \in Nat, b \in Nat :
                 /\ Move(i, st, a, b)
                 /\ \/ i \in Packs /\ sent' = sent
                    \/ \E k \in Kinds :
                         /\ sent' = Append(sent, [item |-> i, kind |-> k,
                                           end |-> shop'[i].end, until |-> shop'[i].until])
                         /\ i \in Subs => Moves(i, k, [state |-> st, end |-> a, until |-> b])
    BY <1>0, <1>2 DEF Move
  <1>4. CASE Buy(i) /\ i \in Packs
    <2>1. Move(i, "paid", 0, 0) /\ sent' = sent
      BY <1>4 DEF Buy
    <2> QED
      BY <1>4, <2>1 DEF States
  <1>5. CASE Buy(i) /\ i \in Subs
    <2>1. /\ Move(i, "paid", now + Period, now + Period) /\ Announce(i, "renewed")
          /\ shop[i].state = "none" /\ now + Period \in Nat
      BY <1>1, <1>3, <1>5 DEF Buy
    <2>2. Moves(i, "renewed", [state |-> "paid", end |-> now + Period, until |-> now + Period])
      BY <1>1, <2>1 DEF Moves, Announces, Gone
    <2> QED
      BY <2>1, <2>2 DEF States, Kinds, Announce
  <1>6. CASE i \in Subs /\ Renew(i)
    <2>1. PICK end \in Nat : /\ Move(i, "paid", end, end) /\ Announce(i, "renewed")
                             /\ shop[i].end < end
      <3>1. CASE shop[i].state \in {"paid", "grace", "hold"}
        <4>1. /\ Move(i, "paid", Later(shop[i].end, now) + Period,
                               Later(shop[i].end, now) + Period)
              /\ Announce(i, "renewed")
          BY <3>1, <1>6 DEF Renew
        <4>2. /\ Later(shop[i].end, now) \in Nat /\ shop[i].end <= Later(shop[i].end, now)
          BY <1>1 DEF Later
        <4>3. /\ Later(shop[i].end, now) + Period \in Nat
              /\ shop[i].end < Later(shop[i].end, now) + Period
          BY <1>1, <4>2
        <4> QED
          BY <4>1, <4>3
      <3>2. CASE shop[i].state \in {"ended", "revoked"}
        <4>1. /\ Move(i, "paid", now + Period, now + Period) /\ Announce(i, "renewed")
              /\ now + Period > shop[i].end /\ now + Period \in Nat
          BY <3>2, <1>1, <1>6 DEF Renew
        <4> QED
          BY <4>1, <1>1
      <3> QED
        BY <3>1, <3>2, <1>6 DEF Renew
    <2>2. ~ Gone(i)
      BY <1>6 DEF Renew, Gone
    <2>3. Moves(i, "renewed", [state |-> "paid", end |-> end, until |-> end])
      BY <1>1, <2>1, <2>2 DEF Moves, Announces
    <2> QED
      BY <2>1, <2>3 DEF States, Kinds, Announce
  <1>7. CASE i \in Subs /\ FailToRenew(i)
    <2> DEFINE end == IF i \in OnAndroid THEN now + 1 ELSE shop[i].end
    <2>1. /\ shop[i].state = "paid" /\ shop[i].end <= now /\ end \in Nat /\ now + 1 \in Nat
          /\ \/ Move(i, "grace", end, now + 1) /\ Announce(i, "grace")
             \/ Move(i, "hold", shop[i].end, shop[i].end) /\ Announce(i, "hold")
      BY <1>1, <1>7 DEF FailToRenew
    <2>2. /\ Moves(i, "grace", [state |-> "grace", end |-> end, until |-> now + 1])
          /\ Moves(i, "hold", [state |-> "hold", end |-> shop[i].end, until |-> shop[i].end])
      BY <2>1 DEF Moves, Announces
    <2> HIDE DEF end
    <2> QED
      BY <1>1, <2>1, <2>2 DEF States, Kinds, Announce
  <1>8. CASE i \in Subs /\ Lapse(i)
    <2>1. /\ Move(i, "ended", shop[i].end, shop[i].until) /\ Announce(i, "ended")
          /\ shop[i].state \in {"paid", "grace", "hold"} /\ shop[i].until <= now
      BY <1>8 DEF Lapse
    <2>2. Moves(i, "ended", [state |-> "ended", end |-> shop[i].end, until |-> shop[i].until])
      BY <2>1 DEF Moves, Announces
    <2> QED
      BY <1>1, <2>1, <2>2 DEF States, Kinds, Announce
  <1>9. CASE i \in Subs /\ Refund(i)
    <2> DEFINE end == IF i \in OnAndroid THEN now ELSE shop[i].end
    <2>1. /\ Move(i, "revoked", end, now) /\ Announce(i, "revoked") /\ end \in Nat
          /\ shop[i].state \in {"paid", "grace", "hold"}
      BY <1>1, <1>3, <1>9 DEF Refund
    <2>2. Moves(i, "revoked", [state |-> "revoked", end |-> end, until |-> now])
      BY <2>1 DEF Moves, Announces
    <2> HIDE DEF end
    <2> QED
      BY <1>1, <2>1, <2>2 DEF States, Kinds, Announce
  <1>10. CASE i \in Packs /\ Refund(i)
    <2>1. Move(i, "revoked", 0, 0) /\ Announce(i, "revoked")
      BY <1>10 DEF Refund
    <2> QED
      BY <1>3, <1>10, <2>1 DEF States, Kinds, Announce
  <1> QED
    BY <1>3, <1>4, <1>5, <1>6, <1>7, <1>8, <1>9, <1>10, Constants DEF StoreStep

(* So of each subscription it is quiet or moves on.                            *)
LEMMA StoreTurns ==
  ASSUME IInv, CInv, \A t \in Subs : StoreKnown(t), NEW i \in Items, StoreStep(i), NEW s \in Subs
  PROVE  UNCHANGED server /\ StoreKnown(s)' /\ (Quiet(s) \/ Spoke(s))
  <1>0. /\ now \in Nat /\ Len(sent) \in Nat /\ s \in Items /\ s \notin Packs
        /\ shop \in [Items -> Holding]
    BY Dated DEF IInv, Shapes
  <1>1. PICK h \in Holding :
          /\ shop' = [shop EXCEPT ![i] = h] /\ UNCHANGED server /\ now' = now
          /\ \/ i \in Packs /\ sent' = sent
             \/ \E k \in Kinds :
                  /\ sent' = Append(sent, [item |-> i, kind |-> k,
                                       end |-> shop'[i].end, until |-> shop'[i].until])
                  /\ i \in Subs => Moves(i, k, h)
    BY Turned
  <1>2. CASE i \in Packs /\ sent' = sent
    <2>1. shop'[s] = shop[s] /\ Of(s)' = Of(s)
      BY <1>0, <1>1, <1>2 DEF Of
    <2>2. Quiet(s)
      BY <1>0, <1>1, <1>2, <2>1 DEF Quiet
    <2> QED
      BY <1>1, <2>2, StoreRests
  <1>3. ASSUME NEW k \in Kinds, i \in Subs => Moves(i, k, h),
               sent' = Append(sent, [item |-> i, kind |-> k,
                                     end |-> shop'[i].end, until |-> shop'[i].until])
        PROVE  StoreKnown(s)' /\ (Quiet(s) \/ Spoke(s))
    <2>1. CASE i = s
      BY <1>1, <1>3, <2>1, StoreMoves
    <2>2. CASE i # s
      <3>1. /\ Of(s)' = Of(s) /\ shop'[s] = shop[s] /\ Len(sent') = Len(sent) + 1
            /\ \A n \in Of(s) : sent'[n] = sent[n]
        <4>1. Says(i, h, k)
          BY <1>1, <1>3, Said
        <4> QED
          BY <2>2, <4>1 DEF Says
      <3>2. Quiet(s)
        BY <1>0, <1>1, <3>1 DEF Quiet
      <3> QED
        BY <3>2, StoreRests
    <2> QED
      BY <2>1, <2>2
  <1> QED
    BY <1>1, <1>2, <1>3

(* What a call has read stays what was so.                                     *)
LEMMA ReadingRests ==
  ASSUME IInv, CInv, NEW s \in Subs, NEW c \in Calls, ReadAt(c, s), job[c].at <= Len(sent),
         job'[c] = job[c], job[c].item = s, Quiet(s) \/ Spoke(s)
  PROVE  ReadAt(c, s)' /\ job'[c].at <= Len(sent')
  <1> PICK j : j = job[c]
    OBVIOUS
  <1>0. /\ now \in Nat /\ now' \in Nat /\ now <= now' /\ shop[s].end \in Nat /\ Len(sent) \in Nat
        /\ j.at \in Nat /\ j.end \in Nat /\ Len(sent) <= Len(sent') /\ Len(sent') \in Nat
        /\ j.at <= Len(sent) /\ job'[c] = j
        /\ \A n \in Of(s) : n \in Nat /\ n <= Len(sent) /\ sent'[n] = sent[n]
        /\ \A n \in Of(s) : Extends(n)' <=> Extends(n)
    <2>1. job[c] \in Job
      BY DEF IInv, Shapes
    <2>2. now \in Nat /\ shop[s].end \in Nat /\ Len(sent) \in Nat
          /\ \A n \in Of(s) : n \in Nat /\ n <= Len(sent)
      BY Dated
    <2>3. \A n \in Of(s) : sent'[n] = sent[n]
      BY DEF Quiet, Spoke
    <2>4. /\ now' \in Nat /\ now <= now' /\ Len(sent) <= Len(sent')
      BY <2>2 DEF Quiet, Spoke
    <2>5. Len(sent') \in Nat
      BY <2>2 DEF Quiet, Spoke
    <2> QED
      BY <2>1, <2>2, <2>3, <2>4, <2>5 DEF Job, Extends
  <1>1. /\ j.pc \in {"activate", "apply"} =>
             /\ shop[s].state # "none"
             /\ ~ Gone(s) => /\ j.end <= shop[s].end
                             /\ \A n \in Of(s) : n <= j.at /\ Extends(n) => sent[n].end <= j.end
        /\ j.pc = "activate" /\ (\A m \in Of(s) : m <= j.at) =>
             shop[s].state # "revoked" /\ (shop[s].state = "grace" => s \in OnAndroid)
        /\ j.pc \in {"apply", "stale"} =>
             s \in OnAndroid /\ j.note \in Of(s) /\ j.note <= j.at /\ sent[j.note].kind # "revoked"
        /\ j.pc = "stale" => sent[j.note].kind \in {"hold", "ended"}
        /\ j.pc = "apply" /\ sent[j.note].kind \in {"hold", "ended"}
             /\ (\A m \in Of(s) : m <= j.at) => shop[s].end <= now
    BY DEF ReadAt
  <1>2. j.at <= Len(sent')
    BY <1>0
  <1> SUFFICES /\ j.pc \in {"activate", "apply"} =>
                    /\ shop'[s].state # "none"
                    /\ ~ Gone(s)' =>
                         /\ j.end <= shop'[s].end
                         /\ \A n \in Of(s)' : n <= j.at /\ Extends(n)' => sent'[n].end <= j.end
               /\ j.pc = "activate" /\ (\A m \in Of(s)' : m <= j.at) =>
                    shop'[s].state # "revoked" /\ (shop'[s].state = "grace" => s \in OnAndroid)
               /\ j.pc \in {"apply", "stale"} =>
                    j.note \in Of(s)' /\ sent'[j.note] = sent[j.note]
               /\ j.pc = "apply" /\ sent[j.note].kind \in {"hold", "ended"}
                    /\ (\A m \in Of(s)' : m <= j.at) => shop'[s].end <= now'
    BY <1>0, <1>1, <1>2 DEF ReadAt
  <1>3. CASE Quiet(s)
    <2>1. shop'[s] = shop[s] /\ Of(s)' = Of(s) /\ (Gone(s)' <=> Gone(s))
      BY <1>3 DEF Quiet, Gone
    <2>2. j.pc \in {"activate", "apply"} /\ ~ Gone(s)' =>
            /\ j.end <= shop'[s].end
            /\ \A n \in Of(s)' : n <= j.at /\ Extends(n)' => sent'[n].end <= j.end
      BY <1>0, <1>1, <2>1
    <2>3. /\ j.pc \in {"activate", "apply"} => shop'[s].state # "none"
          /\ j.pc = "activate" /\ (\A m \in Of(s)' : m <= j.at) =>
               shop'[s].state # "revoked" /\ (shop'[s].state = "grace" => s \in OnAndroid)
      BY <1>1, <2>1
    <2>4. j.pc \in {"apply", "stale"} => j.note \in Of(s)' /\ sent'[j.note] = sent[j.note]
      BY <1>0, <1>1, <2>1
    <2>5. j.pc = "apply" /\ sent[j.note].kind \in {"hold", "ended"}
            /\ (\A m \in Of(s)' : m <= j.at) => shop'[s].end <= now'
      BY <1>0, <1>1, <2>1
    <2> QED
      BY <2>2, <2>3, <2>4, <2>5
  <1>4. CASE Spoke(s)
    <2>1. /\ Of(s)' = Of(s) \cup {Len(sent) + 1} /\ ~ (Len(sent) + 1 <= j.at)
          /\ ~ Gone(s) /\ shop'[s].state # "none" /\ shop'[s].end \in Nat
          /\ shop[s].end <= shop'[s].end \/ Gone(s)' \/ shop[s].state = "none"
      BY <1>0, <1>4 DEF Spoke
    <2>2. ~ \A m \in Of(s)' : m <= j.at
      BY <2>1
    <2>3. \A n \in Of(s)' : n <= j.at => n \in Of(s)
      BY <2>1
    <2>4. j.pc \in {"apply", "stale"} => j.note \in Of(s)' /\ sent'[j.note] = sent[j.note]
      BY <1>0, <1>1, <2>1
    <2>5. ASSUME j.pc \in {"activate", "apply"}, ~ Gone(s)'
          PROVE  /\ j.end <= shop'[s].end
                 /\ \A n \in Of(s)' : n <= j.at /\ Extends(n)' => sent'[n].end <= j.end
      <3>1. j.end <= shop'[s].end
        BY <1>0, <1>1, <2>1, <2>5
      <3>2. ASSUME NEW n \in Of(s)', n <= j.at, Extends(n)' PROVE sent'[n].end <= j.end
        BY <1>0, <1>1, <2>1, <2>3, <2>5, <3>2
      <3> QED
        BY <3>1, <3>2
    <2> QED
      BY <2>1, <2>2, <2>4, <2>5
  <1> QED
    BY <1>3, <1>4

(* The row stays what it was: as time goes by, and while the store moves on    *)
(* and nothing of that has been heard.                                         *)
LEMMA RowRests ==
  ASSUME IInv, CInv, NEW s \in Subs, StoreKnown(s), RowFollows(s), Quiet(s) \/ Spoke(s),
         sub' = sub, bought \subseteq bought', slipped \subseteq slipped',
         handled' \cap Of(s)' = handled \cap Of(s)
  PROVE  RowFollows(s)'
  <1> SUFFICES ASSUME sub.of = s
               PROVE  DatesFollow(s)' /\ (s \notin slipped' => StatusFollows(s)')
    BY DEF RowFollows
  <1>1. DatesFollow(s) /\ (s \notin slipped => StatusFollows(s))
    BY DEF RowFollows
  <1>2. /\ now \in Nat /\ now' \in Nat /\ now <= now' /\ shop[s].end \in Nat /\ Len(sent) \in Nat
        /\ sub.end \in Nat /\ shop'[s].end \in Nat
        /\ \A n \in Of(s) : n \in Nat /\ n <= Len(sent) /\ sent'[n] = sent[n]
        /\ \A n \in Of(s) : Extends(n)' <=> Extends(n)
        /\ shop'[s].state # "none" /\ (Gone(s) => Gone(s)')
        /\ ~ Gone(s)' => shop[s].end <= shop'[s].end
    <2>1. /\ now \in Nat /\ shop[s].end \in Nat /\ Len(sent) \in Nat /\ sub.end \in Nat
          /\ \A n \in Of(s) : n \in Nat /\ n <= Len(sent)
      BY Dated
    <2>2. \A n \in Of(s) : sent'[n] = sent[n]
      BY DEF Quiet, Spoke
    <2>3. shop[s].state # "none"
      BY <1>1 DEF DatesFollow
    <2>4. CASE Quiet(s)
      BY <2>1, <2>2, <2>3, <2>4 DEF Quiet, Gone, Extends
    <2>5. CASE Spoke(s)
      BY <2>1, <2>2, <2>3, <2>5 DEF Spoke, Extends
    <2> QED
      BY <2>4, <2>5
  <1>3. \A n \in handled' \cap Of(s)' : n \in handled \cap Of(s)
    OBVIOUS
  <1>4. \A n \in handled \cap Of(s) : n \in handled' \cap Of(s)' /\ sent'[n] = sent[n]
    BY <1>2
  <1>5. DatesFollow(s)'
    <2>1. s \in bought' /\ shop'[s].state # "none"
      BY <1>1, <1>2 DEF DatesFollow
    <2>2. ~ Gone(s)' => sub.end <= shop'[s].end
      <3>1. ~ Gone(s) => sub.end <= shop[s].end
        BY <1>1 DEF DatesFollow
      <3> QED
        BY <1>2, <3>1
    <2>3. s \in OnAndroid => sub.grace <= sub.end
      BY <1>1 DEF DatesFollow
    <2>4. s \notin OnAndroid /\ sub.status = "grace" =>
            \E n \in handled' \cap Of(s)' :
              sent'[n].kind = "grace" /\ sent'[n].until = sub.grace /\ sub.end <= sent'[n].end
      BY <1>1, <1>4 DEF DatesFollow
    <2> QED
      BY <2>1, <2>2, <2>3, <2>4 DEF DatesFollow
  <1>6. ASSUME s \notin slipped' PROVE StatusFollows(s)'
    <2>1. StatusFollows(s)
      BY <1>1, <1>6
    <2>2. ~ Gone(s)' => \A n \in handled' \cap Of(s)' : Extends(n)' => sent'[n].end <= sub.end
      <3>1. ~ Gone(s) => \A n \in handled \cap Of(s) : Extends(n) => sent[n].end <= sub.end
        BY <2>1 DEF StatusFollows
      <3> QED
        BY <1>2, <1>3, <3>1
    <2>3. CASE Quiet(s)
      <3>1. /\ shop'[s] = shop[s] /\ (Heard(s)' <=> Heard(s)) /\ (Gone(s)' <=> Gone(s))
        BY <2>3 DEF Quiet, Heard, Newest, Gone
      <3> QED
        BY <1>2, <2>1, <2>2, <3>1 DEF StatusFollows
    <2>4. CASE Spoke(s)
      <3>1. ~ Heard(s)'
        <4> SUFFICES ASSUME NEW n \in handled', n \in Of(s)', \A m \in Of(s)' : m <= n
                     PROVE  FALSE
          BY DEF Heard, Newest
        <4>1. n \in Of(s) /\ Len(sent) + 1 <= n
          BY <1>3, <2>4 DEF Spoke
        <4> QED
          BY <1>2, <4>1
      <3>2. shop'[s].state = "paid" /\ s \notin OnAndroid => sub.end # shop'[s].end
        <4>1. ~ Gone(s) /\ (shop'[s].state = "paid" => shop[s].end < shop'[s].end)
          BY <1>1, <2>4 DEF Spoke, DatesFollow
        <4>2. sub.end <= shop[s].end
          BY <1>1, <4>1 DEF DatesFollow
        <4> QED
          BY <1>2, <4>1, <4>2
      <3> QED
        BY <2>2, <3>1, <3>2 DEF StatusFollows
    <2> QED
      BY <2>3, <2>4
  <1> QED
    BY <1>5, <1>6

----------------------------------------------------------------------------
(* What a call reads, and what the row is to be.                               *)
LEMMA StillQuiet ==
  ASSUME IInv, CInv, NEW s \in Subs, UNCHANGED <<shop, sent>>, now' = now
  PROVE  Quiet(s) /\ Of(s)' = Of(s) /\ (Gone(s)' <=> Gone(s))
  BY Dated DEF Quiet, Of, Gone

LEMMA VerifyReads ==
  ASSUME IInv, CInv, NEW s \in Subs, NEW c \in Calls, StoreKnown(s), Verify(c, s)
  PROVE  ReadAt(c, s)' /\ job'[c].at <= Len(sent')
  <1>1. /\ s \notin Packs /\ Len(sent) \in Nat /\ shop[s].end \in Nat /\ now \in Nat
        /\ \A n \in Of(s) : sent[n].end \in Nat
        /\ job \in [Calls -> Job]
    BY Dated DEF IInv, Shapes
  <1>2. /\ shop[s].state \notin {"none", "revoked"} /\ shop[s].end > now
        /\ job'[c] = [pc |-> "activate", item |-> s, note |-> 0,
                      end |-> shop[s].end, at |-> Len(sent)]
        /\ UNCHANGED <<now, shop, sent>>
    BY <1>1 DEF Verify, store
  <1>3. job'[c].pc = "activate" /\ job'[c].end = shop[s].end /\ job'[c].at = Len(sent)
    BY <1>2
  <1>4. Of(s)' = Of(s) /\ (Gone(s)' <=> Gone(s)) /\ \A n \in Of(s) : Extends(n)' <=> Extends(n)
    BY <1>2, StillQuiet DEF Extends
  <1>5. shop[s].state = "grace" => s \in OnAndroid
    BY <1>1, <1>2 DEF StoreKnown, StoreDates
  <1>6. ~ Gone(s) => \A n \in Of(s) : sent[n].end <= shop[s].end
    BY DEF StoreKnown, StoreTells
  <1> QED
    BY <1>1, <1>2, <1>3, <1>4, <1>5, <1>6 DEF ReadAt

LEMMA GoogleReads ==
  ASSUME IInv, CInv, NEW s \in Subs, NEW c \in Calls, NEW n \in 1 .. Len(sent), sent[n].item = s,
         StoreKnown(s), GoogleRead(c, n)
  PROVE  ReadAt(c, s)' /\ job'[c].at <= Len(sent')
  <1>1. /\ Len(sent) \in Nat /\ shop[s].end \in Nat /\ now \in Nat
        /\ n \in Of(s) /\ n <= Len(sent)
        /\ \A m \in Of(s) : sent[m].end \in Nat
        /\ job \in [Calls -> Job]
    BY Dated DEF IInv, Shapes, Of
  <1>2. PICK k : k = IF sent[n].kind \in {"hold", "ended"} /\ shop[s].end > now
                       THEN "stale" ELSE "apply"
    OBVIOUS
  <1>3. /\ job'[c] = [pc |-> k, item |-> s, note |-> n, end |-> shop[s].end, at |-> Len(sent)]
        /\ UNCHANGED <<now, shop, sent>> /\ s \in OnAndroid /\ sent[n].kind # "revoked"
    BY <1>1, <1>2 DEF GoogleRead, store
  <1>4. /\ job'[c].pc = k /\ job'[c].end = shop[s].end /\ job'[c].at = Len(sent)
        /\ job'[c].note = n
    BY <1>3
  <1>5. Of(s)' = Of(s) /\ (Gone(s)' <=> Gone(s)) /\ \A m \in Of(s) : Extends(m)' <=> Extends(m)
    BY <1>3, StillQuiet DEF Extends
  <1>6. /\ ~ Gone(s) => \A m \in Of(s) : sent[m].end <= shop[s].end
        /\ shop[s].state # "none"
    BY <1>1 DEF StoreKnown, StoreTells
  <1>7. /\ k = "stale" => sent[n].kind \in {"hold", "ended"}
        /\ k = "apply" /\ sent[n].kind \in {"hold", "ended"} => shop[s].end <= now
        /\ k # "activate"
    BY <1>1, <1>2
  <1>8. k \in {"stale", "apply"}
    BY <1>2
  <1>9. PICK j : j = job'[c]
    OBVIOUS
  <1>10. j.pc = k /\ j.end = shop[s].end /\ j.at = Len(sent) /\ j.note = n
    BY <1>4, <1>9
  <1> SUFFICES /\ j.pc \in {"activate", "apply"} =>
                    /\ shop'[s].state # "none"
                    /\ ~ Gone(s)' =>
                         /\ j.end <= shop'[s].end
                         /\ \A m \in Of(s)' : m <= j.at /\ Extends(m)' => sent'[m].end <= j.end
               /\ j.pc # "activate"
               /\ j.pc \in {"apply", "stale"} =>
                    /\ s \in OnAndroid /\ j.note \in Of(s)' /\ j.note <= j.at
                    /\ sent'[j.note].kind # "revoked"
               /\ j.pc = "stale" => sent'[j.note].kind \in {"hold", "ended"}
               /\ j.pc = "apply" /\ sent'[j.note].kind \in {"hold", "ended"} =>
                    shop'[s].end <= now'
               /\ j.at <= Len(sent')
    BY <1>9 DEF ReadAt
  <1>11. sent' = sent /\ shop' = shop /\ now' = now
    BY <1>3
  <1>12. ~ Gone(s)' => \A m \in Of(s)' : m <= j.at /\ Extends(m)' => sent'[m].end <= j.end
    BY <1>5, <1>6, <1>10, <1>11
  <1>13. j.end <= shop'[s].end /\ j.at <= Len(sent') /\ j.note <= j.at /\ j.note \in Of(s)'
    BY <1>1, <1>5, <1>10, <1>11
  <1> QED
    BY <1>3, <1>6, <1>7, <1>10, <1>11, <1>12, <1>13

(* The newest notification is of the state the store is in.                    *)
LEMMA NewestTells ==
  ASSUME IInv, CInv, NEW s \in Subs, StoreKnown(s), NEW x, Newest(s, x)
  PROVE  /\ Announces(sent[x].kind) = shop[s].state
         /\ s \notin OnAndroid => sent[x].end = shop[s].end
         /\ x \in Of(s) /\ \A m \in Of(s) : m <= x
  <1>1. shop[s].state # "none"
    BY DEF Newest, StoreKnown, StoreTells
  <1>2. PICK n \in Of(s) :
          /\ Newest(s, n) /\ Announces(sent[n].kind) = shop[s].state
          /\ s \notin OnAndroid => sent[n].end = shop[s].end
    BY <1>1 DEF StoreKnown, StoreTells
  <1>3. x = n
    BY <1>2, OneNewest
  <1> QED
    BY <1>2, <1>3 DEF Newest

(* A notification that is put aside does not change what the row is to be.     *)
LEMMA RowPutAside ==
  ASSUME IInv, CInv, NEW s \in Subs, StoreKnown(s), RowFollows(s), NEW n,
         UNCHANGED <<now, shop, sent, sub>>, bought' = bought, slipped \subseteq slipped',
         handled' = handled \cup {n},
         n \in Of(s) /\ sub.of = s =>
           \/ n \in handled
           \/ ~ Extends(n) /\ (Newest(s, n) => shop[s].state \in {"hold", "ended"})
  PROVE  RowFollows(s)'
  <1>1. Quiet(s) /\ Of(s)' = Of(s) /\ (Gone(s)' <=> Gone(s))
    BY StillQuiet
  <1>2. CASE n \in handled \/ n \notin Of(s)
    <2>1. handled' \cap Of(s)' = handled \cap Of(s)
      BY <1>1, <1>2
    <2> QED
      BY <1>1, <2>1, RowRests
  <1>3. CASE sub.of # s
    BY <1>3 DEF RowFollows
  <1>4. CASE n \notin handled /\ n \in Of(s) /\ sub.of = s
    <2>1. ~ Extends(n) /\ (Newest(s, n) => shop[s].state \in {"hold", "ended"})
      BY <1>4
    <2>2. DatesFollow(s) /\ (s \notin slipped => StatusFollows(s))
      BY <1>4 DEF RowFollows
    <2>3. DatesFollow(s)'
      BY <1>1, <2>2 DEF DatesFollow
    <2>4. Heard(s)' => Heard(s) \/ shop[s].state \in {"hold", "ended"}
      BY <1>1, <2>1 DEF Heard, Newest
    <2>5. ASSUME s \notin slipped' PROVE StatusFollows(s)'
      <3>1. StatusFollows(s)
        BY <2>2, <2>5
      <3>2. ~ Gone(s)' => \A m \in handled' \cap Of(s)' : Extends(m)' => sent'[m].end <= sub.end
        BY <1>1, <2>1, <3>1 DEF StatusFollows, Extends
      <3> QED
        BY <1>1, <2>4, <3>1, <3>2 DEF StatusFollows
    <2> QED
      BY <2>3, <2>5 DEF RowFollows
  <1> QED
    BY <1>2, <1>3, <1>4

(* What has to be true of a row that is written.                               *)
LEMMA RowWritten ==
  ASSUME IInv, CInv, NEW s \in Subs, UNCHANGED <<now, shop, sent>>,
         s \in bought', shop[s].state # "none",
         ~ Gone(s) => sub'.end <= shop[s].end,
         s \in OnAndroid => sub'.grace <= sub'.end,
         s \notin OnAndroid /\ sub'.status = "grace" =>
           \E n \in handled' \cap Of(s) :
             sent[n].kind = "grace" /\ sent[n].until = sub'.grace /\ sub'.end <= sent[n].end,
         s \notin slipped' =>
           /\ ~ Gone(s) => \A n \in handled' \cap Of(s) : Extends(n) => sent[n].end <= sub'.end
           /\ s \in OnAndroid /\ (\E n \in handled' : Newest(s, n))
                /\ shop[s].state \in {"paid", "grace"} /\ now < shop[s].end => sub'.status # "lapsed"
           /\ s \notin OnAndroid /\ shop[s].state = "paid" /\ sub'.end = shop[s].end =>
                sub'.status = "active"
           /\ s \notin OnAndroid /\ (\E n \in handled' : Newest(s, n))
                /\ shop[s].state = "grace" /\ sub'.end = shop[s].end => sub'.status = "grace"
           /\ (\E n \in handled' : Newest(s, n)) /\ shop[s].state = "revoked"
                /\ (s \in OnAndroid \/ sub'.end = shop[s].end) => sub'.status = "lapsed"
  PROVE  RowFollows(s)'
  <1>1. /\ Of(s)' = Of(s) /\ (Gone(s)' <=> Gone(s)) /\ sent' = sent /\ shop' = shop /\ now' = now
        /\ \A n : Extends(n)' <=> Extends(n)
        /\ \A n : Newest(s, n)' <=> Newest(s, n)
    BY StillQuiet DEF Extends, Newest
  <1>2. DatesFollow(s)'
    BY <1>1 DEF DatesFollow
  <1>3. ASSUME s \notin slipped' PROVE StatusFollows(s)'
    BY <1>1, <1>3 DEF StatusFollows, Heard
  <1> QED
    BY <1>2, <1>3 DEF RowFollows

(* A call that activates s writes what it has read.                            *)
LEMMA RowActivated ==
  ASSUME IInv, CInv, NEW s \in Subs, NEW c \in Calls, StoreKnown(s), RowFollows(s),
         ReadAt(c, s), job[c].item = s, Activate(c)
  PROVE  RowFollows(s)'
  <1> PICK j : j = job[c]
    OBVIOUS
  <1>0. /\ shop[s].end \in Nat /\ sub.end \in Nat /\ j.end \in Nat /\ j.at \in Nat
        /\ handled \subseteq 1 .. Len(sent)
        /\ \A n \in Of(s) : n \in Nat /\ sent[n].item = s /\ sent[n].end \in Nat
    BY Dated, NoticeTypes DEF Job
  <1>1. /\ j.pc = "activate" /\ s \in bought' /\ handled' = handled
        /\ UNCHANGED <<now, shop, sent>>
        /\ sub' = [of |-> s, status |-> "active", end |-> EndToStore(s, j.end), grace |-> 0]
        /\ slipped' = IF \/ Overtaken(s, j.at, Undone)
                         \/ sub.of # s /\ Overtaken(s, j.at, {"renewed"})
                        THEN slipped \cup {s} ELSE slipped
    BY DEF Activate, RecordPurchase, WriteSubscription, store
  <1> PICK e : e = EndToStore(s, j.end)
    OBVIOUS
  <1>2. sub'.of = s /\ sub'.status = "active" /\ sub'.end = e /\ sub'.grace = 0
    BY <1>1
  <1>3. e \in Nat /\ j.end <= e /\ (sub.of = s => sub.end <= e)
    BY <1>0 DEF EndToStore, Later
  <1>4. /\ shop[s].state # "none"
        /\ ~ Gone(s) => /\ j.end <= shop[s].end
                        /\ \A n \in Of(s) : n <= j.at /\ Extends(n) => sent[n].end <= j.end
        /\ (\A m \in Of(s) : m <= j.at) =>
             shop[s].state # "revoked" /\ (shop[s].state = "grace" => s \in OnAndroid)
    BY <1>1 DEF ReadAt
  <1>5. ~ Gone(s) => e <= shop[s].end
    <2>1. sub.of = s /\ ~ Gone(s) => sub.end <= shop[s].end
      BY DEF RowFollows, DatesFollow
    <2> QED
      BY <1>0, <1>4, <2>1 DEF EndToStore, Later
  <1>6. ASSUME s \notin slipped', ~ Gone(s), NEW n \in handled \cap Of(s), Extends(n)
        PROVE  sent[n].end <= e
    <2>1. CASE n <= j.at
      BY <1>0, <1>3, <1>4, <1>6, <2>1
    <2>2. CASE ~ (n <= j.at) /\ sub.of = s
      <3>1. sent[n].end <= sub.end
        BY <1>1, <1>6, <2>2 DEF RowFollows, StatusFollows
      <3> QED
        BY <1>0, <1>3, <2>2, <3>1
    <2>3. CASE ~ (n <= j.at) /\ sub.of # s
      <3>1. n > j.at /\ sent[n].item = s /\ sent[n].kind \in {"renewed", "grace"}
        BY <1>0, <1>6, <2>3 DEF Extends
      <3>2. Overtaken(s, j.at, Undone) \/ Overtaken(s, j.at, {"renewed"})
        BY <3>1 DEF Overtaken, Undone
      <3> QED
        BY <1>1, <1>6, <2>3, <3>2
    <2> QED
      BY <2>1, <2>2, <2>3
  <1>7. ASSUME s \notin slipped', NEW x \in handled, Newest(s, x)
        PROVE  shop[s].state # "revoked" /\ (shop[s].state = "grace" => s \in OnAndroid)
    <2>1. Announces(sent[x].kind) = shop[s].state /\ x \in Of(s) /\ \A m \in Of(s) : m <= x
      BY <1>7, NewestTells
    <2>2. CASE x <= j.at
      <3>1. \A m \in Of(s) : m <= j.at
        BY <1>0, <2>1, <2>2
      <3> QED
        BY <1>4, <3>1
    <2>3. CASE ~ (x <= j.at)
      <3>1. x > j.at /\ sent[x].item = s
        BY <1>0, <2>1, <2>3
      <3>2. sent[x].kind \notin Undone
        BY <1>1, <1>7, <3>1 DEF Overtaken
      <3> QED
        BY <2>1, <3>2 DEF Undone, Announces
    <2> QED
      BY <2>2, <2>3
  <1>8. s \in OnAndroid => sub'.grace <= sub'.end
    BY <1>2, <1>3
  <1> QED
    BY <1>1, <1>2, <1>4, <1>5, <1>6, <1>7, <1>8, RowWritten

(* What is written of s when a notification is applied.                        *)
LEMMA Applied ==
  ASSUME IInv, CInv, NEW s \in Subs, NEW n, NEW change \in Change, NEW late,
         ApplySubscriptionChange(n, s, change, late),
         ~ (n \in handled \/ s \notin bought \/ sub.of # s \/ Stale(change))
  PROVE  /\ handled' = handled \cup {n} /\ bought' = bought /\ s \in bought' /\ sub.of = s
         /\ sub'.status = change.status
         /\ sub'.end \in Nat /\ sub.end <= sub'.end /\ change.end <= sub'.end
         /\ sub'.end = sub.end \/ sub'.end = change.end
         /\ sub'.grace = IF change.grace # 0 THEN change.grace
                         ELSE IF change.status = "grace" THEN sub.grace ELSE 0
         /\ slipped' = IF late THEN slipped \cup {s} ELSE slipped
  <1>1. sub.end \in Nat /\ change.end \in Nat /\ NoDate = 0
    BY Constants DEF CInv, PlanShape, Row, Change
  <1> PICK e, g : /\ e = Later(sub.end, change.end)
                  /\ g = IF change.grace # 0 THEN change.grace
                         ELSE IF change.status = "grace" THEN sub.grace ELSE 0
    OBVIOUS
  <1>2. /\ handled' = handled \cup {n} /\ UNCHANGED purchases
        /\ sub' = [of |-> s, status |-> change.status, end |-> e, grace |-> g]
        /\ slipped' = IF late THEN slipped \cup {s} ELSE slipped
    BY <1>1 DEF ApplySubscriptionChange, WriteSubscription
  <1>3. e \in Nat /\ sub.end <= e /\ change.end <= e /\ (e = sub.end \/ e = change.end)
    BY <1>1 DEF Later
  <1>4. sub'.status = change.status /\ sub'.end = e /\ sub'.grace = g
    BY <1>2
  <1> QED
    BY <1>2, <1>3, <1>4 DEF purchases

(* Apple's notification says what the row is to be ...                         *)
LEMMA RowAppleWrites ==
  ASSUME IInv, CInv, NEW s \in Subs, s \notin OnAndroid, StoreKnown(s), RowFollows(s),
         UNCHANGED <<now, shop, sent>>, NEW n \in Of(s), NEW late,
         late <=> \/ sent[n].kind = "renewed" /\ Overtaken(s, n, Undone)
                  \/ sent[n].kind = "grace" /\ Overtaken(s, n, {"revoked"}),
         ApplySubscriptionChange(n, s, AppleChange(sent[n]), late),
         ~ (n \in handled \/ s \notin bought \/ sub.of # s \/ Stale(AppleChange(sent[n])))
  PROVE  RowFollows(s)'
  <1> PICK change : change = AppleChange(sent[n])
    OBVIOUS
  <1>0. /\ shop[s].end \in Nat /\ sub.end \in Nat /\ sent[n].end \in Nat /\ sent[n].until \in Nat
        /\ n \in Nat /\ sent[n].item = s /\ sent[n].kind \in Kinds /\ n \in 1 .. Len(sent)
        /\ handled \subseteq 1 .. Len(sent) /\ Len(sent) \in Nat
        /\ \A m \in Of(s) : m \in Nat /\ sent[m].item = s /\ sent[m].end \in Nat
        /\ change \in Change /\ change.end \in Nat
    <2>1. n \in 1 .. Len(sent)
      BY Dated
    <2>2. change \in Change
      BY <2>1, NoticeTypes, Changes
    <2> QED
      BY <2>1, <2>2, Dated DEF Change
  <1>1. /\ handled' = handled \cup {n} /\ s \in bought' /\ sub.of = s
        /\ sub'.status = change.status
        /\ sub'.end \in Nat /\ sub.end <= sub'.end /\ change.end <= sub'.end
        /\ sub'.end = sub.end \/ sub'.end = change.end
        /\ sub'.grace = IF change.grace # 0 THEN change.grace
                        ELSE IF change.status = "grace" THEN sub.grace ELSE 0
        /\ slipped' = IF late THEN slipped \cup {s} ELSE slipped
    BY <1>0, Applied
  <1>2. /\ shop[s].state # "none" /\ sub.end <= shop[s].end /\ ~ Gone(s)
        /\ s \notin slipped' => s \notin slipped /\ ~ late
        /\ s \notin slipped' => \A m \in handled \cap Of(s) : Extends(m) => sent[m].end <= sub.end
    BY <1>1 DEF RowFollows, DatesFollow, StatusFollows, Gone
  <1>3. /\ sent[n].end <= shop[s].end /\ sent[n].end # 0
        /\ sent[n].kind = "grace" => sent[n].until # 0
        /\ sent[n].end = shop[s].end =>
             /\ shop[s].state = "paid" => sent[n].kind = "renewed"
             /\ shop[s].state = "grace" => sent[n].kind \in {"renewed", "grace"}
    BY <1>2 DEF StoreKnown, StoreTells, PeriodTold
  <1>4. ASSUME s \notin slipped', NEW x \in handled', Newest(s, x), shop[s].state = "revoked"
        PROVE  sent[n].kind \notin {"renewed", "grace"}
    <2>1. sent[x].kind = "revoked" /\ x \in Of(s) /\ n <= x /\ sent[x].item = s
      BY <1>0, <1>4, NewestTells DEF Announces
    <2>2. CASE x = n
      BY <2>1, <2>2
    <2>3. CASE x # n
      <3>1. x \in handled /\ x > n
        BY <1>0, <1>1, <2>1, <2>3
      <3>2. Overtaken(s, n, Undone) /\ Overtaken(s, n, {"revoked"})
        BY <2>1, <3>1 DEF Overtaken, Undone
      <3> QED
        BY <1>2, <1>4, <3>2
    <2> QED
      BY <2>2, <2>3
  <1>5. ASSUME s \notin slipped', NEW x \in handled', Newest(s, x), shop[s].state = "grace"
        PROVE  sent[n].kind # "renewed"
    <2>1. sent[x].kind = "grace" /\ x \in Of(s) /\ n <= x /\ sent[x].item = s
      BY <1>0, <1>5, NewestTells DEF Announces
    <2>2. CASE x = n
      BY <2>1, <2>2
    <2>3. CASE x # n
      <3>1. x \in handled /\ x > n
        BY <1>0, <1>1, <2>1, <2>3
      <3>2. Overtaken(s, n, Undone)
        BY <2>1, <3>1 DEF Overtaken, Undone
      <3> QED
        BY <1>2, <1>5, <3>2
    <2> QED
      BY <2>2, <2>3
  <1>6. ASSUME s \notin slipped', NEW m \in handled' \cap Of(s), Extends(m)
        PROVE  sent[m].end <= sub'.end
    <2>1. CASE m \in handled
      BY <1>0, <1>1, <1>2, <1>6, <2>1
    <2>2. CASE m = n /\ m \notin handled
      <3>1. sent[n].kind = "renewed"
        BY <1>0, <1>6, <2>2 DEF Extends
      <3>2. change.end = sent[n].end
        BY <3>1 DEF AppleChange
      <3> QED
        BY <1>1, <2>2, <3>2
    <2> QED
      BY <1>1, <1>6, <2>1, <2>2
  <1>7. CASE sent[n].kind = "renewed"
    <2>1. change.status = "active" /\ change.end = sent[n].end
      BY <1>7 DEF AppleChange
    <2>2. sub'.end <= shop[s].end
      BY <1>1, <1>2, <1>3, <2>1
    <2>3. sub'.status = "active"
      BY <1>1, <2>1
    <2>4. ASSUME s \notin slipped', NEW x \in handled', Newest(s, x)
          PROVE  shop[s].state \notin {"grace", "revoked"}
      BY <1>4, <1>5, <1>7, <2>4
    <2> QED
      BY <1>1, <1>2, <1>6, <2>2, <2>3, <2>4, RowWritten
  <1>8. CASE sent[n].kind # "renewed"
    <2>1. change.end = 0 /\ change.asOf = sent[n].end /\ change.status # "active"
      BY <1>8 DEF AppleChange, NoDate
    <2>2. sub.end <= sent[n].end
      BY <1>0, <1>3, <2>1, Constants DEF Stale
    <2>3. sub'.end = sub.end
      BY <1>0, <1>1, <2>1
    <2>4. sub'.end = shop[s].end => sent[n].end = shop[s].end
      BY <1>0, <1>3, <2>2, <2>3
    <2>5. sub'.end = shop[s].end => shop[s].state # "paid"
      BY <1>3, <1>8, <2>4
    <2>6. CASE sent[n].kind = "grace"
      <3>1. change.status = "grace" /\ change.grace = sent[n].until
        BY <2>6 DEF AppleChange
      <3>2. sub'.status = "grace" /\ sub'.grace = sent[n].until
        BY <1>1, <1>3, <2>6, <3>1
      <3>3. \E m \in handled' \cap Of(s) :
              sent[m].kind = "grace" /\ sent[m].until = sub'.grace /\ sub'.end <= sent[m].end
        BY <1>1, <2>2, <2>3, <2>6, <3>2
      <3>4. ASSUME s \notin slipped', NEW x \in handled', Newest(s, x)
            PROVE  shop[s].state # "revoked"
        BY <1>4, <2>6, <3>4
      <3> QED
        BY <1>1, <1>2, <1>6, <2>3, <2>5, <3>2, <3>3, <3>4, RowWritten
    <2>7. CASE sent[n].kind # "grace"
      <3>1. change.status = "lapsed"
        BY <1>8, <2>7 DEF AppleChange
      <3>2. sub'.status = "lapsed"
        BY <1>1, <3>1
      <3>3. sub'.end = shop[s].end => shop[s].state # "grace"
        BY <1>3, <1>8, <2>4, <2>7
      <3> QED
        BY <1>1, <1>2, <1>6, <2>3, <2>5, <3>2, <3>3, RowWritten
    <2> QED
      BY <2>6, <2>7
  <1> QED
    BY <1>7, <1>8

(* ... and one that is not applied says nothing new.                           *)
LEMMA RowApple ==
  ASSUME IInv, CInv, NEW s \in Subs, s \notin OnAndroid, StoreKnown(s), RowFollows(s),
         UNCHANGED <<now, shop, sent>>, NEW n \in Of(s), NEW late,
         late <=> \/ sent[n].kind = "renewed" /\ Overtaken(s, n, Undone)
                  \/ sent[n].kind = "grace" /\ Overtaken(s, n, {"revoked"}),
         ApplySubscriptionChange(n, s, AppleChange(sent[n]), late)
  PROVE  RowFollows(s)'
  <1> PICK change : change = AppleChange(sent[n])
    OBVIOUS
  <1>1. CASE ~ (n \in handled \/ s \notin bought \/ sub.of # s \/ Stale(change))
    BY <1>1, RowAppleWrites
  <1>2. CASE n \in handled \/ s \notin bought \/ sub.of # s \/ Stale(change)
    <2>1. handled' = handled \cup {n} /\ UNCHANGED <<sub, bought, slipped>>
      BY <1>2 DEF ApplySubscriptionChange, RecordOnly, purchases, plan
    <2>2. ASSUME sub.of = s, n \notin handled
          PROVE  ~ Extends(n) /\ (Newest(s, n) => shop[s].state \in {"hold", "ended"})
      <3>1. s \in bought /\ sub.end <= shop[s].end
        BY <2>2 DEF RowFollows, DatesFollow, Gone
      <3>2. Stale(change)
        BY <1>2, <2>2, <3>1
      <3>3. sent[n].kind # "renewed" /\ sent[n].end < sub.end
        <4>1. CASE sent[n].kind = "renewed"
          BY <3>2, <4>1 DEF Stale, AppleChange
        <4>2. CASE sent[n].kind # "renewed"
          <5>1. change.asOf = sent[n].end
            BY <4>2 DEF AppleChange
          <5> QED
            BY <3>2, <4>2, <5>1 DEF Stale
        <4> QED
          BY <4>1, <4>2
      <3>4. sent[n].end # shop[s].end /\ sent[n].item = s
        BY <3>1, <3>3, Dated
      <3>5. ~ Newest(s, n)
        BY <3>4, NewestTells
      <3> QED
        BY <3>3, <3>4, <3>5 DEF Extends
    <2> QED
      BY <2>1, <2>2, RowPutAside
  <1> QED
    BY <1>1, <1>2

(* Google's refund ends what the row grants.                                   *)
LEMMA RowGoogleRevoked ==
  ASSUME IInv, CInv, NEW s \in Subs, s \in OnAndroid, StoreKnown(s), RowFollows(s),
         UNCHANGED <<now, shop, sent>>, NEW n \in Of(s), sent[n].kind = "revoked",
         ApplySubscriptionChange(n, s, GoogleChange("revoked", NoDate), FALSE)
  PROVE  RowFollows(s)'
  <1> PICK change : change = GoogleChange("revoked", NoDate)
    OBVIOUS
  <1>0. /\ change \in Change /\ change.status = "lapsed" /\ change.grace = 0
        /\ change.asOf = NoDate
    BY Changes, Constants DEF Kinds, GoogleChange
  <1>1. Gone(s)
    BY DEF StoreKnown, StoreTells
  <1>2. CASE ~ (n \in handled \/ s \notin bought \/ sub.of # s \/ Stale(change))
    <2>1. /\ s \in bought' /\ sub.of = s /\ sub'.status = "lapsed" /\ sub'.end \in Nat
          /\ sub'.grace = 0 /\ handled' = handled \cup {n}
      BY <1>0, <1>2, Applied
    <2>2. shop[s].state = "revoked"
      BY <1>1 DEF Gone
    <2>3. sub'.grace <= sub'.end
      BY <2>1
    <2> QED
      BY <1>1, <2>1, <2>2, <2>3, RowWritten
  <1>3. CASE n \in handled \/ s \notin bought \/ sub.of # s \/ Stale(change)
    <2>1. handled' = handled \cup {n} /\ UNCHANGED <<sub, bought, slipped>>
      BY <1>3 DEF ApplySubscriptionChange, RecordOnly, purchases, plan
    <2>2. sub.of = s => n \in handled
      BY <1>0, <1>3 DEF RowFollows, DatesFollow, Stale
    <2> QED
      BY <2>1, <2>2, RowPutAside
  <1> QED
    BY <1>2, <1>3

(* A call that asked Google writes what it was told.                           *)
LEMMA RowGoogleWrites ==
  ASSUME IInv, CInv, NEW s \in Subs, NEW c \in Calls, StoreKnown(s), RowFollows(s),
         ReadAt(c, s), job[c].item = s, job[c].pc = "apply", UNCHANGED <<now, shop, sent>>,
         NEW n, n = job[c].note, NEW late,
         late <=> IF sent[n].kind \in {"renewed", "grace"}
                    THEN Overtaken(s, n, {"revoked"})
                    ELSE Overtaken(s, job[c].at, {"renewed", "grace"}),
         ApplySubscriptionChange(n, s, GoogleChange(sent[n].kind, job[c].end), late),
         ~ (n \in handled \/ s \notin bought \/ sub.of # s)
  PROVE  RowFollows(s)'
  <1> PICK change : change = GoogleChange(sent[n].kind, job[c].end)
    OBVIOUS
  <1> PICK j : j = job[c]
    OBVIOUS
  <1>0. /\ s \in OnAndroid /\ n \in Of(s) /\ n <= j.at /\ sent[n].kind # "revoked"
        /\ shop[s].state # "none"
        /\ ~ Gone(s) => /\ j.end <= shop[s].end
                        /\ \A m \in Of(s) : m <= j.at /\ Extends(m) => sent[m].end <= j.end
        /\ sent[n].kind \in {"hold", "ended"} /\ (\A m \in Of(s) : m <= j.at) => shop[s].end <= now
    BY DEF ReadAt
  <1>1. /\ shop[s].end \in Nat /\ sub.end \in Nat /\ sub.grace \in Nat /\ now \in Nat
        /\ n \in Nat /\ sent[n].item = s /\ n \in 1 .. Len(sent)
        /\ sent[n].kind \in {"renewed", "grace", "hold", "ended"}
        /\ handled \subseteq 1 .. Len(sent) /\ Len(sent) \in Nat
        /\ \A m \in Of(s) : m \in Nat /\ sent[m].item = s /\ sent[m].end \in Nat
        /\ j.end \in Nat /\ j.at \in Nat
    BY <1>0, Dated, NoticeTypes DEF Kinds, Job
  <1>2. change \in Change /\ change.end \in Nat /\ change.asOf = NoDate
    <2>1. change \in Change
      BY <1>1, Changes DEF Kinds
    <2> QED
      BY <1>1, <2>1 DEF Change, GoogleChange
  <1>3. /\ handled' = handled \cup {n} /\ s \in bought' /\ sub.of = s
        /\ sub'.status = change.status
        /\ sub'.end \in Nat /\ sub.end <= sub'.end /\ change.end <= sub'.end
        /\ sub'.end = sub.end \/ sub'.end = change.end
        /\ sub'.grace = IF change.grace # 0 THEN change.grace
                        ELSE IF change.status = "grace" THEN sub.grace ELSE 0
        /\ slipped' = IF late THEN slipped \cup {s} ELSE slipped
    BY <1>2, Applied DEF Stale
  <1>4. /\ ~ Gone(s) => sub.end <= shop[s].end
        /\ sub.grace <= sub.end
        /\ s \notin slipped' => s \notin slipped /\ ~ late
        /\ s \notin slipped' /\ ~ Gone(s) =>
             \A m \in handled \cap Of(s) : Extends(m) => sent[m].end <= sub.end
    BY <1>0, <1>3 DEF RowFollows, DatesFollow, StatusFollows
  <1>5. ASSUME NEW x \in handled', Newest(s, x)
        PROVE  /\ x \in Of(s) /\ n <= x /\ sent[x].item = s /\ (x # n => x \in handled /\ x > n)
               /\ Announces(sent[x].kind) = shop[s].state /\ \A m \in Of(s) : m <= x
    <2>1. /\ x \in Of(s) /\ n <= x /\ Announces(sent[x].kind) = shop[s].state
          /\ \A m \in Of(s) : m <= x
      BY <1>0, <1>5, NewestTells
    <2>2. x \in Nat /\ sent[x].item = s
      BY <1>1, <2>1
    <2>3. x # n => x \in handled
      BY <1>3, <1>5
    <2> QED
      BY <1>1, <2>1, <2>2, <2>3
  <1>6. CASE sent[n].kind \in {"renewed", "grace"}
    <2>1. /\ change.status \in {"active", "grace"} /\ change.end = j.end
          /\ change.grace = 0 \/ change.grace = j.end
      BY <1>6 DEF GoogleChange, NoDate
    <2>2. ~ Gone(s) => sub'.end <= shop[s].end
      BY <1>0, <1>3, <1>4, <2>1
    <2>3. sub'.grace <= sub'.end
      <3>1. sub'.grace \in {0, j.end, sub.grace}
        BY <1>3, <2>1
      <3>2. j.end <= sub'.end /\ sub.end <= sub'.end /\ sub'.end \in Nat /\ sub.grace <= sub.end
        BY <1>3, <1>4, <2>1
      <3> QED
        BY <1>1, <3>1, <3>2
    <2>4. ASSUME s \notin slipped', ~ Gone(s), NEW m \in handled' \cap Of(s), Extends(m)
          PROVE  sent[m].end <= sub'.end
      <3>1. CASE m \in handled
        BY <1>1, <1>3, <1>4, <2>4, <3>1
      <3>2. CASE m = n
        <4>1. sent[n].end <= j.end
          BY <1>0, <2>4, <3>2
        <4>2. j.end <= sub'.end /\ sub'.end \in Nat /\ sent[n].end \in Nat
          BY <1>0, <1>1, <1>3, <2>1
        <4> QED
          BY <1>1, <3>2, <4>1, <4>2
      <3> QED
        BY <1>3, <2>4, <3>1, <3>2
    <2>5. ASSUME s \notin slipped', NEW x \in handled', Newest(s, x)
          PROVE  shop[s].state # "revoked"
      <3> SUFFICES ASSUME shop[s].state = "revoked" PROVE FALSE
        OBVIOUS
      <3>1. sent[x].kind = "revoked"
        BY <1>5, <2>5 DEF Announces
      <3>2. x \in handled /\ x > n /\ sent[x].item = s
        BY <1>5, <1>6, <2>5, <3>1
      <3>3. Overtaken(s, n, {"revoked"})
        BY <3>1, <3>2 DEF Overtaken
      <3> QED
        BY <1>4, <1>6, <2>5, <3>3
    <2>6. sub'.status # "lapsed"
      BY <1>3, <2>1
    <2> QED
      BY <1>0, <1>3, <2>2, <2>3, <2>4, <2>5, <2>6, RowWritten
  <1>7. CASE sent[n].kind \in {"hold", "ended"}
    <2>1. change.status = "lapsed" /\ change.end = 0 /\ change.grace = 0
      BY <1>7 DEF GoogleChange, NoDate
    <2>2. sub'.end = sub.end /\ sub'.status = "lapsed" /\ sub'.grace = 0 /\ sub'.grace <= sub'.end
      BY <1>1, <1>3, <2>1
    <2>3. ASSUME s \notin slipped', ~ Gone(s), NEW m \in handled' \cap Of(s), Extends(m)
          PROVE  sent[m].end <= sub'.end
      <3>1. m # n
        BY <1>7, <2>3 DEF Extends
      <3> QED
        BY <1>3, <1>4, <2>2, <2>3, <3>1
    <2>4. ASSUME s \notin slipped', NEW x \in handled', Newest(s, x),
                 shop[s].state \in {"paid", "grace"}
          PROVE  shop[s].end <= now
      <3>1. sent[x].kind \in {"renewed", "grace"} /\ x \in Of(s)
        <4>1. x \in Of(s) /\ Announces(sent[x].kind) = shop[s].state
          BY <1>5, <2>4
        <4>2. sent[x].kind \in Kinds
          BY <4>1, Dated
        <4> QED
          BY <2>4, <4>1, <4>2 DEF Announces, Kinds
      <3>2. x \in handled /\ sent[x].item = s /\ \A m \in Of(s) : m <= x
        BY <1>5, <1>7, <2>4, <3>1
      <3>3. ~ (x > j.at)
        BY <1>4, <1>7, <2>4, <3>1, <3>2 DEF Overtaken
      <3>4. \A m \in Of(s) : m <= j.at
        BY <1>1, <3>1, <3>2, <3>3
      <3> QED
        BY <1>0, <1>7, <3>4
    <2>5. ~ Gone(s) => sub'.end <= shop[s].end
      BY <1>4, <2>2
    <2>6. ASSUME s \notin slipped', NEW x \in handled', Newest(s, x),
                 shop[s].state \in {"paid", "grace"}, now < shop[s].end
          PROVE  FALSE
      BY <1>1, <2>4, <2>6
    <2> QED
      BY <1>0, <1>3, <2>2, <2>3, <2>5, <2>6, RowWritten
  <1> QED
    BY <1>1, <1>6, <1>7

(* A call that asked Google ends, whatever it asked about.                     *)
LEMMA RowGoogleApplied ==
  ASSUME IInv, CInv, NEW s \in Subs, NEW c \in Calls, StoreKnown(s), RowFollows(s),
         job[c].item = s => ReadAt(c, s), job[c].item # s => job[c].note \notin Of(s),
         GoogleApply(c)
  PROVE  RowFollows(s)'
  <1> PICK n, t : n = job[c].note /\ t = job[c].item
    OBVIOUS
  <1> PICK change : change = GoogleChange(sent[n].kind, job[c].end)
    OBVIOUS
  <1>1. UNCHANGED <<now, shop, sent>> /\ change.asOf = NoDate /\ t \in Subs
    BY DEF GoogleApply, GoogleChange, store, IInv, JobShape
  <1>2. CASE job[c].pc = "stale"
    <2>1. handled' = handled \cup {n} /\ UNCHANGED <<sub, bought, slipped>>
      BY <1>2 DEF GoogleApply, RecordOnly, purchases, plan
    <2>2. ASSUME n \in Of(s)
          PROVE  ~ Extends(n) /\ (Newest(s, n) => shop[s].state \in {"hold", "ended"})
      <3>1. sent[n].kind \in {"hold", "ended"}
        BY <1>2, <2>2 DEF ReadAt
      <3>2. Newest(s, n) => Announces(sent[n].kind) = shop[s].state
        BY NewestTells
      <3> QED
        BY <3>1, <3>2 DEF Extends, Announces
    <2> QED
      BY <1>1, <2>1, <2>2, RowPutAside
  <1>3. CASE job[c].pc = "apply"
    <2>1. PICK late :
            /\ ApplySubscriptionChange(n, t, change, late)
            /\ late <=> IF sent[n].kind \in {"renewed", "grace"}
                          THEN Overtaken(t, n, {"revoked"})
                          ELSE Overtaken(t, job[c].at, {"renewed", "grace"})
      BY <1>3 DEF GoogleApply
    <2>2. CASE n \in handled \/ t \notin bought \/ sub.of # t
      <3>1. handled' = handled \cup {n} /\ UNCHANGED <<sub, bought, slipped>>
        BY <2>1, <2>2 DEF ApplySubscriptionChange, RecordOnly, purchases, plan
      <3>2. n \in Of(s) /\ sub.of = s => n \in handled
        BY <2>2 DEF RowFollows, DatesFollow
      <3> QED
        BY <1>1, <3>1, <3>2, RowPutAside
    <2>3. CASE ~ (n \in handled \/ t \notin bought \/ sub.of # t) /\ t # s
      <3>1. WriteSubscription([of |-> t, status |-> change.status,
              end |-> Later(sub.end, change.end),
              grace |-> IF change.grace # NoDate THEN change.grace
                        ELSE IF change.status = "grace" THEN sub.grace ELSE 0])
        BY <1>1, <2>1, <2>3 DEF ApplySubscriptionChange, Stale
      <3>2. sub'.of = t
        BY <3>1 DEF WriteSubscription
      <3> QED
        BY <2>3, <3>2 DEF RowFollows
    <2>4. CASE ~ (n \in handled \/ t \notin bought \/ sub.of # t) /\ t = s
      BY <1>1, <1>3, <2>1, <2>4, RowGoogleWrites
    <2> QED
      BY <2>2, <2>3, <2>4
  <1> QED
    BY <1>2, <1>3 DEF GoogleApply

(* A notification arrives, of whatever purchase.                               *)
LEMMA RowNoticed ==
  ASSUME IInv, CInv, NEW s \in Subs, StoreKnown(s), RowFollows(s),
         NEW n \in 1 .. Len(sent), AppleNotice(n) \/ GoogleRevoked(n)
  PROVE  RowFollows(s)'
  <1> PICK t : t = sent[n].item
    OBVIOUS
  <1>1. /\ UNCHANGED <<now, shop, sent>> /\ t \in Items /\ Packs \cap Subs = {}
        /\ n \in Of(s) <=> t = s
    BY NoticeTypes, Constants DEF AppleNotice, GoogleRevoked, store, Of
  <1>2. CASE t \in Packs
    <2>1. /\ handled' = handled \cup {n} /\ UNCHANGED <<sub, bought>>
          /\ slipped \subseteq slipped'
      BY <1>2 DEF AppleNotice, GoogleRevoked, RefundPack, RecordOnly, purchases, plan
    <2>2. n \notin Of(s)
      BY <1>1, <1>2
    <2> QED
      BY <1>1, <2>1, <2>2, RowPutAside
  <1>3. CASE t \in Subs /\ t # s
    <2>1. PICK change, late : ApplySubscriptionChange(n, t, change, late)
      BY <1>1, <1>3 DEF AppleNotice, GoogleRevoked
    <2>2. CASE n \in handled \/ t \notin bought \/ sub.of # t \/ Stale(change)
      <3>1. handled' = handled \cup {n} /\ UNCHANGED <<sub, bought, slipped>>
        BY <2>1, <2>2 DEF ApplySubscriptionChange, RecordOnly, purchases, plan
      <3> QED
        BY <1>1, <1>3, <3>1, RowPutAside
    <2>3. CASE ~ (n \in handled \/ t \notin bought \/ sub.of # t \/ Stale(change))
      <3>1. WriteSubscription([of |-> t, status |-> change.status,
              end |-> Later(sub.end, change.end),
              grace |-> IF change.grace # NoDate THEN change.grace
                        ELSE IF change.status = "grace" THEN sub.grace ELSE 0])
        BY <2>1, <2>3 DEF ApplySubscriptionChange
      <3>2. sub'.of = t
        BY <3>1 DEF WriteSubscription
      <3> QED
        BY <1>3, <3>2 DEF RowFollows
    <2> QED
      BY <2>2, <2>3
  <1>4. CASE t = s /\ AppleNotice(n)
    <2>1. PICK late :
            /\ late <=> \/ sent[n].kind = "renewed" /\ Overtaken(s, n, Undone)
                        \/ sent[n].kind = "grace" /\ Overtaken(s, n, {"revoked"})
            /\ ApplySubscriptionChange(n, s, AppleChange(sent[n]), late)
      BY <1>1, <1>4 DEF AppleNotice
    <2> QED
      BY <1>1, <1>4, <2>1, RowApple DEF AppleNotice
  <1>5. CASE t = s /\ GoogleRevoked(n)
    BY <1>1, <1>5, RowGoogleRevoked DEF GoogleRevoked
  <1> QED
    BY <1>1, <1>2, <1>3, <1>4, <1>5, Constants

----------------------------------------------------------------------------
(* Every call has read what was so, also one that has just asked.              *)
LEMMA ReadingsRest ==
  ASSUME IInv, CInv, SInv, NEW s \in Subs, NEW c \in Calls,
         Quiet(s) \/ Spoke(s), job'[c] \in {job[c], Idle}, job'[c].item = s
  PROVE  ReadAt(c, s)' /\ job'[c].at <= Len(sent')
  <1>1. job'[c] = job[c]
    BY Constants DEF Idle
  <1>2. ReadAt(c, s) /\ job[c].at <= Len(sent)
    BY <1>1 DEF SInv
  <1> QED
    BY <1>1, <1>2, ReadingRests

(* A step that the store takes no part in.                                     *)
LEMMA StillInv ==
  ASSUME IInv, CInv, SInv, NEW s \in Subs, Quiet(s), NEW c \in Calls,
         \A d \in Calls \ {c} : job'[d] = job[d],
         job'[c] \in {job[c], Idle} \/ (job'[c].item = s => ReadAt(c, s)' /\ job'[c].at <= Len(sent')),
         RowFollows(s)'
  PROVE  /\ StoreKnown(s)'
         /\ \A d \in Calls : job'[d].item = s => ReadAt(d, s)' /\ job'[d].at <= Len(sent')
         /\ RowFollows(s)'
  <1>1. StoreKnown(s)'
    BY StoreRests DEF SInv
  <1>2. ASSUME NEW d \in Calls, job'[d].item = s
        PROVE  ReadAt(d, s)' /\ job'[d].at <= Len(sent')
    BY <1>2, ReadingsRest
  <1> QED
    BY <1>1, <1>2

LEMMA InitStore == Init => SInv
  <1> SUFFICES ASSUME Init, NEW s \in Subs
               PROVE  /\ StoreKnown(s)
                      /\ \A c \in Calls : job[c].item # s
                      /\ sub.of # s
    BY DEF SInv, RowFollows
  <1>1. s \in Items /\ s # Nothing
    BY Constants
  <1>2. Of(s) = {}
    BY DEF Init, Of
  <1>3. shop[s].state = "none"
    BY <1>1 DEF Init
  <1>4. StoreKnown(s)
    BY <1>2, <1>3 DEF StoreKnown, StoreTells, StoreDates, PeriodTold
  <1> QED
    BY <1>1, <1>4 DEF Init, Idle

LEMMA NextStore == IInv /\ CInv /\ SInv /\ [Next]_vars => SInv'
  <1> SUFFICES ASSUME IInv, CInv, SInv, [Next]_vars, NEW s \in Subs
               PROVE  /\ StoreKnown(s)'
                      /\ \A c \in Calls : job'[c].item = s => ReadAt(c, s)' /\ job'[c].at <= Len(sent')
                      /\ RowFollows(s)'
    BY DEF SInv
  <1>0. /\ \A t \in Subs : StoreKnown(t)
        /\ StoreKnown(s) /\ RowFollows(s) /\ now \in Nat /\ Len(sent) \in Nat
        /\ \A c \in Calls : job[c].item = s => ReadAt(c, s) /\ job[c].at <= Len(sent)
    BY Dated DEF SInv
  <1>1. ASSUME Quiet(s), handled' = handled, UNCHANGED <<sub, job>>,
               bought \subseteq bought', slipped \subseteq slipped'
        PROVE  /\ StoreKnown(s)'
               /\ \A c \in Calls : job'[c].item = s => ReadAt(c, s)' /\ job'[c].at <= Len(sent')
               /\ RowFollows(s)'
    <2>1. Of(s)' = Of(s)
      BY <1>1 DEF Quiet
    <2>2. RowFollows(s)'
      BY <1>0, <1>1, <2>1, RowRests
    <2> QED
      BY <1>0, <1>1, <2>2, StoreRests, ReadingsRest
  <1>2. CASE Tick
    <2>1. Of(s)' = Of(s)
      BY <1>2 DEF Tick, Of, store
    <2>2. Quiet(s) /\ handled' = handled /\ UNCHANGED <<sub, job, bought, slipped>>
      BY <1>0, <1>2, <2>1 DEF Tick, Quiet, store, server, plan, purchases
    <2> QED
      BY <1>1, <2>2
  <1>3. CASE UNCHANGED vars \/ \E e \in events : Deliver(e)
    <2>1. UNCHANGED <<shop, sent, now, handled, sub, job, bought, slipped>>
      BY <1>3 DEF Deliver, vars, store, server, plan, purchases
    <2> QED
      BY <1>1, <2>1, StillQuiet
  <1>4. CASE \E i \in Items : FinishQueued(i)
    <2>1. UNCHANGED <<shop, sent, now, handled, sub, job, bought, slipped>>
      BY <1>4 DEF FinishQueued, store, plan
    <2> QED
      BY <1>1, <2>1, StillQuiet
  <1>5. CASE SetPlan \/ ClearPlan
    <2>1. /\ UNCHANGED <<shop, sent, now, job>> /\ sub'.of = Operator
          /\ Operator # s
      BY <1>5, PurchasesAssumption DEF SetPlan, ClearPlan, store, Items
    <2>2. RowFollows(s)'
      BY <2>1 DEF RowFollows
    <2> QED
      BY <1>0, <2>1, <2>2, StillQuiet, StoreRests, ReadingsRest
  <1>6. ASSUME NEW i \in Items, StoreStep(i)
        PROVE  /\ StoreKnown(s)'
               /\ \A c \in Calls : job'[c].item = s => ReadAt(c, s)' /\ job'[c].at <= Len(sent')
               /\ RowFollows(s)'
    <2>1. UNCHANGED server /\ StoreKnown(s)' /\ (Quiet(s) \/ Spoke(s))
      BY <1>0, <1>6, StoreTurns
    <2>2. UNCHANGED <<handled, sub, job, bought, slipped>>
      BY <2>1 DEF server, plan, purchases
    <2>3. \A c \in Calls : job'[c].item = s => ReadAt(c, s)' /\ job'[c].at <= Len(sent')
      BY <2>1, <2>2, ReadingsRest
    <2>4. handled' \cap Of(s)' = handled \cap Of(s)
      <3>1. CASE Quiet(s)
        BY <2>2, <3>1 DEF Quiet
      <3>2. CASE Spoke(s)
        <4>1. Of(s)' = Of(s) \cup {Len(sent) + 1} /\ Len(sent) + 1 \notin 1 .. Len(sent)
          BY <1>0, <3>2 DEF Spoke
        <4>2. handled \subseteq 1 .. Len(sent)
          BY Dated
        <4> QED
          BY <2>2, <4>1, <4>2
      <3> QED
        BY <2>1, <3>1, <3>2
    <2>5. RowFollows(s)'
      BY <1>0, <2>1, <2>2, <2>4, RowRests
    <2> QED
      BY <2>1, <2>3, <2>5
  <1>7. ASSUME NEW c \in Calls, Grant(c) \/ Fail(c)
        PROVE  /\ StoreKnown(s)'
               /\ \A d \in Calls : job'[d].item = s => ReadAt(d, s)' /\ job'[d].at <= Len(sent')
               /\ RowFollows(s)'
    <2>1. /\ UNCHANGED <<shop, sent, now, handled, sub>>
          /\ bought \subseteq bought' /\ slipped \subseteq slipped' /\ Return(c)
      BY <1>7 DEF Grant, Fail, RecordPurchase, store, plan, purchases
    <2>2. Quiet(s) /\ Of(s)' = Of(s)
      BY <2>1, StillQuiet
    <2>3. RowFollows(s)'
      BY <1>0, <2>1, <2>2, RowRests
    <2>4. job'[c] = Idle /\ \A d \in Calls \ {c} : job'[d] = job[d]
      BY <2>1, JobSteps DEF Return, IInv
    <2> QED
      BY <2>2, <2>3, <2>4, StillInv
  <1>8. ASSUME NEW c \in Calls, Activate(c) \/ GoogleApply(c)
        PROVE  /\ StoreKnown(s)'
               /\ \A d \in Calls : job'[d].item = s => ReadAt(d, s)' /\ job'[d].at <= Len(sent')
               /\ RowFollows(s)'
    <2>1. UNCHANGED <<shop, sent, now>> /\ Return(c)
      BY <1>8 DEF Activate, GoogleApply, store
    <2>2. ASSUME Activate(c), job[c].item = s PROVE RowFollows(s)'
      BY <1>0, <2>2, RowActivated
    <2>3. ASSUME Activate(c), job[c].item # s PROVE RowFollows(s)'
      <3>1. sub'.of = job[c].item
        BY <2>3 DEF Activate, WriteSubscription
      <3> QED
        BY <2>3, <3>1 DEF RowFollows
    <2>4. ASSUME GoogleApply(c) PROVE RowFollows(s)'
      <3>1. job[c].item # s => job[c].note \notin Of(s)
        <4>1. job[c].item \in Subs /\ job[c].pc \in {"apply", "stale"}
          BY <2>4 DEF GoogleApply, IInv, JobShape
        <4>2. job[c].note \in Of(job[c].item)
          BY <4>1 DEF SInv, ReadAt
        <4> QED
          BY <4>2 DEF Of
      <3> QED
        BY <1>0, <2>4, <3>1, RowGoogleApplied
    <2>5. job'[c] = Idle /\ \A d \in Calls \ {c} : job'[d] = job[d]
      BY <2>1, JobSteps DEF Return, IInv
    <2>6. Quiet(s)
      BY <2>1, StillQuiet
    <2>7. RowFollows(s)'
      BY <1>8, <2>2, <2>3, <2>4
    <2> QED
      BY <2>5, <2>6, <2>7, StillInv
  <1>9. ASSUME NEW c \in Calls, NEW i \in Items, Verify(c, i)
        PROVE  /\ StoreKnown(s)'
               /\ \A d \in Calls : job'[d].item = s => ReadAt(d, s)' /\ job'[d].at <= Len(sent')
               /\ RowFollows(s)'
    <2>1. UNCHANGED <<shop, sent, now, handled, sub, bought, slipped>>
      BY <1>9 DEF Verify, store, plan, purchases
    <2>2. Quiet(s) /\ Of(s)' = Of(s)
      BY <2>1, StillQuiet
    <2>3. RowFollows(s)'
      BY <1>0, <2>1, <2>2, RowRests
    <2>4. job'[c].item = i /\ \A d \in Calls \ {c} : job'[d] = job[d]
      BY <1>9 DEF Verify, IInv, Shapes
    <2>5. job'[c].item = s => ReadAt(c, s)' /\ job'[c].at <= Len(sent')
      BY <1>0, <1>9, <2>4, VerifyReads
    <2> QED
      BY <2>2, <2>3, <2>4, <2>5, StillInv
  <1>10. ASSUME NEW c \in Calls, NEW n \in 1 .. Len(sent), GoogleRead(c, n)
         PROVE  /\ StoreKnown(s)'
                /\ \A d \in Calls : job'[d].item = s => ReadAt(d, s)' /\ job'[d].at <= Len(sent')
                /\ RowFollows(s)'
    <2>1. UNCHANGED <<shop, sent, now, handled, sub, bought, slipped>>
      BY <1>10 DEF GoogleRead, store, plan, purchases
    <2>2. Quiet(s) /\ Of(s)' = Of(s)
      BY <2>1, StillQuiet
    <2>3. RowFollows(s)'
      BY <1>0, <2>1, <2>2, RowRests
    <2>4. job'[c].item = sent[n].item /\ \A d \in Calls \ {c} : job'[d] = job[d]
      BY <1>10 DEF GoogleRead, IInv, Shapes
    <2>5. job'[c].item = s => ReadAt(c, s)' /\ job'[c].at <= Len(sent')
      BY <1>0, <1>10, <2>4, GoogleReads
    <2> QED
      BY <2>2, <2>3, <2>4, <2>5, StillInv
  <1>11. ASSUME NEW n \in 1 .. Len(sent), AppleNotice(n) \/ GoogleRevoked(n)
         PROVE  /\ StoreKnown(s)'
                /\ \A d \in Calls : job'[d].item = s => ReadAt(d, s)' /\ job'[d].at <= Len(sent')
                /\ RowFollows(s)'
    <2>1. UNCHANGED <<shop, sent, now, job>>
      BY <1>11 DEF AppleNotice, GoogleRevoked, store
    <2>2. RowFollows(s)'
      BY <1>0, <1>11, RowNoticed
    <2> QED
      BY <1>0, <2>1, <2>2, StillQuiet, StoreRests, ReadingsRest
  <1> QED
    BY <1>2, <1>3, <1>4, <1>5, <1>6, <1>7, <1>8, <1>9, <1>10, <1>11 DEF Next, CallStep

(* A row that has heard everything entitles exactly while the store is paid.   *)
LEMMA RowIsTrue == IInv /\ CInv /\ SInv => StoreIsFollowed
  <1> SUFFICES ASSUME IInv, CInv, SInv, NEW s \in Subs, sub.of = s, Followed(s)
               PROVE  Entitled(sub) <=> PaidFor(s)
    BY DEF StoreIsFollowed
  <1>0. /\ now \in Nat /\ shop[s].end \in Nat /\ shop[s].until \in Nat
        /\ shop[s].state \in States /\ sub.end \in Nat /\ sub.grace \in Nat
        /\ sub.status \in {"active", "grace", "lapsed"}
        /\ \A n \in Of(s) : sent[n].end \in Nat /\ sent[n].until \in Nat
    BY Dated
  <1>1. /\ StoreTells(s) /\ StoreDates(s) /\ PeriodTold(s)
        /\ DatesFollow(s) /\ StatusFollows(s) /\ shop[s].state # "none"
    BY DEF SInv, StoreKnown, RowFollows, Followed, DatesFollow
  <1>2. \A n \in Of(s) : n \in handled
    BY DEF Followed, Of
  <1>3. Heard(s)
    BY <1>1, <1>2 DEF StoreTells, Heard
  <1>4. CASE s \notin OnAndroid
    <2>1. ~ Gone(s)
      BY <1>4 DEF Gone
    <2>2. PICK n \in Of(s) : Extends(n) /\ sent[n].end = shop[s].end
      BY <1>1, <1>4 DEF StoreTells
    <2>3. sub.end = shop[s].end
      <3>1. sent[n].end <= sub.end /\ sub.end <= shop[s].end
        BY <1>1, <1>2, <2>1, <2>2 DEF StatusFollows, DatesFollow
      <3> QED
        BY <1>0, <2>2, <3>1
    <2>4. CASE shop[s].state = "paid"
      <3>1. sub.status = "active" /\ shop[s].until = shop[s].end
        BY <1>1, <1>4, <2>3, <2>4 DEF StatusFollows, StoreDates
      <3> QED
        BY <1>0, <2>3, <2>4, <3>1 DEF Entitled, PaidFor
    <2>5. ASSUME sub.status = "grace", shop[s].state \in {"grace", "ended", "hold"}
          PROVE  sub.grace = shop[s].until /\ shop[s].state # "hold"
      <3>1. PICK m \in handled \cap Of(s) :
              sent[m].kind = "grace" /\ sent[m].until = sub.grace /\ sub.end <= sent[m].end
        BY <1>1, <1>4, <2>5 DEF DatesFollow
      <3>2. sent[m].end = shop[s].end
        <4>1. sent[m].end <= shop[s].end
          BY <1>1, <2>1, <3>1 DEF StoreTells
        <4> QED
          BY <1>0, <2>3, <3>1, <4>1
      <3> QED
        BY <1>1, <1>4, <2>5, <3>1, <3>2 DEF PeriodTold
    <2>6. CASE shop[s].state = "grace"
      <3>1. sub.status = "grace" /\ shop[s].end <= now
        BY <1>1, <1>3, <1>4, <2>3, <2>6 DEF StatusFollows, StoreDates
      <3>2. sub.grace = shop[s].until
        BY <2>5, <2>6, <3>1
      <3> QED
        BY <1>0, <2>3, <2>6, <3>1, <3>2 DEF Entitled, PaidFor, Later
    <2>7. CASE shop[s].state \in {"hold", "ended"}
      <3>1. shop[s].end <= now /\ (shop[s].state = "ended" => shop[s].until <= now)
        BY <1>1, <2>7 DEF StoreDates
      <3>2. sub.status = "grace" => sub.grace <= now
        BY <1>0, <2>5, <2>7, <3>1
      <3> QED
        BY <1>0, <2>3, <2>7, <3>1, <3>2 DEF Entitled, PaidFor, Later
    <2>8. CASE shop[s].state = "revoked"
      <3>1. sub.status = "lapsed"
        BY <1>1, <1>3, <2>3, <2>8 DEF StatusFollows
      <3> QED
        BY <2>8, <3>1 DEF Entitled, PaidFor
    <2> QED
      BY <1>0, <1>1, <2>4, <2>6, <2>7, <2>8 DEF States
  <1>5. CASE s \in OnAndroid
    <2>0. sub.grace <= sub.end
      BY <1>1, <1>5 DEF DatesFollow
    <2>1. Entitled(sub) <=> sub.status # "lapsed" /\ now < sub.end
      BY <1>0, <2>0 DEF Entitled, Later
    <2>2. CASE shop[s].state = "revoked"
      <3>1. sub.status = "lapsed"
        BY <1>1, <1>3, <1>5, <2>2 DEF StatusFollows
      <3> QED
        BY <2>1, <2>2, <3>1 DEF PaidFor
    <2>3. CASE shop[s].state \in {"hold", "ended"}
      <3>1. sub.end <= shop[s].end /\ shop[s].end <= now
        BY <1>1, <2>3 DEF DatesFollow, StoreDates, Gone
      <3>2. ~ (now < sub.end)
        BY <1>0, <3>1
      <3> QED
        BY <2>1, <2>3, <3>2 DEF PaidFor
    <2>4. CASE shop[s].state \in {"paid", "grace"}
      <3>1. ~ Gone(s) /\ shop[s].until = shop[s].end
        BY <1>1, <1>5, <2>4 DEF Gone, StoreDates
      <3>2. PICK n \in Of(s) : Extends(n) /\ sent[n].end = shop[s].end
        BY <1>1, <2>4 DEF StoreTells
      <3>3. sub.end = shop[s].end
        <4>1. sent[n].end <= sub.end /\ sub.end <= shop[s].end
          BY <1>1, <1>2, <3>1, <3>2 DEF StatusFollows, DatesFollow
        <4> QED
          BY <1>0, <3>2, <4>1
      <3>4. now < shop[s].end => sub.status # "lapsed"
        BY <1>1, <1>3, <1>5, <2>4 DEF StatusFollows
      <3> QED
        BY <1>0, <2>1, <2>4, <3>1, <3>3, <3>4 DEF PaidFor
    <2> QED
      BY <1>0, <1>1, <2>2, <2>3, <2>4 DEF States
  <1> QED
    BY <1>4, <1>5

(* When the notifications of a subscription have all arrived, in whatever      *)
(* order, the account is entitled exactly while the store says it has paid     *)
(* (notifications.go, applySubscriptionChange).                                *)
THEOREM StoreIsAlwaysFollowed == Spec => []StoreIsFollowed
  <1>1. Init => IInv /\ CInv /\ SInv
    BY InitInv, InitCache, InitStore
  <1>2. IInv /\ CInv /\ SInv /\ [Next]_vars => (IInv /\ CInv /\ SInv)'
    BY NextInv, NextCache, NextStore
  <1>3. Spec => [](IInv /\ CInv /\ SInv)
    BY <1>1, <1>2, PTL DEF Spec
  <1> QED
    BY <1>3, RowIsTrue, PTL
=============================================================================
