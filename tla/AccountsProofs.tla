--------------------------- MODULE AccountsProofs ---------------------------
(* Proofs about Accounts for any accounts, calls and modules to be told.       *)
EXTENDS Accounts, TLAPS

(* What a call may have left to do: what is left of some script.               *)
Rests ==
  {<<>>, <<"session">>, <<"name">>, <<"delete">>,
   <<"identity", "session">>, <<"identity", "clearGuest", "session">>}
  \cup {<<w, "session">> : w \in Writes}
  \cup {<<"create", "session">>, <<"create", "identity", "session">>,
        <<"create", "email", "session">>}

(* Calls: each knows its account, and a call inside a write holds its row.     *)
CallShape ==
  /\ \A c \in Calls : todo[c] \in Rests
  /\ \A c \in Calls : pc[c] # "idle" => who[c] \in born
  /\ \A c \in Calls : pc[c] \in {"locked", "committed", "stamped"} => todo[c] # <<>>
  /\ \A c \in Calls : pc[c] = "locked" =>
       /\ who[c] \in alive /\ read[c] = row[who[c]]
       /\ version[who[c]] < MaxVersion /\ Step(c) \in Writes
  /\ \A c, d \in Calls :
       pc[c] = "locked" /\ pc[d] = "locked" /\ who[c] = who[d] => c = d

(* Deletions: announced once, settled only when everybody has carried it out.  *)
Erased ==
  \A u \in Users :
    /\ announced[u] = IF u \in born \ alive THEN 1 ELSE 0
    /\ u \in due => u \notin alive
    /\ u \in born \ (alive \cup due) => told[u] = Len(Modules)

(* Where a script is that has an identity to insert.                           *)
Linked == {<<"identity", "session">>, <<"create", "identity", "session">>}

(* A guest has proved nothing; one who has a provider is half way through a    *)
(* link; and what the sweep has chosen is a guest until it is written to.      *)
Guests ==
  /\ \A u \in alive : row[u].guest = TRUE =>
       row[u].proofs = {} /\ (u \in linked => u \in halfway)
  /\ \A c \in Calls :
       pc[c] # "idle"
         /\ todo[c] \in Linked =>
       row[who[c]].guest = FALSE
  /\ \A u \in (marked \cap alive) \ overtaken : row[u].guest = TRUE

IInv ==
  /\ TypeOK
  /\ CallShape
  /\ TrustIsEarned
  /\ Erased
  /\ Guests

----------------------------------------------------------------------------
LEMMA Words ==
  /\ Writes \subseteq Steps
  /\ {"create", "identity", "session", "delete", "name", "clearGuest", "email"} \subseteq Steps
  /\ "name" \in Writes /\ "clearGuest" \in Writes /\ "email" \in Writes
  /\ "identity" \notin Writes /\ "session" \notin Writes /\ "delete" \notin Writes
  /\ "create" \notin Writes /\ "end" \notin Writes
  /\ Proofs \subseteq Writes /\ "name" \notin Proofs /\ "clearGuest" \notin Proofs
  /\ "unknownCompany" \in Writes /\ "unknownCompany" \notin Proofs
  BY DEF Writes, Steps, Proofs

LEMMA RestTypes ==
  /\ \A s \in Rests : s \in Seq(Steps)
  /\ \A s \in Rests : s # <<>> => Tail(s) \in Rests /\ Head(s) \in Steps
  /\ \A s \in Rests : s # <<>> /\ Tail(s) \in Linked =>
       s = <<"create", "identity", "session">>
  <1>1. ASSUME NEW w \in Steps
        PROVE  /\ <<w>> \in Seq(Steps) /\ <<w, "session">> \in Seq(Steps)
               /\ Tail(<<w>>) = <<>> /\ Head(<<w>>) = w
               /\ Tail(<<w, "session">>) = <<"session">> /\ Head(<<w, "session">>) = w
               /\ \A v \in Steps :
                    /\ <<w, v, "session">> \in Seq(Steps)
                    /\ Tail(<<w, v, "session">>) = <<v, "session">>
                    /\ Head(<<w, v, "session">>) = w
    BY Words
  <1>2. \A w \in Writes : <<w, "session">> \in Rests
    BY DEF Rests
  <1>3. /\ <<>> \in Rests /\ <<"session">> \in Rests /\ <<"identity", "session">> \in Rests
        /\ <<"clearGuest", "session">> \in Rests /\ <<"email", "session">> \in Rests
    BY <1>2, Words DEF Rests
  <1>4. \A s \in Rests :
          \/ s = <<>> \/ s = <<"session">> \/ s = <<"name">> \/ s = <<"delete">>
          \/ s = <<"identity", "session">> \/ s = <<"identity", "clearGuest", "session">>
          \/ \E w \in Writes : s = <<w, "session">>
          \/ s = <<"create", "session">> \/ s = <<"create", "identity", "session">>
          \/ s = <<"create", "email", "session">>
    BY DEF Rests
  <1>5. /\ "create" \in Steps /\ "identity" \in Steps /\ "session" \in Steps
        /\ "delete" \in Steps /\ "name" \in Steps /\ "clearGuest" \in Steps
        /\ "email" \in Steps
    BY Words
  <1>6. ASSUME NEW s \in Rests
        PROVE  /\ s \in Seq(Steps)
               /\ s # <<>> => Tail(s) \in Rests /\ Head(s) \in Steps
               /\ s # <<>> /\ Tail(s) \in Linked =>
                    s = <<"create", "identity", "session">>
    <2>1. CASE s = <<>>
      BY <2>1
    <2>2. CASE s \in {<<"session">>, <<"name">>, <<"delete">>}
      <3>1. PICK w \in Steps : s = <<w>>
        BY <2>2, <1>5
      <3>2. Tail(s) = <<>> /\ Head(s) = w /\ s \in Seq(Steps)
        BY <1>1, <3>1
      <3>3. <<>> \notin Linked
        BY DEF Linked
      <3> QED
        BY <3>2, <3>3, <1>3
    <2>3. CASE \E w \in Writes : s = <<w, "session">>
      <3>1. PICK w \in Steps : s = <<w, "session">>
        BY <2>3, Words
      <3>2. Tail(s) = <<"session">> /\ Head(s) = w /\ s \in Seq(Steps)
        BY <1>1, <3>1
      <3>3. <<"session">> \notin Linked
        BY DEF Linked
      <3> QED
        BY <3>2, <3>3, <1>3
    <2>4. CASE s \in {<<"identity", "session">>, <<"create", "session">>}
      <3>1. PICK w \in Steps : s = <<w, "session">>
        BY <2>4, <1>5
      <3>2. Tail(s) = <<"session">> /\ Head(s) = w /\ s \in Seq(Steps)
        BY <1>1, <3>1
      <3>3. <<"session">> \notin Linked
        BY DEF Linked
      <3> QED
        BY <3>2, <3>3, <1>3
    <2>5. CASE s = <<"identity", "clearGuest", "session">>
      <3>1. Tail(s) = <<"clearGuest", "session">> /\ Head(s) \in Steps /\ s \in Seq(Steps)
        BY <1>1, <1>5, <2>5
      <3>2. <<"clearGuest", "session">> \notin Linked
        BY DEF Linked
      <3> QED
        BY <3>1, <3>2, <1>3
    <2>6. CASE s = <<"create", "identity", "session">>
      <3>1. Tail(s) = <<"identity", "session">> /\ Head(s) \in Steps /\ s \in Seq(Steps)
        BY <1>1, <1>5, <2>6
      <3> QED
        BY <2>6, <3>1, <1>3
    <2>7. CASE s = <<"create", "email", "session">>
      <3>1. Tail(s) = <<"email", "session">> /\ Head(s) \in Steps /\ s \in Seq(Steps)
        BY <1>1, <1>5, <2>7
      <3>2. <<"email", "session">> \notin Linked
        BY DEF Linked
      <3> QED
        BY <3>1, <3>2, <1>3
    <2> QED
      BY <1>4, <2>1, <2>2, <2>3, <2>4, <2>5, <2>6, <2>7
  <1> QED
    BY <1>6

LEMMA ScriptHeads ==
  ASSUME NEW s \in Rests, s # <<>>, Head(s) = "identity"
  PROVE  s = <<"identity", "session">> \/ s = <<"identity", "clearGuest", "session">>
  <1>1. "identity" \notin Writes
    BY Words
  <1>2. s # <<"session">> /\ s # <<"name">> /\ s # <<"delete">>
    OBVIOUS
  <1>3. \A w \in Writes : s # <<w, "session">>
    BY <1>1
  <1>4. /\ s # <<"create", "session">> /\ s # <<"create", "identity", "session">>
        /\ s # <<"create", "email", "session">>
    OBVIOUS
  <1> QED
    BY <1>2, <1>3, <1>4 DEF Rests

(* The level is of the columns, and a write says what becomes of them.         *)
LEMMA LevelFacts ==
  /\ \A r, s : r.guest = s.guest /\ r.proofs = s.proofs => TrustLevel(r) = TrustLevel(s)
  /\ \A r : TrustLevel(r) \in 0 .. 3
  BY DEF TrustLevel

LEMMA WrittenFacts ==
  ASSUME NEW r \in Row, NEW w \in Writes, NEW l \in 0 .. 3
  PROVE  /\ Written(r, w) \in Row /\ [Written(r, w) EXCEPT !.level = l] \in Row
         /\ Written(r, w).level = r.level
         /\ w = "name" => Written(r, w).guest = r.guest /\ Written(r, w).proofs = r.proofs
         /\ w # "name" => Written(r, w).guest = FALSE
         /\ [Written(r, w) EXCEPT !.level = l].guest = Written(r, w).guest
         /\ [Written(r, w) EXCEPT !.level = l].proofs = Written(r, w).proofs
         /\ [Written(r, w) EXCEPT !.level = l].level = l
  <1> DEFINE g == (w = "name" /\ r.guest)
             p == CASE w \in Proofs -> r.proofs \cup {w}
                    [] w = "unknownCompany" -> r.proofs \ {"work"}
                    [] OTHER -> r.proofs
  <1>1. /\ r = [guest |-> r.guest, proofs |-> r.proofs, level |-> r.level]
        /\ r.guest \in BOOLEAN /\ r.proofs \subseteq Proofs /\ r.level \in 0 .. 3
    BY DEF Row
  <1>2. g \in BOOLEAN /\ p \subseteq Proofs
    BY <1>1
  <1>3. Written(r, w) = [guest |-> g, proofs |-> p, level |-> r.level]
    <2>1. Written(r, w) = [r EXCEPT !.guest = g, !.proofs = p]
      BY DEF Written
    <2> HIDE DEF g, p
    <2> QED
      BY <1>1, <2>1
  <1>4. w = "name" => g = r.guest /\ p = r.proofs
    BY <1>1, Words
  <1>5. w # "name" => g = FALSE
    OBVIOUS
  <1> HIDE DEF g, p
  <1> QED
    BY <1>1, <1>2, <1>3, <1>4, <1>5 DEF Row

LEMMA Constants ==
  /\ NoUser \notin Users /\ Len(Modules) \in Nat /\ 0 < Len(Modules)
  /\ MaxVersion \in Nat /\ 1 <= MaxVersion
  /\ NoRow \in Row /\ NoRow.guest = FALSE /\ NoRow.proofs = {}
  /\ \A P \in Pasts : Settled(P) \in Row /\ Settled(P).guest = FALSE
                      /\ Settled(P).level = TrustLevel(Settled(P))
  <1>1. NoRow \in Row /\ NoRow.guest = FALSE /\ NoRow.proofs = {}
    BY DEF NoRow, Row
  <1>3. \A P \in Pasts : Settled(P) \in Row /\ Settled(P).guest = FALSE
                         /\ Settled(P).level = TrustLevel(Settled(P))
    BY AccountsAssumption, LevelFacts DEF Settled, Row
  <1> QED
    BY <1>1, <1>3, AccountsAssumption

LEMMA InitInv == Init => IInv
  <1> SUFFICES ASSUME Init PROVE IInv
    OBVIOUS
  <1>1. /\ row \in [Users -> Row] /\ alive = born /\ born \subseteq Users
        /\ \A u \in born : row[u] # NoRow /\ \E P \in Pasts : row[u] = Settled(P)
        /\ \A u \in Users : row[u].guest = FALSE
    BY Constants DEF Init
  <1>2. <<>> \in Seq(Steps) /\ <<>> \in Rests
    BY RestTypes DEF Rests
  <1>3. TypeOK
    BY <1>1, <1>2, Constants DEF Init, TypeOK, Absent
  <1>4. CallShape
    BY <1>2 DEF Init, CallShape
  <1>5. TrustIsEarned
    BY <1>1, Constants DEF TrustIsEarned
  <1>6. Erased
    BY <1>1 DEF Init, Erased
  <1>7. Guests
    BY <1>1 DEF Init, Guests
  <1> QED
    BY <1>3, <1>4, <1>5, <1>6, <1>7 DEF IInv

----------------------------------------------------------------------------
CallTypes ==
  /\ pc \in [Calls -> {"idle", "ready", "locked", "committed", "stamped"}]
  /\ who \in [Calls -> Users \cup {NoUser}]
  /\ todo \in [Calls -> Seq(Steps)]
  /\ read \in [Calls -> Row]
  /\ copy \in [Calls -> Nat] /\ at \in [Calls -> Nat]

Others(c) ==
  \A d \in Calls : d # c =>
    pc'[d] = pc[d] /\ who'[d] = who[d] /\ todo'[d] = todo[d] /\ read'[d] = read[d]

LEMMA Facts ==
  ASSUME IInv
  PROVE  /\ TypeOK /\ CallShape /\ TrustIsEarned /\ Erased /\ Guests /\ CallTypes
         /\ born \subseteq Users /\ alive \subseteq born /\ row \in [Users -> Row]
         /\ version \in [Users -> 0 .. MaxVersion]
         /\ linked \subseteq alive /\ signedIn \subseteq alive /\ idle \subseteq alive
         /\ access \subseteq born
         /\ \A c \in Calls : pc[c] # "idle" => who[c] \in born /\ who[c] \in Users
         /\ \A c \in Calls : todo[c] \in Rests
  BY DEF IInv, TypeOK, CallShape, CallTypes

LEMMA Moves ==
  ASSUME IInv, NEW c \in Calls
  PROVE  /\ Return(c) => /\ CallTypes' /\ Others(c) /\ pc'[c] = "idle" /\ todo'[c] = <<>>
                         /\ \A d \in Calls : todo'[d] \in Rests
         /\ todo[c] # <<>> /\ NextStep(c) =>
              /\ CallTypes' /\ Others(c) /\ pc'[c] = "ready" /\ todo'[c] = Tail(todo[c])
              /\ who' = who
              /\ \A d \in Calls : todo'[d] \in Rests
  <1>1. CallTypes /\ \A d \in Calls : todo[d] \in Rests
    BY Facts
  <1>2. <<>> \in Rests /\ <<>> \in Seq(Steps) /\ NoRow \in Row
    BY RestTypes, Constants DEF Rests
  <1>3. todo[c] # <<>> => Tail(todo[c]) \in Rests /\ Tail(todo[c]) \in Seq(Steps)
    BY <1>1, RestTypes
  <1>4. ASSUME Return(c)
        PROVE  /\ CallTypes' /\ Others(c) /\ pc'[c] = "idle" /\ todo'[c] = <<>>
               /\ \A d \in Calls : todo'[d] \in Rests
    BY <1>1, <1>2, <1>4 DEF CallTypes, Return, Others
  <1>5. ASSUME todo[c] # <<>>, NextStep(c)
        PROVE  /\ CallTypes' /\ Others(c) /\ pc'[c] = "ready" /\ todo'[c] = Tail(todo[c])
               /\ who' = who
               /\ \A d \in Calls : todo'[d] \in Rests
    <2>1. /\ pc' = [pc EXCEPT ![c] = "ready"] /\ who' = who
          /\ read' = [read EXCEPT ![c] = NoRow] /\ copy' = [copy EXCEPT ![c] = 0]
          /\ at' = [at EXCEPT ![c] = 0]
      BY <1>5 DEF NextStep
    <2>2. PICK t \in Rests \cap Seq(Steps) :
            t = Tail(todo[c]) /\ todo' = [todo EXCEPT ![c] = t]
      BY <1>3, <1>5 DEF NextStep
    <2> QED
      BY <1>1, <1>2, <2>1, <2>2 DEF CallTypes, Others
  <1> QED
    BY <1>4, <1>5

(* Where a call stands, when it does one of its steps.                         *)
LEMMA NonEmpty ==
  ASSUME IInv, NEW c \in Calls, Step(c) # "end"
  PROVE  todo[c] # <<>> /\ Step(c) = Head(todo[c])
  BY DEF Step

(* Calls stay well formed when one of them moves and no row it relies on does. *)
LEMMA ShapeInv ==
  ASSUME IInv, NEW c \in Calls, CallTypes', Others(c),
         \A d \in Calls : todo'[d] \in Rests,
         born \subseteq born', pc'[c] # "idle" => who'[c] \in born',
         pc'[c] \in {"committed", "stamped"} => todo'[c] # <<>>,
         pc'[c] # "locked",
         \A d \in Calls \ {c} : pc[d] = "locked" =>
           /\ who[d] \in alive' /\ row'[who[d]] = row[who[d]]
           /\ version'[who[d]] = version[who[d]]
  PROVE  CallShape'
  <1>1. \A d \in Calls : d # c => Step(d)' = Step(d)
    BY DEF Step, Others
  <1>2. \A d \in Calls : pc'[d] # "idle" => who'[d] \in born'
    BY Facts DEF Others
  <1>3. \A d \in Calls : pc'[d] \in {"locked", "committed", "stamped"} => todo'[d] # <<>>
    BY Facts DEF Others, CallShape
  <1>4. \A d \in Calls : pc'[d] = "locked" =>
          /\ who'[d] \in alive' /\ read'[d] = row'[who'[d]]
          /\ version'[who'[d]] < MaxVersion /\ Step(d)' \in Writes
    BY <1>1, Facts DEF Others, CallShape
  <1>5. \A d, e \in Calls :
          pc'[d] = "locked" /\ pc'[e] = "locked" /\ who'[d] = who'[e] => d = e
    BY Facts DEF Others, CallShape
  <1> QED
    BY <1>2, <1>3, <1>4, <1>5 DEF CallShape

(* A step that only moves a call on.                                           *)
LEMMA QuietInv ==
  ASSUME IInv, NEW c \in Calls, CallTypes', Others(c),
         \A d \in Calls : todo'[d] \in Rests,
         pc'[c] # "idle" => who'[c] \in born,
         pc'[c] \in {"committed", "stamped"} => todo'[c] # <<>>,
         pc'[c] # "locked",
         pc'[c] # "idle"
           /\ todo'[c] \in Linked =>
             row[who'[c]].guest = FALSE,
         UNCHANGED <<born, alive, row, version, linked, idle, marked, due, told, announced,
                     halfway, overtaken>>,
         signedIn' \subseteq alive, access' \subseteq born, clock' \in Nat,
         cache' \in [Users -> [version : Nat, at : Nat]],
         overlap' \subseteq Users, lost' \subseteq Users
  PROVE  IInv'
  <1>1. TypeOK'
    BY Facts DEF TypeOK, CallTypes
  <1>2. CallShape'
    BY Facts, ShapeInv DEF CallShape
  <1>3. TrustIsEarned' /\ Erased'
    BY Facts DEF TrustIsEarned, Erased
  <1>4. Guests'
    BY Facts DEF Guests, Others
  <1> QED
    BY <1>1, <1>2, <1>3, <1>4 DEF IInv

LEMMA EndInv ==
  ASSUME IInv, NEW c \in Calls, IssueSession(c) \/ Finish(c) \/ Fail(c)
  PROVE  IInv'
  <1>1. /\ UNCHANGED <<born, alive, row, version, linked, idle, clock, marked, cache,
                       due, told, announced, overlap, halfway, overtaken>>
        /\ Return(c) /\ pc[c] # "idle"
    BY DEF IssueSession, Finish, Fail, account, erasure, history
  <1>2. /\ signedIn' \subseteq alive /\ access' \subseteq born
        /\ lost' \subseteq Users
    BY Facts, <1>1 DEF IssueSession, Finish, Fail, account, history, TypeOK
  <1>3. /\ clock \in Nat /\ cache \in [Users -> [version : Nat, at : Nat]]
        /\ overlap \subseteq Users
    BY Facts DEF TypeOK
  <1>4. /\ CallTypes' /\ Others(c) /\ pc'[c] = "idle"
        /\ \A d \in Calls : todo'[d] \in Rests
    BY <1>1, Moves
  <1> QED
    BY <1>1, <1>2, <1>3, <1>4, QuietInv

LEMMA StampInv ==
  ASSUME IInv, NEW c \in Calls, Stamp(c)
  PROVE  IInv'
  <1>1. /\ pc[c] = "committed" /\ pc[c] # "idle" /\ pc' = [pc EXCEPT ![c] = "stamped"]
        /\ clock' = clock + 1 /\ at' = [at EXCEPT ![c] = clock + 1]
        /\ UNCHANGED <<account, who, todo, read, copy, marked, cache, erasure, history>>
    BY DEF Stamp
  <1>2. clock \in Nat /\ clock + 1 \in Nat /\ cache \in [Users -> [version : Nat, at : Nat]]
        /\ overlap \subseteq Users /\ lost \subseteq Users
    BY Facts DEF TypeOK
  <1>3. CallTypes' /\ Others(c) /\ pc'[c] = "stamped" /\ who' = who /\ todo' = todo
    BY <1>1, <1>2, Facts DEF CallTypes, Others
  <1>4. /\ \A d \in Calls : todo'[d] \in Rests
        /\ who'[c] \in born /\ todo'[c] # <<>>
        /\ todo'[c] \in Linked =>
             row[who'[c]].guest = FALSE
    BY <1>1, <1>3, Facts DEF CallShape, Guests
  <1> QED
    BY <1>1, <1>2, <1>3, <1>4, Facts, QuietInv DEF account, erasure, history

LEMMA DeliverInv ==
  ASSUME IInv, NEW c \in Calls, Deliver(c)
  PROVE  IInv'
  <1>1. /\ pc[c] = "stamped" /\ pc[c] # "idle" /\ NextStep(c) /\ who[c] \in Users
        /\ UNCHANGED <<account, clock, marked, erasure, overlap, halfway, overtaken>>
    BY Facts DEF Deliver
  <1>2. /\ clock \in Nat /\ cache \in [Users -> [version : Nat, at : Nat]]
        /\ overlap \subseteq Users /\ lost \subseteq Users
        /\ copy[c] \in Nat /\ at[c] \in Nat
    BY Facts DEF TypeOK
  <1>3. /\ cache' \in [Users -> [version : Nat, at : Nat]] /\ lost' \subseteq Users
    BY <1>1, <1>2 DEF Deliver, Upsert
  <1>4. todo[c] # <<>> /\ todo[c] \in Rests
    BY <1>1, Facts DEF CallShape
  <1>5. /\ CallTypes' /\ Others(c) /\ pc'[c] = "ready" /\ todo'[c] = Tail(todo[c])
        /\ who' = who /\ \A d \in Calls : todo'[d] \in Rests
    BY <1>1, <1>4, Moves
  <1>6. todo'[c] \in Linked =>
          row[who[c]].guest = FALSE
    <2>1. todo'[c] \in Linked => todo[c] = <<"create", "identity", "session">>
      BY <1>4, <1>5, RestTypes
    <2> QED
      BY <1>1, <2>1, Facts DEF Guests, Linked
  <1> QED
    BY <1>1, <1>2, <1>3, <1>5, <1>6, Facts, QuietInv DEF account, erasure

LEMMA ScriptFacts ==
  ASSUME NEW u \in Users, row[u] \in Row, NEW s \in Scripts(u)
  PROVE  s \in Rests /\ s # <<>> /\ (s \in Linked => row[u].guest = FALSE)
  <1>1. ASSUME NEW w \in Writes, s = <<w, "session">>
        PROVE  s \in Rests /\ s # <<>> /\ s \notin Linked
    BY <1>1, Words DEF Rests, Linked
  <1>2. CASE s \in {<<"name">>, <<"delete">>}
    BY <1>2 DEF Rests, Linked
  <1>3. CASE s = Linking(u)
    BY <1>3 DEF Linking, Rests, Linked, Row
  <1>4. CASE \E w \in Writes : s = <<w, "session">>
    BY <1>1, <1>4
  <1>5. \/ s = Linking(u) \/ s \in {<<"name">>, <<"delete">>}
        \/ \E w \in Writes : s = <<w, "session">>
    BY Words DEF Scripts, Proofs, Writes
  <1> QED
    BY <1>2, <1>3, <1>4, <1>5

LEMMA BeginInv ==
  ASSUME IInv, NEW c \in Calls, NEW u \in Users, Begin(c, u)
  PROVE  IInv'
  <1>1. PICK s \in Scripts(u) : todo' = [todo EXCEPT ![c] = s]
    BY DEF Begin
  <1>2. /\ pc[c] = "idle" /\ u \in alive /\ u \in born /\ row[u] \in Row
        /\ pc' = [pc EXCEPT ![c] = "ready"] /\ who' = [who EXCEPT ![c] = u]
        /\ UNCHANGED <<account, read, copy, at, clock, marked, cache, erasure, history>>
    BY Facts DEF Begin
  <1>3. /\ s \in Rests /\ s \in Seq(Steps) /\ (s \in Linked => row[u].guest = FALSE)
    BY <1>1, <1>2, ScriptFacts, RestTypes
  <1>4. CallTypes' /\ Others(c) /\ pc'[c] = "ready" /\ who'[c] = u /\ todo'[c] = s
        /\ \A d \in Calls : todo'[d] \in Rests
    BY <1>1, <1>2, <1>3, Facts DEF CallTypes, Others
  <1>5. /\ clock \in Nat /\ cache \in [Users -> [version : Nat, at : Nat]]
        /\ overlap \subseteq Users /\ lost \subseteq Users
    BY Facts DEF TypeOK
  <1> QED
    BY <1>2, <1>3, <1>4, <1>5, Facts, QuietInv DEF account, erasure, history

LEMMA SignUpFacts ==
  ASSUME NEW s \in SignUps
  PROVE  /\ s.row.guest \in BOOLEAN /\ s.row.proofs \subseteq Proofs
         /\ s.row.guest = TRUE => s.row.proofs = {}
         /\ s.script \in Rests /\ s.script # <<>>
         /\ s.script \in Linked => s.row.guest = FALSE
  <1> DEFINE good(x) ==
        /\ x.row.guest \in BOOLEAN /\ x.row.proofs \subseteq Proofs
        /\ x.row.guest = TRUE => x.row.proofs = {}
        /\ x.script \in Rests /\ x.script # <<>>
        /\ x.script \in Linked => x.row.guest = FALSE
  <1>1. good([row |-> [guest |-> TRUE, proofs |-> {}], script |-> <<"create", "session">>])
    BY DEF Rests, Linked
  <1>2. good([row |-> [guest |-> FALSE, proofs |-> {"linkedin"}],
              script |-> <<"create", "session">>])
    BY DEF Rests, Linked, Proofs
  <1>3. good([row |-> [guest |-> FALSE, proofs |-> {}],
              script |-> <<"create", "identity", "session">>])
    BY DEF Rests
  <1>4. good([row |-> [guest |-> FALSE, proofs |-> {}],
              script |-> <<"create", "email", "session">>])
    BY DEF Rests
  <1>5. \A x \in SignUps : good(x)
    <2> HIDE DEF good
    <2> QED
      BY <1>1, <1>2, <1>3, <1>4 DEF SignUps
  <1> QED
    BY <1>5

LEMMA SignUpInv ==
  ASSUME IInv, NEW c \in Calls, NEW u \in Users, NEW s \in SignUps, SignUp(c, u, s)
  PROVE  IInv'
  <1> DEFINE r == [guest |-> s.row.guest, proofs |-> s.row.proofs, level |-> TrustLevel(s.row)]
             t == s.script
  <1>1. /\ u \notin born /\ born' = born \cup {u} /\ alive' = alive \cup {u}
        /\ row' = [row EXCEPT ![u] = r] /\ version' = [version EXCEPT ![u] = 1]
        /\ pc[c] = "idle" /\ pc' = [pc EXCEPT ![c] = "committed"]
        /\ who' = [who EXCEPT ![c] = u] /\ todo' = [todo EXCEPT ![c] = t]
        /\ copy' = [copy EXCEPT ![c] = 1]
        /\ UNCHANGED <<linked, signedIn, access, idle, read, at, clock, marked, cache,
                       due, told, announced, overlap, lost, halfway, overtaken>>
    BY DEF SignUp, erasure, history
  <1>2. /\ r \in Row /\ r.level = TrustLevel(r) /\ r.guest = s.row.guest
        /\ r.proofs = s.row.proofs
    BY SignUpFacts, LevelFacts DEF Row
  <1>3. t \in Rests /\ t # <<>> /\ t \in Seq(Steps) /\ (t \in Linked => r.guest = FALSE)
    BY SignUpFacts, RestTypes
  <1>4. /\ row' \in [Users -> Row] /\ row'[u] = r
        /\ \A v \in Users : v # u => row'[v] = row[v] /\ version'[v] = version[v]
        /\ version' \in [Users -> 0 .. MaxVersion]
    BY <1>1, <1>2, Facts, Constants
  <1> HIDE DEF r, t
  <1>5. CallTypes' /\ Others(c) /\ pc'[c] = "committed" /\ who'[c] = u /\ todo'[c] = t
        /\ \A d \in Calls : todo'[d] \in Rests
    BY <1>1, <1>3, Facts DEF CallTypes, Others
  <1>6. TypeOK'
    BY <1>1, <1>4, <1>5, Facts DEF TypeOK, CallTypes
  <1>7. CallShape'
    <2>1. \A d \in Calls \ {c} : pc[d] = "locked" =>
            /\ who[d] \in alive' /\ row'[who[d]] = row[who[d]]
            /\ version'[who[d]] = version[who[d]]
      <3> SUFFICES ASSUME NEW d \in Calls \ {c}, pc[d] = "locked"
                   PROVE  /\ who[d] \in alive' /\ row'[who[d]] = row[who[d]]
                          /\ version'[who[d]] = version[who[d]]
        OBVIOUS
      <3>1. who[d] \in alive /\ who[d] # u /\ who[d] \in Users
        BY <1>1, Facts DEF CallShape
      <3> QED
        BY <3>1, <1>1, <1>4
    <2>2. /\ born \subseteq born' /\ pc'[c] # "locked"
          /\ pc'[c] # "idle" => who'[c] \in born'
          /\ pc'[c] \in {"committed", "stamped"} => todo'[c] # <<>>
      BY <1>1, <1>3, <1>5
    <2> QED
      BY <1>5, <2>1, <2>2, ShapeInv
  <1>8. TrustIsEarned'
    BY <1>1, <1>2, <1>4, Facts DEF TrustIsEarned
  <1>9. Erased'
    BY <1>1, Facts DEF Erased, TypeOK
  <1>10. Guests'
    <2>1. \A v \in alive' : row'[v].guest = TRUE =>
            row'[v].proofs = {} /\ (v \in linked => v \in halfway)
      <3> SUFFICES ASSUME NEW v \in alive', row'[v].guest = TRUE
                   PROVE  row'[v].proofs = {} /\ (v \in linked => v \in halfway)
        OBVIOUS
      <3>1. u \notin linked
        BY <1>1, Facts
      <3>2. CASE v = u
        BY <3>1, <3>2, <1>2, <1>4, SignUpFacts
      <3>3. CASE v # u
        <4>1. v \in alive /\ v \in Users /\ row'[v] = row[v]
          BY <3>3, <1>1, <1>4, Facts
        <4> QED
          BY <4>1, Facts DEF Guests
      <3> QED
        BY <3>2, <3>3
    <2>2. \A d \in Calls : pc'[d] # "idle" /\ todo'[d] \in Linked => row'[who'[d]].guest = FALSE
      <3> SUFFICES ASSUME NEW d \in Calls, pc'[d] # "idle", todo'[d] \in Linked
                   PROVE  row'[who'[d]].guest = FALSE
        OBVIOUS
      <3>1. CASE d = c
        BY <3>1, <1>3, <1>4, <1>5
      <3>2. CASE d # c
        <4>1. pc[d] # "idle" /\ todo[d] \in Linked /\ who'[d] = who[d]
          BY <3>2, <1>5 DEF Others
        <4>2. who[d] \in born /\ who[d] \in Users /\ row[who[d]].guest = FALSE
          BY <4>1, Facts DEF Guests
        <4>3. row'[who[d]] = row[who[d]]
          BY <4>2, <1>1, <1>4
        <4> QED
          BY <4>1, <4>2, <4>3
      <3> QED
        BY <3>1, <3>2
    <2>3. \A v \in (marked \cap alive') \ overtaken : row'[v].guest = TRUE
      <3> SUFFICES ASSUME NEW v \in (marked \cap alive') \ overtaken
                   PROVE  row'[v].guest = TRUE
        OBVIOUS
      <3>1. marked \subseteq born
        BY Facts DEF TypeOK
      <3>2. v \in (marked \cap alive) \ overtaken /\ v # u /\ v \in Users
        BY <3>1, <1>1, Facts
      <3>3. row[v].guest = TRUE
        BY <3>2, Facts DEF Guests
      <3> QED
        BY <3>2, <3>3, <1>4
    <2> QED
      BY <1>1, <2>1, <2>2, <2>3 DEF Guests
  <1> QED
    BY <1>6, <1>7, <1>8, <1>9, <1>10 DEF IInv

LEMMA LockInv ==
  ASSUME IInv, NEW c \in Calls, Lock(c)
  PROVE  IInv'
  <1>1. /\ pc[c] = "ready" /\ pc[c] # "idle" /\ Step(c) \in Writes
        /\ who[c] \in alive /\ who[c] \in Users /\ ~ Locked(who[c])
        /\ version[who[c]] < MaxVersion
        /\ read' = [read EXCEPT ![c] = row[who[c]]] /\ pc' = [pc EXCEPT ![c] = "locked"]
        /\ UNCHANGED <<account, who, todo, copy, at, clock, marked, cache, erasure, history>>
    BY Facts DEF Lock
  <1>2. /\ CallTypes' /\ pc'[c] = "locked" /\ read'[c] = row[who[c]]
        /\ \A d \in Calls : d # c => pc'[d] = pc[d] /\ read'[d] = read[d]
    BY <1>1, Facts DEF CallTypes
  <1>3. \A d \in Calls : Step(d)' = Step(d)
    BY <1>1 DEF Step
  <1>4. todo[c] # <<>>
    BY <1>1, Words DEF Step
  <1>5. TypeOK'
    BY <1>1, <1>2, Facts DEF TypeOK, CallTypes, account, erasure, history
  <1>6. CallShape'
    <2>1. \A d \in Calls : todo'[d] \in Rests
      BY <1>1, Facts
    <2>2. \A d \in Calls : pc'[d] # "idle" => who'[d] \in born'
      BY <1>1, <1>2, Facts DEF account
    <2>3. \A d \in Calls : pc'[d] \in {"locked", "committed", "stamped"} => todo'[d] # <<>>
      BY <1>1, <1>2, <1>4, Facts DEF CallShape
    <2>4. \A d \in Calls : pc'[d] = "locked" =>
            /\ who'[d] \in alive' /\ read'[d] = row'[who'[d]]
            /\ version'[who'[d]] < MaxVersion /\ Step(d)' \in Writes
      BY <1>1, <1>2, <1>3, Facts DEF CallShape, account
    <2>5. \A d, e \in Calls :
            pc'[d] = "locked" /\ pc'[e] = "locked" /\ who'[d] = who'[e] => d = e
      BY <1>1, <1>2, Facts DEF CallShape, Locked
    <2> QED
      BY <2>1, <2>2, <2>3, <2>4, <2>5 DEF CallShape
  <1>7. TrustIsEarned' /\ Erased'
    BY <1>1, Facts DEF TrustIsEarned, Erased, account, erasure
  <1>8. Guests'
    BY <1>1, <1>2, Facts DEF Guests, account, history
  <1> QED
    BY <1>5, <1>6, <1>7, <1>8 DEF IInv

LEMMA CommitInv ==
  ASSUME IInv, NEW c \in Calls, Commit(c)
  PROVE  IInv'
  <1>1. PICK u \in Users, w \in Writes : u = who[c] /\ w = Step(c)
    BY Facts DEF Commit, CallShape
  <1> DEFINE l == IF w = "name" THEN row[u].level ELSE TrustLevel(Written(row[u], w))
             r == [Written(row[u], w) EXCEPT !.level = l]
  <1>2. /\ pc[c] = "locked" /\ u \in alive /\ u \in born /\ row[u] \in Row
        /\ read[c] = row[u] /\ version[u] \in Nat /\ version[u] < MaxVersion
        /\ todo[c] # <<>> /\ todo[c] \in Rests /\ Step(c) = Head(todo[c])
    BY <1>1, Facts, Constants DEF Commit, CallShape, Step
  <1>3. l \in 0 .. 3 /\ Written(row[u], w).level = row[u].level
    BY <1>2, LevelFacts, WrittenFacts DEF Row
  <1>4. row' = [row EXCEPT ![u] = r]
    BY <1>1, <1>2 DEF Commit
  <1>5. /\ version' = [version EXCEPT ![u] = version[u] + 1]
        /\ idle' = idle \ {u} /\ pc' = [pc EXCEPT ![c] = "committed"]
        /\ copy' = [copy EXCEPT ![c] = version[u] + 1]
        /\ overlap' = overlap \cup {v \in {u} : Publishing(v)}
        /\ overtaken' = overtaken \cup (marked \cap {u})
        /\ halfway' = (IF w = "name" THEN halfway ELSE halfway \ {u})
        /\ UNCHANGED <<born, alive, linked, signedIn, access, who, todo, read, at, clock,
                       marked, cache, due, told, announced, lost>>
    BY <1>1 DEF Commit, erasure
  <1> HIDE DEF l
  <1>6. /\ r \in Row /\ r.level = l
        /\ w = "name" => r.guest = row[u].guest /\ r.proofs = row[u].proofs
        /\ w # "name" => r.guest = FALSE
        /\ r.guest = Written(row[u], w).guest /\ r.proofs = Written(row[u], w).proofs
    <2>1. /\ r \in Row /\ r.level = l
          /\ r.guest = Written(row[u], w).guest /\ r.proofs = Written(row[u], w).proofs
      <3>1. Written(row[u], w) \in Row
        BY <1>2, <1>3, WrittenFacts
      <3> QED
        BY <3>1, <1>3 DEF Row, r
    <2>2. /\ w = "name" => Written(row[u], w).guest = row[u].guest
                            /\ Written(row[u], w).proofs = row[u].proofs
          /\ w # "name" => Written(row[u], w).guest = FALSE
      BY <1>2, <1>3, WrittenFacts
    <2> HIDE DEF r
    <2> QED
      BY <2>1, <2>2
  <1>7. r.level = TrustLevel(r)
    <2>1. CASE w = "name"
      <3>1. row[u].level = TrustLevel(row[u]) /\ l = row[u].level
        BY <2>1, <1>2, Facts DEF TrustIsEarned, l
      <3> QED
        BY <2>1, <3>1, <1>6, LevelFacts
    <2>2. CASE w # "name"
      <3>1. l = TrustLevel(Written(row[u], w))
        BY <2>2 DEF l
      <3> QED
        BY <3>1, <1>6, LevelFacts
    <2> QED
      BY <2>1, <2>2
  <1> HIDE DEF r
  <1>8. /\ row' \in [Users -> Row] /\ row'[u] = r
        /\ \A v \in Users : v # u => row'[v] = row[v] /\ version'[v] = version[v]
    BY <1>4, <1>5, <1>6, Facts
  <1>9. version' \in [Users -> 0 .. MaxVersion] /\ version[u] + 1 \in Nat
    <2>1. version[u] + 1 \in 0 .. MaxVersion
      BY <1>2, Constants
    <2> QED
      BY <2>1, <1>5, Facts
  <1>10. CallTypes' /\ Others(c) /\ pc'[c] = "committed" /\ who'[c] = u /\ todo'[c] = todo[c]
    BY <1>1, <1>5, <1>9, Facts DEF CallTypes, Others
  <1>11. TypeOK'
    BY <1>5, <1>8, <1>9, <1>10, Facts DEF TypeOK, CallTypes
  <1>12. CallShape'
    <2>1. \A d \in Calls \ {c} : pc[d] = "locked" =>
            who[d] \in alive /\ who[d] \in Users /\ who[d] # u
      BY <1>1, <1>2, Facts DEF CallShape
    <2>2. \A d \in Calls : todo'[d] \in Rests
      BY <1>5, Facts
    <2> QED
      BY <1>2, <1>5, <1>8, <1>10, <2>1, <2>2, ShapeInv
  <1>13. TrustIsEarned'
    <2> SUFFICES ASSUME NEW v \in alive PROVE row'[v].level = TrustLevel(row'[v])
      BY <1>5 DEF TrustIsEarned
    <2>1. CASE v = u
      BY <2>1, <1>7, <1>8
    <2>2. CASE v # u
      BY <2>2, <1>8, Facts DEF TrustIsEarned
    <2> QED
      BY <2>1, <2>2
  <1>14. Erased'
    BY <1>5, Facts DEF Erased
  <1>15. Guests'
    <2>1. ASSUME NEW v \in alive, row'[v].guest = TRUE
          PROVE  row'[v].proofs = {} /\ (v \in linked => v \in halfway')
      <3>1. CASE v = u
        <4>1. w = "name" /\ row[u].guest = TRUE /\ r.proofs = row[u].proofs
          BY <2>1, <3>1, <1>6, <1>8
        <4> QED
          BY <3>1, <4>1, <1>2, <1>5, <1>8, Facts DEF Guests
      <3>2. CASE v # u
        <4>1. row'[v] = row[v] /\ (v \in halfway => v \in halfway')
          BY <3>2, <1>5, <1>8, Facts
        <4> QED
          BY <2>1, <4>1, Facts DEF Guests
      <3> QED
        BY <3>1, <3>2
    <2>2. ASSUME NEW d \in Calls, pc'[d] # "idle", todo'[d] \in Linked
          PROVE  row'[who'[d]].guest = FALSE
      <3>0. pc[d] # "idle" /\ todo[d] \in Linked /\ who'[d] = who[d]
        BY <2>2, <1>2, <1>5, <1>10 DEF Others
      <3>1. /\ pc[d] # "idle" /\ todo[d] \in Linked /\ who'[d] = who[d]
            /\ who[d] \in Users /\ row[who[d]].guest = FALSE
        BY <3>0, Facts DEF Guests
      <3>2. CASE who[d] = u
        <4>1. r.guest = FALSE
          BY <3>1, <3>2, <1>6
        <4> QED
          BY <3>1, <3>2, <4>1, <1>8
      <3>3. CASE who[d] # u
        BY <3>1, <3>3, <1>8
      <3> QED
        BY <3>2, <3>3
    <2>3. ASSUME NEW v \in (marked \cap alive) \ overtaken'
          PROVE  row'[v].guest = TRUE
      <3>1. v # u /\ v \in (marked \cap alive) \ overtaken /\ v \in Users
        BY <2>3, <1>5, Facts
      <3> QED
        BY <3>1, <1>8, Facts DEF Guests
    <2> QED
      BY <1>5, <2>1, <2>2, <2>3 DEF Guests
  <1> QED
    BY <1>11, <1>12, <1>13, <1>14, <1>15 DEF IInv

LEMMA InsertIdentityInv ==
  ASSUME IInv, NEW c \in Calls, InsertIdentity(c)
  PROVE  IInv'
  <1>1. /\ pc[c] = "ready" /\ Step(c) = "identity" /\ who[c] \in born /\ who[c] \in Users
        /\ UNCHANGED <<born, alive, row, version, signedIn, access, idle, clock, marked, cache,
                       due, told, announced, overlap, lost, overtaken>>
    BY Facts DEF InsertIdentity, erasure
  <1>2. /\ clock \in Nat /\ cache \in [Users -> [version : Nat, at : Nat]]
        /\ overlap \subseteq Users /\ lost \subseteq Users
    BY Facts DEF TypeOK
  <1>3. ASSUME who[c] \in alive, linked' = linked \cup {who[c]}, NextStep(c),
               halfway' = halfway \cup
                 {v \in {who[c]} : row[v].guest /\ todo[c][2] = "clearGuest"}
        PROVE  IInv'
    <2>1. /\ linked' = linked \cup {who[c]} /\ NextStep(c)
          /\ halfway' = halfway \cup
               {v \in {who[c]} : row[v].guest /\ todo[c][2] = "clearGuest"}
      BY <1>3
    <2>2. todo[c] # <<>> /\ todo[c] \in Rests /\ Head(todo[c]) = "identity"
      BY <1>1, Facts DEF Step
    <2>3. /\ CallTypes' /\ Others(c) /\ pc'[c] = "ready" /\ todo'[c] = Tail(todo[c])
          /\ who' = who /\ \A d \in Calls : todo'[d] \in Rests
      BY <2>1, <2>2, Moves
    <2>4. \/ todo[c] = <<"identity", "session">>
          \/ todo[c] = <<"identity", "clearGuest", "session">>
      BY <2>2, ScriptHeads
    <2>5. todo'[c] \notin Linked
      <3>1. todo[c] # <<"create", "identity", "session">>
        BY <2>4
      <3> QED
        BY <2>2, <2>3, <3>1, RestTypes
    <2>6. row[who[c]].guest = TRUE => who[c] \in halfway'
      <3>1. CASE todo[c] = <<"identity", "session">>
        BY <3>1, <1>1, Facts DEF Guests, Linked
      <3>2. CASE todo[c] = <<"identity", "clearGuest", "session">>
        BY <3>2, <2>1
      <3> QED
        BY <2>4, <3>1, <3>2
    <2>7. halfway \subseteq halfway' /\ halfway' \subseteq Users
      BY <2>1, <1>1, Facts DEF TypeOK
    <2>8. TypeOK'
      BY <1>1, <1>3, <2>1, <2>3, <2>7, Facts DEF TypeOK, CallTypes
    <2>9. CallShape'
      BY <1>1, <2>3, Facts, ShapeInv DEF CallShape
    <2>10. TrustIsEarned' /\ Erased'
      BY <1>1, Facts DEF TrustIsEarned, Erased
    <2>11. Guests'
      <3>1. \A v \in alive : row[v].guest = TRUE =>
              row[v].proofs = {} /\ (v \in linked' => v \in halfway')
        BY <2>1, <2>6, <2>7, Facts DEF Guests
      <3>2. \A d \in Calls : pc'[d] # "idle" /\ todo'[d] \in Linked =>
              row[who'[d]].guest = FALSE
        BY <2>3, <2>5, Facts DEF Guests, Others
      <3> QED
        BY <1>1, <3>1, <3>2, Facts DEF Guests
    <2> QED
      BY <2>8, <2>9, <2>10, <2>11 DEF IInv
  <1>4. ASSUME Return(c), UNCHANGED <<linked, halfway>>
        PROVE  IInv'
    <2>1. Return(c) /\ UNCHANGED <<linked, halfway>>
      BY <1>4
    <2>2. /\ CallTypes' /\ Others(c) /\ pc'[c] = "idle"
          /\ \A d \in Calls : todo'[d] \in Rests
      BY <2>1, Moves
    <2> QED
      BY <1>1, <1>2, <2>1, <2>2, Facts, QuietInv
  <1> QED
    BY <1>3, <1>4 DEF InsertIdentity

(* What the deletion of some accounts leaves behind.                           *)
LEMMA RemoveFacts ==
  ASSUME IInv, NEW U \in SUBSET alive, Remove(U)
  PROVE  /\ alive' = alive \ U /\ born' = born /\ version' = version /\ access' = access
         /\ row' \in [Users -> Row] /\ linked' = linked \ U
         /\ \A u \in Users : row'[u] = IF u \in U THEN NoRow ELSE row[u]
         /\ \A u \in Users : row'[u].guest = TRUE => u \notin U /\ row'[u] = row[u]
         /\ \A u \in Users : row[u].guest = FALSE => row'[u].guest = FALSE
         /\ linked' \subseteq alive' /\ signedIn' \subseteq alive' /\ idle' \subseteq alive'
         /\ due' \subseteq born /\ announced' \in [Users -> Nat] /\ overlap' \subseteq Users
         /\ told' = told /\ TrustIsEarned' /\ Erased'
  <1>1. /\ alive' = alive \ U
        /\ row' = [u \in Users |-> IF u \in U THEN NoRow ELSE row[u]]
        /\ linked' = linked \ U /\ signedIn' = signedIn \ U /\ idle' = idle \ U
        /\ due' = due \cup U
        /\ announced' = [u \in Users |-> IF u \in U THEN announced[u] + 1 ELSE announced[u]]
        /\ overlap' = overlap \cup {u \in U : Publishing(u)}
        /\ UNCHANGED <<born, version, access, told>>
    BY DEF Remove
  <1>2. /\ announced \in [Users -> Nat] /\ U \subseteq Users /\ overlap \subseteq Users
        /\ due \subseteq born /\ U \subseteq born
    BY Facts DEF TypeOK
  <1>3. /\ row' \in [Users -> Row]
        /\ \A u \in Users : row'[u] = IF u \in U THEN NoRow ELSE row[u]
    BY <1>1, Facts, Constants
  <1>4. \A u \in Users :
          /\ row'[u].guest = TRUE => u \notin U /\ row'[u] = row[u]
          /\ row[u].guest = FALSE => row'[u].guest = FALSE
    BY <1>3, Constants
  <1>5. /\ linked' \subseteq alive' /\ signedIn' \subseteq alive' /\ idle' \subseteq alive'
        /\ due' \subseteq born /\ overlap' \subseteq Users
    BY <1>1, <1>2, Facts
  <1>6. /\ announced' \in [Users -> Nat]
        /\ \A u \in Users :
             announced'[u] = IF u \in U THEN announced[u] + 1 ELSE announced[u]
    BY <1>1, <1>2
  <1>7. TrustIsEarned'
    BY <1>1, <1>3, Facts DEF TrustIsEarned
  <1>8. Erased'
    <2> SUFFICES ASSUME NEW u \in Users
                 PROVE  /\ announced'[u] = IF u \in born \ alive' THEN 1 ELSE 0
                        /\ u \in due' => u \notin alive'
                        /\ u \in born \ (alive' \cup due') => told[u] = Len(Modules)
      BY <1>1 DEF Erased
    <2>1. CASE u \in U
      <3>1. announced[u] = 0
        BY <2>1, Facts DEF Erased
      <3> QED
        BY <2>1, <3>1, <1>1, <1>2, <1>6
    <2>2. CASE u \notin U
      BY <2>2, <1>1, <1>6, Facts DEF Erased
    <2> QED
      BY <2>1, <2>2
  <1> QED
    BY <1>1, <1>3, <1>4, <1>5, <1>6, <1>7, <1>8

LEMMA DeleteInv ==
  ASSUME IInv, NEW c \in Calls, Delete(c)
  PROVE  IInv'
  <1>1. PICK U \in SUBSET alive : U = alive \cap {who[c]} /\ Remove(U)
    BY DEF Delete
  <1>2. /\ pc[c] = "ready" /\ ~ Locked(who[c]) /\ Return(c)
        /\ UNCHANGED <<clock, marked, cache, lost, halfway, overtaken>>
    BY DEF Delete
  <1>3. /\ CallTypes' /\ Others(c) /\ pc'[c] = "idle"
        /\ \A d \in Calls : todo'[d] \in Rests
    BY <1>2, Moves
  <1>4. TypeOK'
    <2>1. /\ row' \in [Users -> Row] /\ linked' \subseteq alive' /\ signedIn' \subseteq alive'
          /\ idle' \subseteq alive' /\ due' \subseteq born /\ announced' \in [Users -> Nat]
          /\ overlap' \subseteq Users /\ told' = told /\ access' = access
          /\ alive' = alive \ U /\ born' = born /\ version' = version
      BY <1>1, RemoveFacts
    <2>2. /\ version \in [Users -> 0 .. MaxVersion] /\ access \subseteq born /\ clock \in Nat
          /\ cache \in [Users -> [version : Nat, at : Nat]] /\ marked \subseteq born
          /\ told \in [Users -> 0 .. Len(Modules)] /\ overtaken \subseteq marked
          /\ lost \subseteq Users /\ halfway \subseteq Users /\ born \subseteq Users
          /\ alive \subseteq born
      BY Facts DEF TypeOK
    <2>3. /\ born' \subseteq Users /\ alive' \subseteq born' /\ access' \subseteq born'
          /\ due' \subseteq born' /\ marked' \subseteq born' /\ overtaken' \subseteq marked'
          /\ lost' \subseteq Users /\ halfway' \subseteq Users
      BY <1>2, <2>1, <2>2
    <2>4. /\ clock' \in Nat /\ cache' \in [Users -> [version : Nat, at : Nat]]
          /\ told' \in [Users -> 0 .. Len(Modules)]
          /\ version' \in [Users -> 0 .. MaxVersion]
      BY <1>2, <2>1, <2>2
    <2> QED
      BY <1>3, <2>1, <2>3, <2>4 DEF TypeOK, CallTypes
  <1>5. CallShape'
    <2>1. \A d \in Calls \ {c} : pc[d] = "locked" =>
            who[d] \in alive \ U /\ who[d] \in Users
      BY <1>1, <1>2, Facts DEF CallShape, Locked
    <2>2. /\ alive' = alive \ U /\ born' = born /\ version' = version
          /\ \A u \in Users : u \notin U => row'[u] = row[u]
      BY <1>1, RemoveFacts
    <2> QED
      BY <1>3, <2>1, <2>2, ShapeInv
  <1>6. TrustIsEarned' /\ Erased'
    BY <1>1, RemoveFacts
  <1>7. Guests'
    <2>1. /\ alive' = alive \ U /\ linked' = linked \ U
          /\ \A u \in Users : row'[u].guest = TRUE => u \notin U /\ row'[u] = row[u]
          /\ \A u \in Users : row[u].guest = FALSE => row'[u].guest = FALSE
          /\ \A u \in Users : u \notin U => row'[u] = row[u]
      BY <1>1, RemoveFacts
    <2>2. \A u \in alive' : row'[u].guest = TRUE =>
            row'[u].proofs = {} /\ (u \in linked' => u \in halfway)
      BY <2>1, Facts DEF Guests
    <2>3. \A d \in Calls : pc'[d] # "idle" /\ todo'[d] \in Linked =>
            row'[who'[d]].guest = FALSE
      <3> SUFFICES ASSUME NEW d \in Calls, pc'[d] # "idle", todo'[d] \in Linked
                   PROVE  row'[who'[d]].guest = FALSE
        OBVIOUS
      <3>1. pc[d] # "idle" /\ todo[d] \in Linked /\ who'[d] = who[d] /\ who[d] \in Users
        BY <1>3, Facts DEF Others
      <3>2. row[who[d]].guest = FALSE
        BY <3>1, Facts DEF Guests
      <3> QED
        BY <3>1, <3>2, <2>1
    <2>4. \A u \in (marked \cap alive') \ overtaken : row'[u].guest = TRUE
      BY <2>1, Facts DEF Guests
    <2> QED
      BY <1>2, <2>2, <2>3, <2>4 DEF Guests
  <1> QED
    BY <1>4, <1>5, <1>6, <1>7 DEF IInv

(* A step that leaves the calls alone keeps them well formed.                  *)
LEMMA StillInv ==
  ASSUME IInv, UNCHANGED call, born' = born, version' = version,
         \A d \in Calls : pc[d] = "locked" =>
           who[d] \in alive' /\ row'[who[d]] = row[who[d]]
  PROVE  CallShape' /\ CallTypes'
  <1>1. \A d \in Calls : Step(d)' = Step(d)
    BY DEF Step, call
  <1>2. CallTypes'
    BY Facts DEF CallTypes, call
  <1>3. CallShape'
    BY <1>1, Facts DEF CallShape, call
  <1> QED
    BY <1>2, <1>3

LEMMA FinishSweepInv ==
  ASSUME IInv, FinishSweep
  PROVE  IInv'
  <1>1. PICK U \in SUBSET alive : U = marked \cap alive /\ Remove(U)
    BY DEF FinishSweep
  <1>2. /\ \A u \in marked : ~ Locked(u)
        /\ marked' = {} /\ overtaken' = {}
        /\ UNCHANGED <<call, clock, cache, lost, halfway>>
    BY DEF FinishSweep
  <1>3. /\ alive' = alive \ U /\ linked' = linked \ U /\ born' = born /\ version' = version
        /\ \A u \in Users : row'[u].guest = TRUE => u \notin U /\ row'[u] = row[u]
        /\ \A u \in Users : row[u].guest = FALSE => row'[u].guest = FALSE
        /\ \A u \in Users : u \notin U => row'[u] = row[u]
    BY <1>1, RemoveFacts
  <1>4. CallShape' /\ CallTypes'
    <2>1. \A d \in Calls : pc[d] = "locked" => who[d] \in alive \ U /\ who[d] \in Users
      BY <1>1, <1>2, Facts DEF CallShape, Locked
    <2> QED
      BY <1>2, <1>3, <2>1, StillInv
  <1>5. TypeOK'
    <2>1. /\ row' \in [Users -> Row] /\ linked' \subseteq alive' /\ signedIn' \subseteq alive'
          /\ idle' \subseteq alive' /\ due' \subseteq born /\ announced' \in [Users -> Nat]
          /\ overlap' \subseteq Users /\ told' = told /\ access' = access
      BY <1>1, RemoveFacts
    <2>2. /\ version \in [Users -> 0 .. MaxVersion] /\ access \subseteq born /\ clock \in Nat
          /\ cache \in [Users -> [version : Nat, at : Nat]]
          /\ told \in [Users -> 0 .. Len(Modules)]
          /\ lost \subseteq Users /\ halfway \subseteq Users /\ born \subseteq Users
          /\ alive \subseteq born
      BY Facts DEF TypeOK
    <2>3. /\ born' \subseteq Users /\ alive' \subseteq born' /\ access' \subseteq born'
          /\ due' \subseteq born' /\ marked' \subseteq born' /\ overtaken' \subseteq marked'
          /\ lost' \subseteq Users /\ halfway' \subseteq Users
      BY <1>2, <1>3, <2>1, <2>2
    <2>4. /\ clock' \in Nat /\ cache' \in [Users -> [version : Nat, at : Nat]]
          /\ told' \in [Users -> 0 .. Len(Modules)]
          /\ version' \in [Users -> 0 .. MaxVersion]
      BY <1>2, <1>3, <2>1, <2>2
    <2> QED
      BY <1>4, <2>1, <2>3, <2>4 DEF TypeOK, CallTypes
  <1>6. TrustIsEarned' /\ Erased'
    BY <1>1, RemoveFacts
  <1>7. Guests'
    <2>1. \A u \in alive' : row'[u].guest = TRUE =>
            row'[u].proofs = {} /\ (u \in linked' => u \in halfway)
      BY <1>3, Facts DEF Guests
    <2>2. \A d \in Calls : pc[d] # "idle" /\ todo[d] \in Linked =>
            row'[who[d]].guest = FALSE
      <3> SUFFICES ASSUME NEW d \in Calls, pc[d] # "idle", todo[d] \in Linked
                   PROVE  row'[who[d]].guest = FALSE
        OBVIOUS
      <3>1. who[d] \in Users /\ row[who[d]].guest = FALSE
        BY Facts DEF Guests
      <3> QED
        BY <3>1, <1>3
    <2> QED
      BY <1>2, <2>1, <2>2 DEF Guests, call
  <1> QED
    BY <1>4, <1>5, <1>6, <1>7 DEF IInv

LEMMA QuietUsersInv ==
  ASSUME IInv, NEW u \in Users, StartSweep \/ SignOut(u) \/ Age(u) \/ UNCHANGED vars
  PROVE  IInv'
  <1>1. /\ UNCHANGED <<born, alive, row, version, linked, access, call, clock, cache, due, told,
                       announced, overlap, lost, halfway, overtaken>>
        /\ signedIn' \subseteq alive /\ idle' \subseteq alive
    BY Facts DEF StartSweep, SignOut, Age, vars, account, erasure, history
  <1>2. /\ marked' \subseteq born
        /\ \/ marked' = marked
           \/ marked = {} /\ \A v \in marked' : row[v].guest = TRUE
    <2>1. CASE StartSweep
      <3>1. marked = {} /\ marked' = {v \in Users : Abandoned(v)}
        BY <2>1 DEF StartSweep
      <3>2. \A v \in marked' : v \in alive /\ v \in Users /\ row[v].guest
        BY <3>1 DEF Abandoned
      <3>3. \A v \in Users : row[v].guest \in BOOLEAN
        BY Facts DEF Row
      <3>4. \A v \in marked' : row[v].guest = TRUE
        BY <3>2, <3>3
      <3> QED
        BY <3>1, <3>2, <3>4, Facts
    <2>2. CASE marked' = marked
      BY <2>2, Facts DEF TypeOK
    <2> QED
      BY <2>1, <2>2 DEF SignOut, Age, vars
  <1>3. overtaken \subseteq marked /\ overtaken \subseteq marked'
    BY <1>2, Facts DEF TypeOK
  <1>4. CallShape' /\ CallTypes'
    BY <1>1, Facts, StillInv DEF CallShape
  <1>5. TypeOK'
    <2>1. /\ born \subseteq Users /\ alive \subseteq born /\ row \in [Users -> Row]
          /\ version \in [Users -> 0 .. MaxVersion] /\ linked \subseteq alive
          /\ access \subseteq born /\ clock \in Nat
          /\ cache \in [Users -> [version : Nat, at : Nat]]
          /\ due \subseteq born /\ told \in [Users -> 0 .. Len(Modules)]
          /\ announced \in [Users -> Nat] /\ overlap \subseteq Users /\ lost \subseteq Users
          /\ halfway \subseteq Users
      BY Facts DEF TypeOK
    <2> QED
      BY <1>1, <1>2, <1>3, <1>4, <2>1 DEF TypeOK, CallTypes
  <1>6. TrustIsEarned' /\ Erased'
    BY <1>1, Facts DEF TrustIsEarned, Erased
  <1>7. Guests'
    <2>1. \A v \in (marked' \cap alive) \ overtaken : row[v].guest = TRUE
      BY <1>2, Facts DEF Guests
    <2> QED
      BY <1>1, <2>1, Facts DEF Guests, call
  <1> QED
    BY <1>4, <1>5, <1>6, <1>7 DEF IInv

LEMMA EraseInv ==
  ASSUME IInv, NEW u \in Users, Erase(u)
  PROVE  IInv'
  <1>1. /\ u \in due
        /\ UNCHANGED <<born, alive, row, version, linked, signedIn, access, idle, call, clock,
                       marked, announced, overlap, lost, halfway, overtaken>>
    BY DEF Erase, account, history
  <1>2. /\ told \in [Users -> 0 .. Len(Modules)] /\ due \subseteq born
        /\ cache \in [Users -> [version : Nat, at : Nat]]
        /\ Len(Modules) \in Nat
    BY Facts, Constants DEF TypeOK
  <1>3. PICK n \in 0 .. Len(Modules) :
          /\ told' = [told EXCEPT ![u] = IF n > told[u] THEN n ELSE told[u]]
          /\ cache' = IF n > 0 THEN [cache EXCEPT ![u] = Absent] ELSE cache
          /\ due' \in IF n = Len(Modules) THEN {due, due \ {u}} ELSE {due}
    BY DEF Erase
  <1>4. PICK m \in 0 .. Len(Modules) :
          told' = [told EXCEPT ![u] = m] /\ (n = Len(Modules) => m = Len(Modules))
               /\ (told[u] = Len(Modules) => m = Len(Modules))
    <2>1. told[u] \in 0 .. Len(Modules)
      BY <1>2
    <2>2. CASE n > told[u]
      <3>1. told' = [told EXCEPT ![u] = n]
        BY <2>2, <1>3
      <3>2. told[u] = Len(Modules) => n = Len(Modules)
        BY <2>1, <2>2, <1>2
      <3> QED
        BY <3>1, <3>2
    <2>3. CASE ~ (n > told[u])
      <3>1. told' = [told EXCEPT ![u] = told[u]]
        BY <2>3, <1>3
      <3>2. n = Len(Modules) => told[u] = Len(Modules)
        BY <2>1, <2>3, <1>2
      <3> QED
        BY <2>1, <3>1, <3>2
    <2> QED
      BY <2>2, <2>3
  <1>5. /\ told' \in [Users -> 0 .. Len(Modules)] /\ due' \subseteq due
        /\ \A v \in Users : v # u => told'[v] = told[v]
        /\ \A v \in due \ due' : v = u /\ told'[v] = Len(Modules)
        /\ told'[u] = m
    BY <1>1, <1>2, <1>3, <1>4
  <1>6. cache' \in [Users -> [version : Nat, at : Nat]]
    BY <1>2, <1>3 DEF Absent
  <1>7. CallShape' /\ CallTypes'
    BY <1>1, Facts, StillInv DEF CallShape
  <1>8. TypeOK'
    BY <1>1, <1>2, <1>5, <1>6, <1>7, Facts DEF TypeOK, CallTypes
  <1>9. TrustIsEarned'
    BY <1>1, Facts DEF TrustIsEarned
  <1>10. Erased'
    BY <1>1, <1>4, <1>5, Facts DEF Erased
  <1>11. Guests'
    BY <1>1, Facts DEF Guests, call
  <1> QED
    BY <1>7, <1>8, <1>9, <1>10, <1>11 DEF IInv

LEMMA NextInv == IInv /\ [Next]_vars => IInv'
  <1> SUFFICES ASSUME IInv, [Next]_vars PROVE IInv'
    OBVIOUS
  <1>1. ASSUME NEW c \in Calls, NEW u \in Users, Begin(c, u) PROVE IInv'
    BY <1>1, BeginInv
  <1>2. ASSUME NEW c \in Calls, NEW u \in Users, NEW s \in SignUps, SignUp(c, u, s) PROVE IInv'
    BY <1>2, SignUpInv
  <1>3. ASSUME NEW c \in Calls, CallStep(c) PROVE IInv'
    BY <1>3, LockInv, CommitInv, StampInv, DeliverInv, InsertIdentityInv, EndInv, DeleteInv
    DEF CallStep
  <1>4. CASE FinishSweep
    BY <1>4, FinishSweepInv
  <1>5. CASE StartSweep
    <2>1. PICK u \in Users : Abandoned(u)
      BY <1>5 DEF StartSweep
    <2> QED
      BY <1>5, <2>1, QuietUsersInv
  <1>6. ASSUME NEW u \in Users, SignOut(u) \/ Age(u) \/ Erase(u) PROVE IInv'
    BY <1>6, QuietUsersInv, EraseInv
  <1>7. CASE UNCHANGED vars
    <2>1. CASE Users = {}
      <3>1. CallShape' /\ CallTypes'
        BY <1>7, Facts, StillInv DEF CallShape, vars, account
      <3> QED
        BY <1>7, <3>1, Facts
        DEF IInv, TypeOK, CallTypes, TrustIsEarned, Erased, Guests, vars, account, call,
            erasure, history
    <2>2. ASSUME NEW u \in Users PROVE IInv'
      BY <1>7, QuietUsersInv
    <2> QED
      BY <2>1, <2>2
  <1> QED
    BY <1>1, <1>2, <1>3, <1>4, <1>5, <1>6, <1>7 DEF Next

THEOREM Invariance == Spec => []IInv
  <1> QED
    BY InitInv, NextInv, PTL DEF Spec

(* Every variable keeps its type.                                              *)
THEOREM TypesHold == Spec => []TypeOK
  <1>1. IInv => TypeOK
    BY DEF IInv
  <1> QED
    BY <1>1, Invariance, PTL

(* However verifications race, the level a row carries is the one its columns  *)
(* earn: every write computes it from the row it holds the lock of             *)
(* (lockUserForTrustLevelWrite).                                               *)
THEOREM LevelsAreEarned == Spec => []TrustIsEarned
  <1>1. IInv => TrustIsEarned
    BY DEF IInv
  <1> QED
    BY <1>1, Invariance, PTL

(* A deletion is announced once, by whichever of the deleters removed the row, *)
(* and its outbox row is settled only when every module has erased its part    *)
(* (Delete, DeleteAbandonedGuests, userDeletedProcess).                        *)
THEOREM DeletionsHappenOnce == Spec => []DeletionsAreCarriedOut
  <1>1. IInv => DeletionsAreCarriedOut
    BY Facts DEF Erased, DeletionsAreCarriedOut
  <1> QED
    BY <1>1, Invariance, PTL

(* The sweep takes nobody who has proved anything or has a provider, but for   *)
(* the half-linked and those written to while it waited                        *)
(* (DeleteAbandonedGuests).                                                    *)
THEOREM GuestsAreSwept == Spec => SweepTakesOnlyGuests
  <1>1. IInv /\ FinishSweep =>
          \A u \in (marked \cap alive) \ (halfway \cup overtaken) :
            row[u].guest /\ row[u].proofs = {} /\ u \notin linked
    BY Facts DEF Guests
  <1>2. IInv /\ [Next]_vars =>
          [FinishSweep =>
             \A u \in (marked \cap alive) \ (halfway \cup overtaken) :
               row[u].guest /\ row[u].proofs = {} /\ u \notin linked]_vars
    BY <1>1
  <1> QED
    BY <1>2, Invariance, PTL DEF Spec, SweepTakesOnlyGuests

----------------------------------------------------------------------------
(* Publications.  Of an account that is not written to or deleted while its    *)
(* write is published one call at a time publishes, the row as it is, at a     *)
(* time the cache has not seen yet.                                            *)
Publishes(c) == pc[c] \in {"committed", "stamped"}

OnePublishes ==
  \A c, d \in Calls :
    Publishes(c) /\ Publishes(d) /\ who[c] = who[d] /\ who[c] \notin overlap => c = d

TrueIsPublished ==
  \A c \in Calls : Publishes(c) /\ who[c] \notin overlap =>
    /\ who[c] \in alive /\ copy[c] = version[who[c]]
    /\ pc[c] = "stamped" => cache[who[c]].at < at[c]

Stamps ==
  /\ \A u \in Users : cache[u].at <= clock
  /\ \A c \in Calls : pc[c] = "stamped" => at[c] <= clock

PInv == OnePublishes /\ TrueIsPublished /\ Stamps /\ CacheIsTrue

LEMMA PubFacts ==
  ASSUME IInv
  PROVE  /\ clock \in Nat /\ clock + 1 \in Nat /\ Len(Modules) \in Nat /\ Len(Modules) > 0
         /\ cache \in [Users -> [version : Nat, at : Nat]]
         /\ \A u \in Users : cache[u].at \in Nat
         /\ version \in [Users -> 0 .. MaxVersion]
         /\ \A c \in Calls : copy[c] \in Nat /\ at[c] \in Nat
         /\ \A c \in Calls : Publishes(c) =>
              who[c] \in born /\ who[c] \in Users /\ todo[c] # <<>> /\ pc[c] # "idle"
         /\ \A u : Publishing(u) <=> \E c \in Calls : Publishes(c) /\ who[c] = u
  <1>1. /\ clock \in Nat /\ cache \in [Users -> [version : Nat, at : Nat]]
        /\ \A c \in Calls : copy[c] \in Nat /\ at[c] \in Nat
        /\ version \in [Users -> 0 .. MaxVersion]
    BY DEF IInv, TypeOK
  <1>2. \A u \in Users : cache[u].at \in Nat
    BY <1>1
  <1>3. \A c \in Calls : Publishes(c) =>
          who[c] \in born /\ who[c] \in Users /\ todo[c] # <<>> /\ pc[c] # "idle"
    BY Facts DEF Publishes, CallShape
  <1> QED
    BY <1>1, <1>2, <1>3, Constants DEF Publishing, Publishes

(* A step in which nobody begins to publish: whoever stops has lost it, and    *)
(* whoever is removed was not publishing or is known to have been.             *)
LEMMA NoneBegins ==
  ASSUME IInv, PInv,
         \A d \in Calls : Publishes(d)' =>
           /\ Publishes(d) /\ pc'[d] = pc[d] /\ who'[d] = who[d]
           /\ copy'[d] = copy[d] /\ at'[d] = at[d],
         \A d \in Calls : Publishes(d) => Publishes(d)' \/ who[d] \in lost',
         UNCHANGED <<born, version, cache, clock>>,
         alive' \subseteq alive, due' = due \cup (alive \ alive'),
         \A d \in Calls : Publishes(d) /\ who[d] \in alive => who[d] \in alive' \cup overlap',
         overlap \subseteq overlap', lost \subseteq lost'
  PROVE  PInv'
  <1>1. OnePublishes'
    BY DEF PInv, OnePublishes
  <1>2. TrueIsPublished'
    <2> SUFFICES ASSUME NEW d \in Calls, Publishes(d)', who'[d] \notin overlap'
                 PROVE  /\ who'[d] \in alive' /\ copy'[d] = version'[who'[d]]
                        /\ pc'[d] = "stamped" => cache'[who'[d]].at < at'[d]
      BY DEF TrueIsPublished
    <2>1. /\ Publishes(d) /\ pc'[d] = pc[d] /\ who'[d] = who[d]
          /\ copy'[d] = copy[d] /\ at'[d] = at[d] /\ who[d] \notin overlap
      OBVIOUS
    <2>2. /\ who[d] \in alive /\ copy[d] = version[who[d]]
          /\ pc[d] = "stamped" => cache[who[d]].at < at[d]
      BY <2>1 DEF PInv, TrueIsPublished
    <2> QED
      BY <2>1, <2>2
  <1>3. Stamps'
    <2>1. \A d \in Calls : pc'[d] = "stamped" => pc[d] = "stamped" /\ at'[d] = at[d]
      BY DEF Publishes
    <2> QED
      BY <2>1 DEF PInv, Stamps
  <1>4. CacheIsTrue'
    <2> SUFFICES ASSUME NEW u \in born, u \notin lost', u \notin overlap'
                 PROVE  /\ u \in alive' /\ ~ Publishing(u)' => cache[u].version = version[u]
                        /\ u \notin alive' /\ u \notin due' => cache[u] = Absent
      BY DEF CacheIsTrue
    <2>1. /\ u \in alive /\ ~ Publishing(u) => cache[u].version = version[u]
          /\ u \notin alive /\ u \notin due => cache[u] = Absent
      BY DEF PInv, CacheIsTrue
    <2>2. Publishing(u) => Publishing(u)'
      <3> SUFFICES ASSUME NEW d \in Calls, Publishes(d), who[d] = u PROVE Publishing(u)'
        BY PubFacts
      <3>1. Publishes(d)'
        OBVIOUS
      <3> QED
        BY <3>1 DEF Publishing, Publishes
    <2> QED
      BY <2>1, <2>2
  <1> QED
    BY <1>1, <1>2, <1>3, <1>4 DEF PInv

(* A call that ends or goes on publishes nothing then.                         *)
LEMMA CallEnds ==
  ASSUME IInv, NEW c \in Calls, Return(c) \/ NextStep(c)
  PROVE  /\ ~ Publishes(c)'
         /\ \A d \in Calls \ {c} : /\ pc'[d] = pc[d] /\ who'[d] = who[d] /\ copy'[d] = copy[d]
                                   /\ at'[d] = at[d] /\ (Publishes(d)' <=> Publishes(d))
  <1>1. /\ pc \in [Calls -> {"idle", "ready", "locked", "committed", "stamped"}]
        /\ who \in [Calls -> Users \cup {NoUser}] /\ copy \in [Calls -> Nat] /\ at \in [Calls -> Nat]
    BY DEF IInv, TypeOK
  <1>2. pc'[c] \in {"idle", "ready"}
    BY <1>1 DEF Return, NextStep
  <1>3. \A d \in Calls \ {c} : /\ pc'[d] = pc[d] /\ who'[d] = who[d] /\ copy'[d] = copy[d]
                               /\ at'[d] = at[d]
    BY <1>1 DEF Return, NextStep
  <1> QED
    BY <1>2, <1>3 DEF Publishes

(* The calls that begin, lock a row or end without having published.           *)
LEMMA CallsGoOn ==
  ASSUME IInv, PInv, NEW c \in Calls,
         \/ \E u \in Users : Begin(c, u)
         \/ Lock(c) \/ InsertIdentity(c) \/ IssueSession(c) \/ Finish(c) \/ Fail(c)
  PROVE  PInv'
  <1>1. /\ UNCHANGED <<born, version, cache, clock, alive, due, overlap>>
        /\ lost \subseteq lost'
    BY DEF Begin, Lock, InsertIdentity, IssueSession, Finish, Fail, account, erasure, history
  <1>2. CASE \E u \in Users : Begin(c, u)
    <2>1. /\ pc[c] = "idle" /\ pc' = [pc EXCEPT ![c] = "ready"] /\ UNCHANGED <<copy, at>>
          /\ \E u \in Users : who' = [who EXCEPT ![c] = u]
      BY <1>2 DEF Begin
    <2>2. \A d \in Calls : /\ Publishes(d)' <=> Publishes(d)
                           /\ d # c => pc'[d] = pc[d] /\ who'[d] = who[d]
      BY <2>1, Facts DEF CallTypes, Publishes
    <2>3. ~ Publishes(c)
      BY <2>1 DEF Publishes
    <2> QED
      BY <1>1, <2>1, <2>2, <2>3, NoneBegins
  <1>3. CASE Lock(c)
    <2>1. /\ pc[c] = "ready" /\ pc' = [pc EXCEPT ![c] = "locked"] /\ UNCHANGED <<who, copy, at>>
      BY <1>3 DEF Lock
    <2>2. \A d \in Calls : /\ Publishes(d)' <=> Publishes(d)
                           /\ d # c => pc'[d] = pc[d]
      BY <2>1, Facts DEF CallTypes, Publishes
    <2>3. ~ Publishes(c)
      BY <2>1 DEF Publishes
    <2> QED
      BY <1>1, <2>1, <2>2, <2>3, NoneBegins
  <1>4. CASE InsertIdentity(c) \/ IssueSession(c) \/ Finish(c) \/ Fail(c)
    <2>1. Return(c) \/ NextStep(c)
      BY <1>4 DEF InsertIdentity, IssueSession, Finish, Fail
    <2>2. Publishes(c) => who[c] \in lost'
      BY <1>4 DEF InsertIdentity, IssueSession, Finish, Fail, Publishes
    <2> QED
      BY <1>1, <2>1, <2>2, CallEnds, NoneBegins
  <1> QED
    BY <1>2, <1>3, <1>4

(* The accounts deleted while they are published are known to have been.       *)
LEMMA Removes ==
  ASSUME IInv, PInv, NEW U \in SUBSET alive, Remove(U), UNCHANGED <<cache, clock, lost>>,
         \/ UNCHANGED call
         \/ \E c \in Calls : pc[c] = "ready" /\ Return(c)
  PROVE  PInv'
  <1>1. /\ alive' = alive \ U /\ due' = due \cup U /\ UNCHANGED <<born, version>>
        /\ overlap' = overlap \cup {u \in U : Publishing(u)}
    BY DEF Remove
  <1>2. \A d \in Calls : Publishes(d) => who[d] \in alive' \cup overlap' \/ who[d] \notin alive
    BY <1>1, PubFacts
  <1>3. CASE UNCHANGED call
    <2>1. UNCHANGED <<pc, who, copy, at>>
      BY <1>3 DEF call
    <2>2. \A d \in Calls : Publishes(d)' <=> Publishes(d)
      BY <2>1 DEF Publishes
    <2> QED
      BY <1>1, <1>2, <2>1, <2>2, NoneBegins
  <1>4. CASE \E c \in Calls : pc[c] = "ready" /\ Return(c)
    <2>1. PICK c \in Calls : pc[c] = "ready" /\ Return(c)
      BY <1>4
    <2>2. ~ Publishes(c)
      BY <2>1 DEF Publishes
    <2> QED
      BY <1>1, <1>2, <2>1, <2>2, CallEnds, NoneBegins
  <1> QED
    BY <1>3, <1>4

LEMMA StampPub ==
  ASSUME IInv, PInv, NEW c \in Calls, Stamp(c)
  PROVE  PInv'
  <1>1. /\ pc[c] = "committed" /\ pc' = [pc EXCEPT ![c] = "stamped"]
        /\ clock' = clock + 1 /\ at' = [at EXCEPT ![c] = clock + 1]
        /\ UNCHANGED <<born, alive, version, who, copy, cache, due, overlap, lost>>
    BY DEF Stamp, account, erasure, history
  <1>2. /\ pc'[c] = "stamped" /\ at'[c] = clock + 1
        /\ \A d \in Calls : d # c => pc'[d] = pc[d] /\ at'[d] = at[d]
        /\ \A d \in Calls : Publishes(d)' <=> Publishes(d)
    BY <1>1, Facts DEF CallTypes, Publishes
  <1>3. OnePublishes'
    BY <1>1, <1>2 DEF PInv, OnePublishes
  <1>4. TrueIsPublished'
    <2> SUFFICES ASSUME NEW d \in Calls, Publishes(d), who[d] \notin overlap
                 PROVE  /\ who[d] \in alive /\ copy[d] = version[who[d]]
                        /\ pc'[d] = "stamped" => cache[who[d]].at < at'[d]
      BY <1>1, <1>2 DEF TrueIsPublished
    <2>1. /\ who[d] \in alive /\ copy[d] = version[who[d]] /\ who[d] \in Users
          /\ pc[d] = "stamped" => cache[who[d]].at < at[d]
      BY PubFacts DEF PInv, TrueIsPublished
    <2>2. cache[who[d]].at <= clock
      BY <2>1 DEF PInv, Stamps
    <2> QED
      BY <1>2, <2>1, <2>2, PubFacts
  <1>5. Stamps'
    BY <1>1, <1>2, PubFacts DEF PInv, Stamps
  <1>6. \A u : Publishing(u)' <=> Publishing(u)
    BY <1>1, <1>2, PubFacts DEF Publishing, Publishes
  <1>7. CacheIsTrue'
    BY <1>1, <1>6 DEF PInv, CacheIsTrue
  <1> QED
    BY <1>3, <1>4, <1>5, <1>7 DEF PInv

(* The cache takes the one publication of an account that is not disturbed.    *)
LEMMA DeliverPub ==
  ASSUME IInv, PInv, NEW c \in Calls, Deliver(c)
  PROVE  PInv'
  <1> PICK w : w = who[c]
    OBVIOUS
  <1>1. /\ pc[c] = "stamped" /\ Publishes(c) /\ NextStep(c) /\ w \in Users /\ w \in born
        /\ UNCHANGED <<born, alive, version, clock, due, overlap>>
        /\ \/ Upsert(w, copy[c], at[c]) /\ lost' = lost
           \/ lost' = lost \cup {w} /\ cache' = cache
    BY Facts DEF Deliver, Publishes, account, erasure
  <1>2. CASE lost' = lost \cup {w} /\ cache' = cache
    BY <1>1, <1>2, CallEnds, NoneBegins
  <1>3. CASE Upsert(w, copy[c], at[c]) /\ lost' = lost
    <2>1. /\ ~ Publishes(c)'
          /\ \A d \in Calls \ {c} : /\ pc'[d] = pc[d] /\ who'[d] = who[d] /\ copy'[d] = copy[d]
                                    /\ at'[d] = at[d] /\ (Publishes(d)' <=> Publishes(d))
      BY <1>1, CallEnds
    <2>2. /\ \A v \in Users : v # w => cache'[v] = cache[v]
          /\ cache'[w] = IF at[c] > cache[w].at
                           THEN [version |-> copy[c], at |-> at[c]] ELSE cache[w]
      BY <1>1, <1>3, PubFacts DEF Upsert
    <2>3. cache'[w].at <= clock
      <3>1. at[c] <= clock /\ cache[w].at <= clock
        BY <1>1 DEF PInv, Stamps
      <3> QED
        BY <2>2, <3>1
    <2>4. w \notin overlap => \A d \in Calls : Publishes(d)' => who[d] # w
      BY <1>1, <2>1 DEF PInv, OnePublishes
    <2>5. w \notin overlap => cache'[w].version = version[w] /\ w \in alive
      <3> SUFFICES ASSUME w \notin overlap PROVE cache'[w].version = version[w] /\ w \in alive
        OBVIOUS
      <3>1. w \in alive /\ copy[c] = version[w] /\ cache[w].at < at[c]
        BY <1>1 DEF PInv, TrueIsPublished
      <3>2. cache'[w] = [version |-> copy[c], at |-> at[c]]
        BY <1>1, <2>2, <3>1, PubFacts
      <3> QED
        BY <3>1, <3>2
    <2>6. OnePublishes'
      BY <1>1, <2>1 DEF PInv, OnePublishes
    <2>7. TrueIsPublished'
      <3> SUFFICES ASSUME NEW d \in Calls, Publishes(d)', who'[d] \notin overlap
                   PROVE  /\ who'[d] \in alive /\ copy'[d] = version[who'[d]]
                          /\ pc'[d] = "stamped" => cache'[who'[d]].at < at'[d]
        BY <1>1 DEF TrueIsPublished
      <3>1. d # c /\ Publishes(d) /\ who'[d] = who[d] /\ who[d] # w /\ who[d] \in Users
        BY <2>1, <2>4, PubFacts
      <3>2. /\ who[d] \in alive /\ copy[d] = version[who[d]]
            /\ pc[d] = "stamped" => cache[who[d]].at < at[d]
        BY <3>1 DEF PInv, TrueIsPublished
      <3> QED
        BY <2>1, <2>2, <3>1, <3>2
    <2>8. Stamps'
      <3>1. \A v \in Users : cache'[v].at <= clock
        BY <2>2, <2>3 DEF PInv, Stamps
      <3>2. \A d \in Calls : pc'[d] = "stamped" => at'[d] <= clock
        BY <2>1 DEF PInv, Stamps, Publishes
      <3> QED
        BY <1>1, <3>1, <3>2 DEF Stamps
    <2>9. CacheIsTrue'
      <3> SUFFICES ASSUME NEW u \in born, u \notin lost, u \notin overlap
                   PROVE  /\ u \in alive /\ ~ Publishing(u)' => cache'[u].version = version[u]
                          /\ u \notin alive /\ u \notin due => cache'[u] = Absent
        BY <1>1, <1>3 DEF CacheIsTrue
      <3>1. CASE u = w
        BY <2>5, <3>1
      <3>2. CASE u # w
        <4>1. /\ u \in alive /\ ~ Publishing(u) => cache[u].version = version[u]
              /\ u \notin alive /\ u \notin due => cache[u] = Absent
              /\ u \in Users
          BY Facts DEF PInv, CacheIsTrue
        <4>2. Publishing(u) => Publishing(u)'
          <5> SUFFICES ASSUME NEW d \in Calls, Publishes(d), who[d] = u PROVE Publishing(u)'
            BY PubFacts
          <5>1. d # c /\ Publishes(d)' /\ who'[d] = u
            BY <2>1, <3>2
          <5> QED
            BY <5>1 DEF Publishing, Publishes
        <4> QED
          BY <2>2, <3>2, <4>1, <4>2
      <3> QED
        BY <3>1, <3>2
    <2> QED
      BY <2>6, <2>7, <2>8, <2>9 DEF PInv
  <1> QED
    BY <1>1, <1>2, <1>3

(* A call begins to publish: nobody else does of the same account, or that is  *)
(* known.                                                                      *)
LEMMA OneBegins ==
  ASSUME IInv, PInv, NEW c \in Calls, NEW u \in Users, ~ Publishes(c),
         Publishes(c)', pc'[c] = "committed", who'[c] = u,
         \A d \in Calls \ {c} : /\ pc'[d] = pc[d] /\ who'[d] = who[d] /\ copy'[d] = copy[d]
                                /\ at'[d] = at[d] /\ (Publishes(d)' <=> Publishes(d)),
         u \in alive', copy'[c] = version'[u], alive \subseteq alive', alive' \subseteq alive \cup {u},
         born' = born \cup {u}, UNCHANGED <<cache, clock, due, lost>>,
         \A v \in Users : v # u => version'[v] = version[v],
         overlap \subseteq overlap', Publishing(u) => u \in overlap'
  PROVE  PInv'
  <1>1. \A d \in Calls \ {c} : Publishes(d) /\ who[d] = u => u \in overlap'
    BY PubFacts
  <1>2. OnePublishes'
    BY <1>1 DEF PInv, OnePublishes
  <1>3. TrueIsPublished'
    <2> SUFFICES ASSUME NEW d \in Calls, Publishes(d)', who'[d] \notin overlap'
                 PROVE  /\ who'[d] \in alive' /\ copy'[d] = version'[who'[d]]
                        /\ pc'[d] = "stamped" => cache[who'[d]].at < at'[d]
      BY DEF TrueIsPublished
    <2>1. CASE d = c
      BY <2>1
    <2>2. CASE d # c
      <3>1. /\ Publishes(d) /\ who'[d] = who[d] /\ who[d] # u
            /\ who[d] \in Users /\ who[d] \notin overlap
        BY <1>1, <2>2, PubFacts
      <3>2. /\ who[d] \in alive /\ copy[d] = version[who[d]]
            /\ pc[d] = "stamped" => cache[who[d]].at < at[d]
        BY <3>1 DEF PInv, TrueIsPublished
      <3> QED
        BY <2>2, <3>1, <3>2
    <2> QED
      BY <2>1, <2>2
  <1>4. Stamps'
    BY DEF PInv, Stamps
  <1>5. CacheIsTrue'
    <2> SUFFICES ASSUME NEW v \in born', v \notin lost, v \notin overlap'
                 PROVE  /\ v \in alive' /\ ~ Publishing(v)' => cache[v].version = version'[v]
                        /\ v \notin alive' /\ v \notin due => cache[v] = Absent
      BY DEF CacheIsTrue
    <2>1. CASE v = u
      <3>1. Publishing(u)'
        BY DEF Publishing
      <3> QED
        BY <2>1, <3>1
    <2>2. CASE v # u
      <3>1. /\ v \in alive /\ ~ Publishing(v) => cache[v].version = version[v]
            /\ v \notin alive /\ v \notin due => cache[v] = Absent
            /\ v \in Users
        BY <2>2, Facts DEF PInv, CacheIsTrue
      <3>2. Publishing(v) => Publishing(v)'
        <4> SUFFICES ASSUME NEW d \in Calls, Publishes(d), who[d] = v PROVE Publishing(v)'
          BY PubFacts
        <4>1. d # c /\ Publishes(d)' /\ who'[d] = v
          OBVIOUS
        <4> QED
          BY <4>1 DEF Publishing, Publishes
      <3> QED
        BY <2>2, <3>1, <3>2
    <2> QED
      BY <2>1, <2>2
  <1> QED
    BY <1>2, <1>3, <1>4, <1>5 DEF PInv

LEMMA CommitPub ==
  ASSUME IInv, PInv, NEW c \in Calls, Commit(c)
  PROVE  PInv'
  <1> PICK u : u = who[c]
    OBVIOUS
  <1>1. /\ pc[c] = "locked" /\ u \in alive /\ u \in Users /\ u \in born
        /\ version' = [version EXCEPT ![u] = version[u] + 1]
        /\ pc' = [pc EXCEPT ![c] = "committed"] /\ copy' = [copy EXCEPT ![c] = version[u] + 1]
        /\ overlap' = overlap \cup {v \in {u} : Publishing(v)}
        /\ UNCHANGED <<born, alive, who, at, clock, cache, due, lost>>
    BY Facts DEF Commit, erasure
  <1>2. /\ pc'[c] = "committed" /\ copy'[c] = version[u] + 1 /\ who'[c] = u
        /\ version'[u] = version[u] + 1
        /\ \A v \in Users : v # u => version'[v] = version[v]
        /\ \A d \in Calls \ {c} : /\ pc'[d] = pc[d] /\ who'[d] = who[d] /\ copy'[d] = copy[d]
                                  /\ at'[d] = at[d]
    BY <1>1, Facts DEF CallTypes
  <1>3. /\ ~ Publishes(c) /\ Publishes(c)'
        /\ \A d \in Calls \ {c} : Publishes(d)' <=> Publishes(d)
    BY <1>1, <1>2 DEF Publishes
  <1>4. /\ u \in alive' /\ copy'[c] = version'[u] /\ alive \subseteq alive'
        /\ alive' \subseteq alive \cup {u} /\ born' = born \cup {u}
        /\ overlap \subseteq overlap' /\ (Publishing(u) => u \in overlap')
    BY <1>1, <1>2
  <1> QED
    BY <1>1, <1>2, <1>3, <1>4, OneBegins

LEMMA SignUpPub ==
  ASSUME IInv, PInv, NEW c \in Calls, NEW u \in Users, NEW s \in SignUps, SignUp(c, u, s)
  PROVE  PInv'
  <1>1. /\ pc[c] = "idle" /\ u \notin born
        /\ born' = born \cup {u} /\ alive' = alive \cup {u}
        /\ version' = [version EXCEPT ![u] = 1]
        /\ pc' = [pc EXCEPT ![c] = "committed"] /\ copy' = [copy EXCEPT ![c] = 1]
        /\ who' = [who EXCEPT ![c] = u]
        /\ UNCHANGED <<at, clock, cache, due, lost, overlap>>
    BY DEF SignUp, erasure, history
  <1>2. /\ pc'[c] = "committed" /\ copy'[c] = 1 /\ who'[c] = u /\ version'[u] = 1
        /\ \A v \in Users : v # u => version'[v] = version[v]
        /\ \A d \in Calls \ {c} : /\ pc'[d] = pc[d] /\ who'[d] = who[d] /\ copy'[d] = copy[d]
                                  /\ at'[d] = at[d]
    BY <1>1, Facts DEF CallTypes
  <1>3. /\ ~ Publishes(c) /\ Publishes(c)'
        /\ \A d \in Calls \ {c} : Publishes(d)' <=> Publishes(d)
    BY <1>1, <1>2 DEF Publishes
  <1>4. ~ Publishing(u)
    BY <1>1, PubFacts
  <1>5. /\ u \in alive' /\ copy'[c] = version'[u] /\ alive \subseteq alive'
        /\ alive' \subseteq alive \cup {u}
    BY <1>1, <1>2
  <1> QED
    BY <1>1, <1>2, <1>3, <1>4, <1>5, OneBegins

(* What is erased is of an account nobody publishes.                           *)
LEMMA ErasePub ==
  ASSUME IInv, PInv, NEW u \in Users, Erase(u)
  PROVE  PInv'
  <1>1. /\ u \in due /\ u \notin alive
        /\ UNCHANGED <<born, alive, version, pc, who, copy, at, clock, overlap, lost>>
    BY Facts DEF Erase, account, call, history, Erased
  <1>2. PICK n \in 0 .. Len(Modules) :
          /\ cache' = IF n > 0 THEN [cache EXCEPT ![u] = Absent] ELSE cache
          /\ due' \in IF n = Len(Modules) THEN {due, due \ {u}} ELSE {due}
    BY DEF Erase
  <1>3. /\ \A v \in Users : v # u => cache'[v] = cache[v]
        /\ cache'[u] = cache[u] \/ cache'[u] = Absent
        /\ \A v : v # u => (v \in due' <=> v \in due)
        /\ u \notin due' => cache'[u] = Absent
    BY <1>1, <1>2, PubFacts
  <1>4. \A d \in Calls : (Publishes(d)' <=> Publishes(d))
    BY <1>1 DEF Publishes
  <1>5. OnePublishes'
    BY <1>1, <1>4 DEF PInv, OnePublishes
  <1>6. TrueIsPublished'
    <2> SUFFICES ASSUME NEW d \in Calls, Publishes(d), who[d] \notin overlap
                 PROVE  /\ who[d] \in alive /\ copy[d] = version[who[d]]
                        /\ pc[d] = "stamped" => cache'[who[d]].at < at[d]
      BY <1>1, <1>4 DEF TrueIsPublished
    <2>1. /\ who[d] \in alive /\ copy[d] = version[who[d]] /\ who[d] \in Users
          /\ pc[d] = "stamped" => cache[who[d]].at < at[d]
      BY PubFacts DEF PInv, TrueIsPublished
    <2> QED
      BY <1>1, <1>3, <2>1
  <1>7. Stamps'
    <2>1. Absent.at = 0
      BY DEF Absent
    <2>2. cache'[u].at <= clock
      BY <1>3, <2>1, PubFacts DEF PInv, Stamps
    <2> QED
      BY <1>1, <1>3, <2>2 DEF PInv, Stamps
  <1>8. CacheIsTrue'
    <2> SUFFICES ASSUME NEW v \in born, v \notin lost, v \notin overlap
                 PROVE  /\ v \in alive /\ ~ Publishing(v) => cache'[v].version = version[v]
                        /\ v \notin alive /\ v \notin due' => cache'[v] = Absent
      BY <1>1 DEF CacheIsTrue, Publishing
    <2>1. /\ v \in alive /\ ~ Publishing(v) => cache[v].version = version[v]
          /\ v \notin alive /\ v \notin due => cache[v] = Absent
          /\ v \in Users
      BY Facts DEF PInv, CacheIsTrue
    <2> QED
      BY <1>1, <1>3, <2>1
  <1> QED
    BY <1>5, <1>6, <1>7, <1>8 DEF PInv

LEMMA InitPub == Init => PInv
  <1> SUFFICES ASSUME Init PROVE PInv
    OBVIOUS
  <1>1. /\ \A c \in Calls : pc[c] = "idle" /\ ~ Publishes(c)
        /\ alive = born /\ clock = 1 /\ born \in SUBSET Users
        /\ version = [u \in Users |-> IF u \in born THEN 1 ELSE 0]
        /\ cache = [u \in Users |-> IF u \in born THEN [version |-> 1, at |-> 1] ELSE Absent]
    BY DEF Init, Publishes
  <1>2. /\ \A u \in born : cache[u].version = 1 /\ version[u] = 1
        /\ \A u \in Users : cache[u].at \in {0, 1}
    BY <1>1 DEF Absent
  <1>3. OnePublishes /\ TrueIsPublished
    BY <1>1 DEF OnePublishes, TrueIsPublished
  <1>4. Stamps /\ CacheIsTrue
    BY <1>1, <1>2 DEF Stamps, CacheIsTrue
  <1> QED
    BY <1>3, <1>4 DEF PInv

LEMMA NextPub == IInv /\ PInv /\ [Next]_vars => PInv'
  <1> SUFFICES ASSUME IInv, PInv, [Next]_vars PROVE PInv'
    OBVIOUS
  <1>1. ASSUME NEW c \in Calls, NEW u \in Users, Begin(c, u) PROVE PInv'
    BY <1>1, CallsGoOn
  <1>2. ASSUME NEW c \in Calls, NEW u \in Users, NEW s \in SignUps, SignUp(c, u, s) PROVE PInv'
    BY <1>2, SignUpPub
  <1>3. ASSUME NEW c \in Calls, Delete(c) PROVE PInv'
    <2>1. PICK U \in SUBSET alive : Remove(U)
      BY <1>3 DEF Delete
    <2>2. UNCHANGED <<cache, clock, lost>> /\ pc[c] = "ready" /\ Return(c)
      BY <1>3 DEF Delete
    <2> QED
      BY <2>1, <2>2, Removes
  <1>4. CASE FinishSweep
    <2>1. PICK U \in SUBSET alive : Remove(U)
      BY <1>4 DEF FinishSweep
    <2>2. UNCHANGED <<cache, clock, lost>> /\ UNCHANGED call
      BY <1>4 DEF FinishSweep
    <2> QED
      BY <2>1, <2>2, Removes
  <1>5. ASSUME NEW c \in Calls, CallStep(c) PROVE PInv'
    BY <1>3, <1>5, CallsGoOn, CommitPub, StampPub, DeliverPub DEF CallStep
  <1>6. CASE StartSweep \/ (\E u \in Users : SignOut(u) \/ Age(u)) \/ UNCHANGED vars
    <2>1. /\ UNCHANGED <<born, version, cache, clock, alive, due, overlap, lost>>
          /\ UNCHANGED <<pc, who, copy, at>>
      BY <1>6 DEF StartSweep, SignOut, Age, vars, account, call, erasure, history
    <2>2. \A d \in Calls : Publishes(d)' <=> Publishes(d)
      BY <2>1 DEF Publishes
    <2> QED
      BY <2>1, <2>2, NoneBegins
  <1>7. ASSUME NEW u \in Users, Erase(u) PROVE PInv'
    BY <1>7, ErasePub
  <1> QED
    BY <1>1, <1>2, <1>4, <1>5, <1>6, <1>7 DEF Next

(* Between publications the display cache shows the row as it is, and nothing  *)
(* of an account that was erased: a publication carries what was committed     *)
(* last, and a time that no entry has yet (publishProfileUpdated,              *)
(* UpsertUserDisplayCache).                                                    *)
THEOREM CacheShowsTheRow == Spec => []CacheIsTrue
  <1>1. Init => IInv /\ PInv
    BY InitInv, InitPub
  <1>2. IInv /\ PInv /\ [Next]_vars => (IInv /\ PInv)'
    BY NextInv, NextPub
  <1>3. IInv /\ PInv => CacheIsTrue
    BY DEF PInv
  <1> QED
    BY <1>1, <1>2, <1>3, PTL DEF Spec
=============================================================================
