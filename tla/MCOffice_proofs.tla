---------------------------- MODULE MCOffice_proofs ----------------------------
(***************************************************************************)
(* Theorems about components of the back office, for every value of their  *)
(* constants. Inv of each component, with the variables of Gallery, is the *)
(* inductive invariant; the run stays in its component, so that OfficeSpec *)
(* keeps it.                                                               *)
(***************************************************************************)
EXTENDS MCOffice, FiniteSetTheorems, SequenceTheorems, TLAPS

\* A step of the office is one of the component in focus.
LEMMA Focused ==
  ASSUME [OfficeNext]_OfficeVars
  PROVE  /\ focus' = focus
         /\ focus = "mail" => Mail!Next \/ UNCHANGED slots
         /\ focus = "notices" => Notices!Next \/ UNCHANGED slots
         /\ focus = "factor" => Factor!Next \/ UNCHANGED slots
         /\ focus = "sla" => Sla!Next \/ UNCHANGED slots
         /\ focus = "reset" => Reset_!Next \/ UNCHANGED slots
         /\ focus = "accounts" => Account!Next \/ UNCHANGED slots
         /\ focus = "tokens" => Tokens!Next \/ UNCHANGED slots
         /\ focus = "desk" => Desk!Next \/ UNCHANGED slots
         /\ focus = "compliance" => Audit!Next \/ UNCHANGED slots
         /\ focus = "msp" => Customers!Next \/ UNCHANGED slots
         /\ focus = "reports" => Reporting!Next \/ UNCHANGED slots
         /\ focus = "psa" => Provider!Next \/ UNCHANGED slots
         /\ focus = "login" => Login!Next \/ UNCHANGED slots
         /\ focus = "subscription" => Billing!Next \/ UNCHANGED slots
         /\ focus = "licences" => Licence!Next \/ UNCHANGED slots
BY DEF OfficeNext, OfficeVars

\* A function on 1..n is a sequence of length n.
LEMMA FunctionIsSeq ==
  ASSUME NEW n \in Nat, NEW S, NEW f \in [1..n -> S]
  PROVE  f \in Seq(S) /\ Len(f) = n
<1>1. f \in Seq(S)
  BY SeqDef
<1>2. 1..Len(f) = 1..n /\ Len(f) \in Nat
  BY <1>1, LenProperties
<1> QED
  BY <1>1, <1>2

---------------------------------------------------------------------------
(* PasswordReset *)

LEMMA ResetCardinality ==
  ASSUME NEW S, \A x, y \in S : x = y
  PROVE  Reset_!Cardinality(S) <= 1
<1>1. Cardinality(S) <= 1
  <2>1. CASE S = {}
    BY <2>1, FS_EmptySet
  <2>2. ASSUME NEW x \in S PROVE Cardinality(S) <= 1
    <3>1. S = {x} /\ Cardinality({x}) = 1
      BY FS_Singleton
    <3> QED
      BY <3>1
  <2> QED
    BY <2>1, <2>2
<1>2. Reset_!Cardinality(S) = Cardinality(S)
  BY DEF Reset_!Cardinality, Cardinality
<1> QED
  BY <1>1, <1>2

\* Marking links as used keeps the table otherwise.
LEMMA ResetUsed ==
  ASSUME Reset_!TypeOK, NEW seen
  PROVE  /\ Reset_!Used(seen) \in Seq(Reset_!Row) /\ Len(Reset_!Used(seen)) = Len(v1)
         /\ \A l \in 1..Len(v1) : /\ Reset_!Used(seen)[l].used <=> v1[l].used \/ l \in seen
                                  /\ Reset_!Used(seen)[l].expired <=> v1[l].expired
<1> DEFINE n == Len(v1)
<1>1. n \in Nat /\ \A l \in 1..n : v1[l] \in Reset_!Row
  BY DEF Reset_!TypeOK
<1>2. \A l \in 1..n : /\ Reset_!Used(seen)[l] \in Reset_!Row
                      /\ Reset_!Used(seen)[l].used <=> v1[l].used \/ l \in seen
                      /\ Reset_!Used(seen)[l].expired <=> v1[l].expired
  BY <1>1 DEF Reset_!Used, Reset_!Row
<1>3. Reset_!Used(seen) \in [1..n -> Reset_!Row]
  BY <1>2 DEF Reset_!Used
<1> QED
  BY <1>1, <1>2, <1>3, FunctionIsSeq

LEMMA ResetType ==
  ASSUME Reset_!TypeOK, Reset_!Next
  PROVE  Reset_!TypeOK'
<1> USE LinksAssumption
<1>0. /\ Reset_!Rest \in Reset_!Work /\ Len(v1) \in Nat /\ 0 \in Nat
      /\ [used |-> FALSE, expired |-> FALSE] \in Reset_!Row
      /\ Reset_!Usable \subseteq Reset_!Links
  BY DEF Reset_!Rest, Reset_!Work, Reset_!Row, Reset_!Usable, Reset_!Links, Reset_!TypeOK
<1>1. ASSUME NEW w \in Workers, Reset_!RequestReset(w) PROVE Reset_!TypeOK'
  BY <1>0, <1>1 DEF Reset_!TypeOK, Reset_!RequestReset, Reset_!Others, Reset_!Work
<1>2. ASSUME NEW w \in Workers, Reset_!StoreLink(w) PROVE Reset_!TypeOK'
  <2>1. v1' \in Seq(Reset_!Row) /\ Len(v1') = Len(v1) + 1
    BY <1>0, <1>2, ResetUsed DEF Reset_!StoreLink
  <2>2. Len(v1') \in Reset_!Links
    BY <1>0, <1>2, <2>1 DEF Reset_!StoreLink, Reset_!Links
  <2> QED
    BY <1>2, <2>1, <2>2 DEF Reset_!TypeOK, Reset_!StoreLink, Reset_!Work, Reset_!Links
<1>3. ASSUME NEW w \in Workers, Reset_!ConfirmReset(w) \/ Reset_!Reject(w) PROVE Reset_!TypeOK'
  BY <1>0, <1>3, ResetUsed DEF Reset_!TypeOK, Reset_!ConfirmReset, Reset_!Reject
<1>4. ASSUME NEW w \in Workers, NEW ok \in BOOLEAN, Reset_!Mailed(w, ok) PROVE Reset_!TypeOK'
  BY <1>0, <1>4, ResetUsed DEF Reset_!TypeOK, Reset_!Mailed
<1>5. ASSUME NEW w \in Workers, NEW l \in 1..Len(v1), Reset_!CheckLink(w, l) PROVE Reset_!TypeOK'
  BY <1>0, <1>5 DEF Reset_!TypeOK, Reset_!CheckLink, Reset_!Work
<1>6. ASSUME NEW l \in 1..Len(v1), Reset_!Expire(l) PROVE Reset_!TypeOK'
  <2>0. v1[l] \in Reset_!Row
    BY <1>6 DEF Reset_!TypeOK
  <2>1. [v1[l] EXCEPT !.expired = TRUE] \in Reset_!Row
    BY <2>0 DEF Reset_!Row
  <2>2. v1' = [v1 EXCEPT ![l] = [v1[l] EXCEPT !.expired = TRUE]]
    BY <1>6 DEF Reset_!Expire
  <2>3. v1' \in Seq(Reset_!Row) /\ Len(v1') = Len(v1)
    BY <2>1, <2>2, ExceptSeq DEF Reset_!TypeOK
  <2> QED
    BY <1>6, <2>3 DEF Reset_!TypeOK, Reset_!Expire
<1> QED
  BY <1>1, <1>2, <1>3, <1>4, <1>5, <1>6 DEF Reset_!Next

\* A new link takes the place of those the request has seen.
LEMMA ResetStored ==
  ASSUME Reset_!TypeOK, NEW w \in Workers, Reset_!StoreLink(w)
  PROVE  /\ Len(v1') = Len(v1) + 1
         /\ \A l \in 1..Len(v1) : v1[l].used => v1'[l].used
         /\ Reset_!Usable' \subseteq (Reset_!Usable \ v2[w].seen) \union {Len(v1')}
<1> DEFINE u == Reset_!Used(v2[w].seen)
           new == [used |-> FALSE, expired |-> FALSE]
<1>0. Len(v1) \in Nat
  BY DEF Reset_!TypeOK
<1>1. /\ u \in Seq(Reset_!Row) /\ Len(u) = Len(v1) /\ v1' = Append(u, new)
      /\ \A l \in 1..Len(v1) : /\ u[l].used <=> v1[l].used \/ l \in v2[w].seen
                               /\ u[l].expired <=> v1[l].expired
  BY ResetUsed DEF Reset_!StoreLink
<1> HIDE DEF u, new
<1>2. Len(v1') = Len(v1) + 1 /\ \A l \in 1..Len(v1) : v1'[l] = u[l]
  BY <1>0, <1>1
<1>3. \A l \in 1..Len(v1) : v1[l].used => v1'[l].used
  BY <1>1, <1>2
<1>4. ASSUME NEW l \in Reset_!Usable', l # Len(v1') PROVE l \in Reset_!Usable \ v2[w].seen
  <2>1. l \in 1..Len(v1) /\ ~v1'[l].used /\ ~v1'[l].expired
    BY <1>0, <1>2, <1>4 DEF Reset_!Usable
  <2> QED
    BY <1>1, <1>2, <2>1 DEF Reset_!Usable
<1> QED
  BY <1>2, <1>3, <1>4

\* No link goes away or becomes usable again, and only StoreLink adds one.
LEMMA ResetLinks ==
  ASSUME Reset_!TypeOK, Reset_!Next
  PROVE  /\ Len(v1) \in Nat /\ Len(v1') \in Nat /\ Len(v1) <= Len(v1')
         /\ \A l \in 1..Len(v1) : v1[l].used => v1'[l].used
         /\ (\A w \in Workers : ~Reset_!StoreLink(w)) => Reset_!Usable' \subseteq Reset_!Usable
<1>0. Len(v1) \in Nat /\ \A l \in 1..Len(v1) : v1[l] \in Reset_!Row
  BY DEF Reset_!TypeOK
<1>2. ASSUME NEW w \in Workers, NEW seen, v1' = Reset_!Used(seen)
      PROVE  /\ Len(v1') = Len(v1) /\ \A l \in 1..Len(v1) : v1[l].used => v1'[l].used
             /\ Reset_!Usable' \subseteq Reset_!Usable
  <2>1. /\ Len(v1') = Len(v1)
        /\ \A l \in 1..Len(v1) : (v1[l].used => v1'[l].used) /\ (v1'[l].expired <=> v1[l].expired)
    BY <1>2, ResetUsed
  <2>2. ASSUME NEW l \in Reset_!Usable' PROVE l \in Reset_!Usable
    <3>1. l \in 1..Len(v1') /\ ~v1'[l].used /\ ~v1'[l].expired
      BY <2>2 DEF Reset_!Usable
    <3> QED
      BY <2>1, <3>1 DEF Reset_!Usable
  <2>3. Reset_!Usable' \subseteq Reset_!Usable
    BY <2>2
  <2> QED
    BY <2>1, <2>3
<1>3. ASSUME NEW l \in 1..Len(v1), Reset_!Expire(l)
      PROVE  /\ Len(v1') = Len(v1) /\ \A k \in 1..Len(v1) : v1[k].used => v1'[k].used
             /\ Reset_!Usable' \subseteq Reset_!Usable
  <2> DEFINE new == [v1[l] EXCEPT !.expired = TRUE]
  <2>1. v1' = [v1 EXCEPT ![l] = new] /\ new \in Reset_!Row /\ new.used = v1[l].used /\ new.expired
    BY <1>0, <1>3 DEF Reset_!Expire, Reset_!Row
  <2>2. Len(v1') = Len(v1) /\ \A k \in 1..Len(v1) : v1'[k] = IF k = l THEN new ELSE v1[k]
    BY <2>1, ExceptSeq DEF Reset_!TypeOK
  <2> HIDE DEF new
  <2> QED
    BY <1>0, <2>1, <2>2 DEF Reset_!Usable
<1>4. CASE UNCHANGED v1
  BY <1>0, <1>4 DEF Reset_!Usable
<1>5. ASSUME NEW w \in Workers, Reset_!RequestReset(w) \/ Reset_!Reject(w)
                                  \/ \E l \in 1..Len(v1) : Reset_!CheckLink(w, l)
      PROVE  UNCHANGED v1
  BY <1>5 DEF Reset_!RequestReset, Reset_!Reject, Reset_!CheckLink
<1>6. ASSUME NEW w \in Workers, Reset_!ConfirmReset(w) \/ \E ok \in BOOLEAN : Reset_!Mailed(w, ok)
      PROVE  UNCHANGED v1 \/ \E seen \in {{v2[w].link}} : v1' = Reset_!Used(seen)
  BY <1>6 DEF Reset_!ConfirmReset, Reset_!Mailed
<1>7. ASSUME NEW w \in Workers, Reset_!StoreLink(w)
      PROVE  Len(v1') = Len(v1) + 1 /\ \A l \in 1..Len(v1) : v1[l].used => v1'[l].used
  BY <1>7, ResetStored
<1>8. CASE UNCHANGED v1 \/ (\E w \in Workers : \E seen \in {{v2[w].link}} : v1' = Reset_!Used(seen))
             \/ \E l \in 1..Len(v1) : Reset_!Expire(l)
  <2>1. Len(v1') = Len(v1) /\ Reset_!Usable' \subseteq Reset_!Usable
    <3>1. CASE UNCHANGED v1
      BY <3>1 DEF Reset_!Usable
    <3>2. ASSUME NEW w \in Workers, v1' = Reset_!Used({v2[w].link})
          PROVE  Len(v1') = Len(v1) /\ Reset_!Usable' \subseteq Reset_!Usable
      BY <1>2, <3>2
    <3> QED
      BY <1>3, <1>8, <3>1, <3>2
  <2>2. \A l \in 1..Len(v1) : v1[l].used => v1'[l].used
    BY <1>2, <1>3, <1>8
  <2> QED
    BY <1>0, <2>1, <2>2
<1>9. CASE \E w \in Workers : Reset_!StoreLink(w)
  BY <1>0, <1>7, <1>9
<1> QED
  BY <1>5, <1>6, <1>8, <1>9 DEF Reset_!Next

LEMMA ResetUsedOnce ==
  ASSUME Reset_!TypeOK, Reset_!UsedOnce, Reset_!Next
  PROVE  Reset_!UsedOnce'
<1>0. /\ Len(v1) \in Nat /\ Len(v1') \in Nat /\ Len(v1) <= Len(v1')
      /\ \A l \in 1..Len(v1) : v1[l].used => v1'[l].used
  BY ResetLinks
<1>1. \A l \in Reset_!Links : v3[l] \in Nat
  BY DEF Reset_!TypeOK
\* Steps that neither confirm a link nor begin to.
<1>2. ASSUME UNCHANGED <<v3, v5>>,
             \A w \in Workers : v2'[w] = v2[w] \/ v2'[w].todo # "confirm"
      PROVE  Reset_!UsedOnce'
  <2>1. \A w \in Workers : v2'[w].todo = "confirm" => v2'[w] = v2[w]
    BY <1>2
  <2>2. ASSUME NEW w \in Workers, v2'[w].todo = "confirm" PROVE v2'[w].link \in 1..Len(v1')
    BY <1>0, <2>1, <2>2 DEF Reset_!UsedOnce
  <2>3. ASSUME NEW l \in Reset_!Links \ v5, NEW v \in Workers, NEW w \in Workers,
               v2'[v].todo = "confirm", v2'[v].link = l, v2'[w].todo = "confirm", v2'[w].link = l
        PROVE  v = w
    BY <2>1, <2>3 DEF Reset_!UsedOnce
  <2>4. ASSUME NEW l \in Reset_!Links \ v5, v3[l] > 0
        PROVE  /\ v3[l] = 1 /\ l <= Len(v1') /\ v1'[l].used
               /\ \A w \in Workers : v2'[w].todo = "confirm" => v2'[w].link # l
    <3>1. v3[l] = 1 /\ l \in 1..Len(v1) /\ v1[l].used
      BY <1>0, <2>4, LinksAssumption DEF Reset_!UsedOnce, Reset_!Links
    <3> QED
      BY <1>0, <2>1, <2>4, <3>1 DEF Reset_!UsedOnce
  <2> QED
    BY <1>2, <2>2, <2>3, <2>4 DEF Reset_!UsedOnce
<1>3. ASSUME NEW w \in Workers,
             Reset_!RequestReset(w) \/ Reset_!StoreLink(w) \/ Reset_!Reject(w)
               \/ (\E ok \in BOOLEAN : Reset_!Mailed(w, ok))
      PROVE  Reset_!UsedOnce'
  <2>1. v2' = [v2 EXCEPT ![w] = v2'[w]] /\ v2'[w].todo # "confirm" /\ UNCHANGED <<v3, v5>>
    BY <1>3 DEF Reset_!RequestReset, Reset_!StoreLink, Reset_!Reject, Reset_!Mailed, Reset_!Rest, Reset_!TypeOK
  <2> QED
    BY <1>2, <2>1 DEF Reset_!TypeOK
<1>4. ASSUME NEW l \in 1..Len(v1), Reset_!Expire(l) PROVE Reset_!UsedOnce'
  BY <1>2, <1>4 DEF Reset_!Expire
<1>5. ASSUME NEW w \in Workers, NEW k \in 1..Len(v1), Reset_!CheckLink(w, k) PROVE Reset_!UsedOnce'
  <2>1. /\ \A v \in Workers : v2'[v] = IF v = w THEN [todo |-> "confirm", link |-> k, seen |-> {}] ELSE v2[v]
        /\ UNCHANGED <<v1, v3>> /\ v5 \subseteq v5' /\ ~v1[k].used
        /\ k \notin v5' => \A v \in Workers : v2[v].todo = "confirm" => v2[v].link # k
    BY <1>5 DEF Reset_!CheckLink, Reset_!TypeOK, Reset_!Usable
  <2> QED
    BY <1>0, <1>1, <2>1 DEF Reset_!UsedOnce
<1>6. ASSUME NEW w \in Workers, Reset_!ConfirmReset(w) PROVE Reset_!UsedOnce'
  <2> DEFINE k == v2[w].link
  <2>1. k \in 1..Len(v1) /\ v2[w].todo = "confirm" /\ k \in Reset_!Links
    BY <1>6, LinksAssumption DEF Reset_!ConfirmReset, Reset_!UsedOnce, Reset_!TypeOK, Reset_!Links
  <2>2. /\ \A v \in Workers : v2'[v] = IF v = w THEN Reset_!Rest ELSE v2[v]
        /\ Reset_!Rest.todo = "rest" /\ UNCHANGED v5
        /\ \A l \in Reset_!Links : v3'[l] = IF l = k THEN v3[l] + 1 ELSE v3[l]
    BY <1>6 DEF Reset_!ConfirmReset, Reset_!TypeOK, Reset_!Rest
  <2>3. v1'[k].used
    <3>1. v1' = Reset_!Used({k})
      BY <1>6 DEF Reset_!ConfirmReset
    <3> QED
      BY <2>1, <3>1, ResetUsed
  <2>4. k \notin v5 => v3[k] = 0
    BY <1>1, <2>1 DEF Reset_!UsedOnce
  <2>5. \A v \in Workers : v2'[v].todo = "confirm" => v # w /\ v2'[v] = v2[v]
    BY <2>2
  <2>6. ASSUME NEW v \in Workers, v2'[v].todo = "confirm" PROVE v2'[v].link \in 1..Len(v1')
    BY <1>0, <2>5, <2>6 DEF Reset_!UsedOnce
  <2>7. ASSUME NEW l \in Reset_!Links \ v5, NEW u \in Workers, NEW v \in Workers,
               v2'[u].todo = "confirm", v2'[u].link = l, v2'[v].todo = "confirm", v2'[v].link = l
        PROVE  u = v
    BY <2>5, <2>7 DEF Reset_!UsedOnce
  <2>8. ASSUME NEW l \in Reset_!Links \ v5, v3'[l] > 0
        PROVE  /\ v3'[l] = 1 /\ l <= Len(v1') /\ v1'[l].used
               /\ \A v \in Workers : v2'[v].todo = "confirm" => v2'[v].link # l
    <3>1. CASE l = k
      <4>1. \A v \in Workers : v2'[v].todo = "confirm" => v2'[v].link # l
        BY <2>1, <2>5, <2>8, <3>1 DEF Reset_!UsedOnce
      <4> QED
        BY <1>0, <2>1, <2>2, <2>3, <2>4, <2>8, <3>1, <4>1
    <3>2. CASE l # k
      <4>1. v3'[l] = v3[l] /\ v3[l] > 0
        BY <2>2, <2>8, <3>2
      <4>2. v3[l] = 1 /\ l \in 1..Len(v1) /\ v1[l].used
        BY <1>0, <2>8, <4>1, LinksAssumption DEF Reset_!UsedOnce, Reset_!Links
      <4> QED
        BY <1>0, <2>5, <2>8, <4>1, <4>2 DEF Reset_!UsedOnce
    <3> QED
      BY <3>1, <3>2
  <2> QED
    BY <2>2, <2>6, <2>7, <2>8 DEF Reset_!UsedOnce
<1> QED
  BY <1>3, <1>4, <1>5, <1>6 DEF Reset_!Next

LEMMA ResetOneOutstanding ==
  ASSUME Reset_!TypeOK, Reset_!OneOutstanding, Reset_!Next
  PROVE  Reset_!OneOutstanding'
<1>1. ASSUME NEW w \in Workers, Reset_!RequestReset(w) PROVE Reset_!OneOutstanding'
  <2>1. /\ \A v \in Workers : v2'[v] = IF v = w THEN [todo |-> "store", link |-> 0, seen |-> Reset_!Usable] ELSE v2[v]
        /\ ~v4' => ~v4 /\ \A v \in Workers : v2[v].todo = "store" => v = w
        /\ Reset_!Usable' = Reset_!Usable
    BY <1>1 DEF Reset_!RequestReset, Reset_!TypeOK, Reset_!Others, Reset_!Usable
  <2> QED
    BY <2>1 DEF Reset_!OneOutstanding
<1>2. ASSUME NEW w \in Workers, Reset_!StoreLink(w) PROVE Reset_!OneOutstanding'
  <2>1. /\ \A v \in Workers : v2'[v] = IF v = w THEN [todo |-> "mail", link |-> Len(v1'), seen |-> {}] ELSE v2[v]
        /\ UNCHANGED v4 /\ v2[w].todo = "store"
    BY <1>2 DEF Reset_!StoreLink, Reset_!TypeOK
  <2>2. ~v4 => Reset_!Usable' \subseteq {Len(v1')}
    BY <1>2, <2>1, ResetStored DEF Reset_!OneOutstanding
  <2> QED
    BY <2>1, <2>2 DEF Reset_!OneOutstanding
<1>3. ASSUME NEW w \in Workers, UNCHANGED v4, v2' = [v2 EXCEPT ![w] = v2'[w]], v2'[w].todo # "store",
             Reset_!Usable' \subseteq Reset_!Usable
      PROVE  Reset_!OneOutstanding'
  <2>1. \A v \in Workers : v2'[v].todo = "store" => v2'[v] = v2[v]
    BY <1>3 DEF Reset_!TypeOK
  <2> QED
    BY <1>3, <2>1 DEF Reset_!OneOutstanding
<1>4. CASE \A w \in Workers : ~Reset_!RequestReset(w) /\ ~Reset_!StoreLink(w)
  <2>1. Reset_!Usable' \subseteq Reset_!Usable
    BY <1>4, ResetLinks
  <2>2. ASSUME NEW w \in Workers,
               Reset_!ConfirmReset(w) \/ Reset_!Reject(w) \/ (\E ok \in BOOLEAN : Reset_!Mailed(w, ok))
                 \/ (\E l \in 1..Len(v1) : Reset_!CheckLink(w, l))
        PROVE  UNCHANGED v4 /\ v2' = [v2 EXCEPT ![w] = v2'[w]] /\ v2'[w].todo # "store"
    BY <2>2 DEF Reset_!ConfirmReset, Reset_!Reject, Reset_!Mailed, Reset_!CheckLink, Reset_!Rest, Reset_!TypeOK
  <2>3. ASSUME NEW l \in 1..Len(v1), Reset_!Expire(l) PROVE Reset_!OneOutstanding'
    BY <2>1, <2>3 DEF Reset_!Expire, Reset_!OneOutstanding
  <2> QED
    BY <1>3, <1>4, <2>1, <2>2, <2>3 DEF Reset_!Next
<1> QED
  BY <1>1, <1>2, <1>4

\* Requests and confirmations that do not overlap leave one usable link, and a link changes the
\* password once, for any number of requests and links.
THEOREM OneLinkOnceCorrect == OfficeSpec => []OneLinkOnce
<1> DEFINE I == focus = "reset" => Reset_!Inv
<1>1. OfficeInit => I
  <2> SUFFICES ASSUME Reset_!Init PROVE Reset_!Inv
    BY DEF OfficeInit
  <2>1. Reset_!TypeOK
    <3>1. v1 \in Seq(Reset_!Row) /\ Len(v1) = 0
      BY EmptySeq DEF Reset_!Init
    <3>2. v2 \in [Workers -> Reset_!Work] /\ v3 \in [Reset_!Links -> Nat]
      BY DEF Reset_!Init, Reset_!Rest, Reset_!Work
    <3>3. Len(v1) <= MaxLinks
      BY LinksAssumption, <3>1
    <3>4. v4 \in BOOLEAN /\ v5 \subseteq Reset_!Links
      BY DEF Reset_!Init
    <3> QED
      BY <3>1, <3>2, <3>3, <3>4 DEF Reset_!TypeOK
  <2>2. Reset_!UsedOnce
    BY DEF Reset_!Init, Reset_!UsedOnce, Reset_!Rest
  <2>3. Reset_!OneOutstanding
    BY DEF Reset_!Init, Reset_!OneOutstanding, Reset_!Rest, Reset_!Usable
  <2> QED
    BY <2>1, <2>2, <2>3 DEF Reset_!Inv
<1>2. I /\ [OfficeNext]_OfficeVars => I'
  <2> SUFFICES ASSUME Reset_!Inv, [OfficeNext]_OfficeVars, focus = "reset" PROVE Reset_!Inv'
    BY Focused
  <2>1. CASE Reset_!Next
    BY <2>1, ResetType, ResetUsedOnce, ResetOneOutstanding DEF Reset_!Inv
  <2>2. CASE UNCHANGED slots
    BY <2>2 DEF slots, Reset_!Inv, Reset_!TypeOK, Reset_!UsedOnce, Reset_!OneOutstanding, Reset_!Usable
  <2> QED
    BY <2>1, <2>2, Focused
<1>3. I => OneLinkOnce
  <2> SUFFICES ASSUME Reset_!Inv PROVE Reset_!OneLinkOnce
    BY DEF OneLinkOnce
  <2>1. \A l \in Reset_!Links : v3[l] <= 1 \/ l \in v5
    BY DEF Reset_!Inv, Reset_!TypeOK, Reset_!UsedOnce
  <2>2. v4 \/ Reset_!Cardinality(Reset_!Usable) <= 1
    BY ResetCardinality DEF Reset_!Inv, Reset_!OneOutstanding
  <2> QED
    BY <2>1, <2>2 DEF Reset_!OneLinkOnce
<1> QED
  BY <1>1, <1>2, <1>3, PTL DEF OfficeSpec

---------------------------------------------------------------------------
(* Mailer and Notifications *)

LEMMA MailKeeps ==
  ASSUME Mail!Inv, Mail!Next
  PROVE  Mail!Inv'
<1> USE DEF Mail!Inv, Mail!ResultTellsDelivery
<1>0. \A r \in Recipients : v5[r] \in Nat
  OBVIOUS
<1>1. CASE Mail!Start
  BY <1>1 DEF Mail!Start
<1>2. CASE Mail!Refused
  BY <1>2 DEF Mail!Refused, Mail!Trying, Mail!Ends, Mail!FallsBack
<1>3. ASSUME NEW some \in SUBSET Recipients, Mail!Accepted(some) PROVE Mail!Inv'
  <2>1. /\ v5' \in [Recipients -> Nat] /\ v4 = "none" /\ v4' = "ok" /\ UNCHANGED v6
        /\ \A r \in Recipients : v5'[r] = IF r \in some THEN v5[r] + 1 ELSE v5[r]
        /\ \A r \in Recipients \ v7' : r \in some
    BY <1>0, <1>3 DEF Mail!Accepted, Mail!Trying, Mail!Takes, Mail!Ends, Mail!FallsBack
  <2> QED
    BY <1>0, <2>1
<1>4. ASSUME NEW some \in SUBSET Recipients, Mail!Disturbed(some) PROVE Mail!Inv'
  <2>1. /\ v5' \in [Recipients -> Nat] /\ v4 = "none" /\ v4' \in {"none", "failed"}
        /\ \A r \in Recipients : v5'[r] = IF r \in some THEN v5[r] + 1 ELSE v5[r]
    BY <1>0, <1>4 DEF Mail!Disturbed, Mail!Trying, Mail!Takes, Mail!Ends, Mail!FallsBack
  <2>2. v6' \in BOOLEAN /\ (~v6' => ~v6 /\ some = {})
    BY <1>4 DEF Mail!Disturbed
  <2> QED
    BY <1>0, <2>1, <2>2
<1> QED
  BY <1>1, <1>2, <1>3, <1>4 DEF Mail!Next

LEMMA NoticesType ==
  ASSUME Notices!TypeOK, Notices!Next
  PROVE  Notices!TypeOK'
<1> USE DEF Notices!TypeOK
<1>1. ASSUME NEW c \in Channels, Notices!DeleteChannel(c) PROVE Notices!TypeOK'
  <2>1. \A m \in Messages : [v3[m] EXCEPT !.over = {}] \in [at : {"start", "flushed", "answered", "done"}, over : SUBSET Channels, config : Notices!Configs,
                               outcome : {"none", "sent", "dry_run", "failed"}]
    OBVIOUS
  <2> QED
    BY <1>1, <2>1 DEF Notices!DeleteChannel, Notices!Configs
<1>2. ASSUME NEW c \in Channels, NEW s \in {"enabled", "disabled"}, NEW g \in Notices!Configs, Notices!SaveChannel(c, s, g)
      PROVE  Notices!TypeOK'
  BY <1>2 DEF Notices!SaveChannel
<1>3. ASSUME NEW c \in Channels, NEW m \in Messages, NEW uses \in BOOLEAN, Notices!Send(m, c, uses) PROVE Notices!TypeOK'
  BY <1>3 DEF Notices!Send
<1>4. ASSUME NEW s \in {"none", "enabled", "disabled"}, Notices!SaveTemplate(s) PROVE Notices!TypeOK'
  BY <1>4 DEF Notices!SaveTemplate
<1>5. ASSUME NEW m \in Messages, Notices!Dispatch(m) PROVE Notices!TypeOK'
  <2>1. \E o \in {"sent", "dry_run", "failed"} : v3' = [v3 EXCEPT ![m] = [v3[m] EXCEPT !.at = "answered", !.outcome = o]]
    BY <1>5 DEF Notices!Dispatch, Notices!Dry
  <2>2. v3' \in [Messages -> [at : {"start", "flushed", "answered", "done"}, over : SUBSET Channels, config : Notices!Configs,
                             outcome : {"none", "sent", "dry_run", "failed"}]]
    <3>1. PICK o \in {"sent", "dry_run", "failed"} : v3' = [v3 EXCEPT ![m] = [v3[m] EXCEPT !.at = "answered", !.outcome = o]]
      BY <2>1
    <3>2. [v3[m] EXCEPT !.at = "answered", !.outcome = o]
            \in [at : {"start", "flushed", "answered", "done"}, over : SUBSET Channels, config : Notices!Configs,
                outcome : {"none", "sent", "dry_run", "failed"}]
      OBVIOUS
    <3> QED
      BY <3>1, <3>2
  <2> QED
    BY <1>5, <2>2 DEF Notices!Dispatch
<1>6. ASSUME NEW m \in Messages, Notices!Commit(m) PROVE Notices!TypeOK'
  <2>1. [v3[m] EXCEPT !.at = "done", !.outcome = "none", !.config = "complete"]
          \in [at : {"start", "flushed", "answered", "done"}, over : SUBSET Channels, config : Notices!Configs,
              outcome : {"none", "sent", "dry_run", "failed"}]
    BY DEF Notices!Configs
  <2>2. v3' = [v3 EXCEPT ![m] = [v3[m] EXCEPT !.at = "done", !.outcome = "none", !.config = "complete"]]
    BY <1>6 DEF Notices!Commit
  <2> QED
    BY <1>6, <2>1, <2>2 DEF Notices!Commit
<1>7. ASSUME NEW m \in Messages, Notices!Dies(m) PROVE Notices!TypeOK'
  BY <1>7 DEF Notices!Dies, Notices!Idle, Notices!Configs
<1> QED
  BY <1>1, <1>2, <1>3, <1>4, <1>5, <1>6, <1>7 DEF Notices!Next

LEMMA NoticesKeeps ==
  ASSUME Notices!Inv, Notices!Next
  PROVE  Notices!Inv'
<1> USE DEF Notices!Inv
<1> DEFINE Good(n) == Notices!KnownTo(n)' /\
              (v3'[n].at = "done" /\ n \notin v7' /\ v3'[n].over # {}
                => (v4'[n] = "sent") = (\E c \in v3'[n].over : <<n, c>> \in v5'))
<1>0. /\ Notices!TypeOK' /\ \A n \in Messages : Notices!KnownTo(n)
      /\ \A n \in Messages : v3[n].over \subseteq Channels
  BY NoticesType DEF Notices!TypeOK
\* A message whose request and record stay keeps what is said of it.
<1>1. ASSUME NEW n \in Messages, v3'[n] = v3[n], v4'[n] = v4[n],
             \A c \in Channels : <<n, c>> \in v5' <=> <<n, c>> \in v5, n \in v7 => n \in v7'
      PROVE  Good(n)
  BY <1>0, <1>1 DEF Notices!KnownTo, Notices!DeliveryTells
<1>2. ASSUME UNCHANGED <<v3, v4, v5, v7>> PROVE \A n \in Messages : Good(n)
  BY <1>1, <1>2
<1>3. ASSUME NEW c \in Channels, Notices!DeleteChannel(c), NEW n \in Messages PROVE Good(n)
  <2>1. CASE v3[n].over = {c}
    <3>1. v3'[n] = [v3[n] EXCEPT !.over = {}] /\ v3[n].at \notin {"flushed", "answered", "start"}
      BY <1>0, <1>3, <2>1 DEF Notices!DeleteChannel, Notices!KnownTo
    <3>2. v3'[n].over = {} /\ v3'[n].at = "done"
      BY <3>1 DEF Notices!TypeOK
    <3> QED
      BY <3>2 DEF Notices!KnownTo
  <2>2. CASE v3[n].over # {c}
    BY <1>1, <1>3, <2>2 DEF Notices!DeleteChannel
  <2> QED
    BY <2>1, <2>2
<1>4. ASSUME NEW c \in Channels, NEW m \in Messages, NEW uses \in BOOLEAN, Notices!Send(m, c, uses),
             NEW n \in Messages
      PROVE  Good(n)
  <2>1. CASE n = m
    <3>1. v3'[n].at = "flushed" /\ v3'[n].over = {c} /\ v3[n].at = "start" /\ UNCHANGED v5
      BY <1>4, <2>1 DEF Notices!Send, Notices!TypeOK, Notices!Idle
    <3> QED
      BY <1>0, <3>1 DEF Notices!KnownTo
  <2>2. CASE n # m
    BY <1>1, <1>4, <2>2 DEF Notices!Send, Notices!TypeOK
  <2> QED
    BY <2>1, <2>2
<1>5. ASSUME NEW m \in Messages, Notices!Dispatch(m), NEW n \in Messages PROVE Good(n)
  <2>1. CASE n = m /\ v3[m].config # "complete"
    <3>1. PICK o \in {"dry_run", "failed"} : v3'[n] = [v3[n] EXCEPT !.at = "answered", !.outcome = o]
      BY <1>5, <2>1 DEF Notices!Dispatch, Notices!Dry, Notices!TypeOK
    <3>2. v3'[n].at = "answered" /\ v3'[n].outcome # "sent" /\ v3'[n].over = v3[n].over
      BY <3>1 DEF Notices!TypeOK
    <3>3. UNCHANGED v5 /\ v3[n].at = "flushed"
      BY <1>5, <2>1 DEF Notices!Dispatch
    <3> QED
      BY <1>0, <3>2, <3>3 DEF Notices!KnownTo
  <2>2. CASE n = m /\ v3[m].config = "complete"
    <3>1. PICK taken \in BOOLEAN, heard \in BOOLEAN :
             /\ v3' = [v3 EXCEPT ![m].at = "answered", ![m].outcome = IF taken /\ heard THEN "sent" ELSE "failed"]
             /\ v5' = IF taken THEN v5 \union {<<m, c>> : c \in v3[m].over} ELSE v5
             /\ v7' = IF taken /\ ~heard THEN v7 \union {m} ELSE v7
      BY <1>5, <2>2 DEF Notices!Dispatch
    <3>2. /\ v3'[n].at = "answered" /\ v3'[n].over = v3[n].over
          /\ v3'[n].outcome = IF taken /\ heard THEN "sent" ELSE "failed"
      BY <2>2, <3>1 DEF Notices!TypeOK
    <3>3. v3[n].at = "flushed" /\ v3[n].over # {} /\ \A c \in Channels : <<n, c>> \notin v5
      BY <1>0, <1>5, <2>2 DEF Notices!Dispatch, Notices!KnownTo
    <3>4. n \notin v7' => (v3'[n].outcome = "sent") = (\E c \in v3'[n].over : <<n, c>> \in v5')
      <4>1. CASE taken /\ heard
        <5>1. v3'[n].outcome = "sent" /\ \A c \in v3'[n].over : <<n, c>> \in v5'
          BY <2>2, <3>1, <3>2, <4>1
        <5> QED
          BY <3>2, <3>3, <5>1
      <4>2. CASE taken /\ ~heard
        BY <2>2, <3>1, <4>2
      <4>3. CASE ~taken
        <5>1. v3'[n].outcome = "failed" /\ UNCHANGED v5
          BY <3>1, <3>2, <4>3
        <5> QED
          BY <1>0, <3>2, <3>3, <5>1
      <4> QED
        BY <4>1, <4>2, <4>3
    <3> QED
      BY <3>2, <3>4 DEF Notices!KnownTo
  <2>3. CASE n # m
    <3>1. v3'[n] = v3[n] /\ UNCHANGED v4 /\ v7 \subseteq v7'
      BY <1>5, <2>3 DEF Notices!Dispatch, Notices!TypeOK
    <3>2. \A c \in Channels : <<n, c>> \in v5' <=> <<n, c>> \in v5
      BY <1>5, <2>3 DEF Notices!Dispatch
    <3> QED
      BY <1>1, <3>1, <3>2
  <2> QED
    BY <2>1, <2>2, <2>3
<1>6. ASSUME NEW m \in Messages, Notices!Commit(m), NEW n \in Messages PROVE Good(n)
  <2>1. CASE n = m
    <3>1. /\ v3'[n].at = "done" /\ v3'[n].over = v3[n].over /\ v3[n].at = "answered"
          /\ v4'[n] = v3[n].outcome /\ UNCHANGED <<v5, v7>>
      BY <1>6, <2>1 DEF Notices!Commit, Notices!TypeOK
    <3> QED
      BY <1>0, <3>1 DEF Notices!KnownTo
  <2>2. CASE n # m
    BY <1>1, <1>6, <2>2 DEF Notices!Commit, Notices!TypeOK
  <2> QED
    BY <2>1, <2>2
<1>7. ASSUME NEW m \in Messages, Notices!Dies(m), NEW n \in Messages PROVE Good(n)
  <2>1. CASE n = m
    <3>1. v3'[n].at = "done" /\ n \in v7'
      BY <1>7, <2>1 DEF Notices!Dies, Notices!TypeOK, Notices!Idle
    <3> QED
      BY <3>1 DEF Notices!KnownTo
  <2>2. CASE n # m
    BY <1>1, <1>7, <2>2 DEF Notices!Dies, Notices!TypeOK
  <2> QED
    BY <2>1, <2>2
<1>8. \A n \in Messages : Good(n)
  <2>1. ASSUME NEW c \in Channels, NEW s \in {"enabled", "disabled"}, NEW g \in Notices!Configs, Notices!SaveChannel(c, s, g)
        PROVE  UNCHANGED <<v3, v4, v5, v7>>
    BY <2>1 DEF Notices!SaveChannel
  <2>2. ASSUME NEW s \in {"none", "enabled", "disabled"}, Notices!SaveTemplate(s)
        PROVE  UNCHANGED <<v3, v4, v5, v7>>
    BY <2>2 DEF Notices!SaveTemplate
  <2> HIDE DEF Good
  <2> QED
    BY <1>2, <1>3, <1>4, <1>5, <1>6, <1>7, <2>1, <2>2 DEF Notices!Next
<1> QED
  BY <1>0, <1>8 DEF Notices!DeliveryTells

\* Whichever provider, attempt and answer, the record that is left of an e-mail or a notification
\* says what became of it, for any recipients, messages, channels and number of retries.
THEOREM OutcomesAreToldCorrect == OfficeSpec => []OutcomesAreTold
<1> DEFINE I == (focus = "mail" => Mail!Inv) /\ (focus = "notices" => Notices!Inv)
<1>1. OfficeInit => I
  <2>1. Mail!Init => Mail!Inv
    <3> SUFFICES ASSUME Mail!Init PROVE Mail!Inv
      OBVIOUS
    <3>1. v5 \in [Recipients -> Nat] /\ \A r \in Recipients : v5[r] = 0
      BY DEF Mail!Init
    <3>2. v4 = "none" /\ v6 = FALSE
      BY DEF Mail!Init
    <3>3. v4 \in {"none", "ok", "failed", "skipped"} /\ v4 # "ok" /\ v6 \in BOOLEAN
      BY <3>2
    <3>4. \A r \in Recipients : v5[r] <= 1
      BY <3>1
    <3> QED
      BY <3>1, <3>3, <3>4 DEF Mail!Inv, Mail!ResultTellsDelivery
  <2>2. Notices!Init => Notices!Inv
    <3> SUFFICES ASSUME Notices!Init PROVE Notices!Inv
      OBVIOUS
    <3>1. Notices!TypeOK
      BY DEF Notices!Init, Notices!TypeOK, Notices!Idle, Notices!Configs
    <3>2. \A m \in Messages : Notices!KnownTo(m) /\ v3[m].at = "start"
      BY DEF Notices!Init, Notices!KnownTo, Notices!Idle
    <3> QED
      BY <3>1, <3>2 DEF Notices!Inv, Notices!DeliveryTells
  <2> QED
    BY <2>1, <2>2 DEF OfficeInit
<1>2. I /\ [OfficeNext]_OfficeVars => I'
  <2> SUFFICES ASSUME I, [OfficeNext]_OfficeVars PROVE I'
    OBVIOUS
  <2>1. CASE UNCHANGED slots
    <3>1. Mail!Inv => Mail!Inv'
      BY <2>1 DEF slots, Mail!Inv, Mail!ResultTellsDelivery
    <3>2. Notices!Inv => Notices!Inv'
      BY <2>1 DEF slots, Notices!Inv, Notices!TypeOK, Notices!KnownTo, Notices!DeliveryTells
    <3> QED
      BY <3>1, <3>2, Focused
  <2>2. CASE focus = "mail" /\ Mail!Next
    BY <2>2, MailKeeps, Focused
  <2>3. CASE focus = "notices" /\ Notices!Next
    BY <2>3, NoticesKeeps, Focused
  <2>4. CASE focus \notin {"mail", "notices"}
    BY <2>4, Focused
  <2> QED
    BY <2>1, <2>2, <2>3, <2>4, Focused
<1>3. I => OutcomesAreTold
  BY DEF OutcomesAreTold, ResultTellsDelivery, DeliveryTells, Mail!Inv, Notices!Inv
<1> QED
  BY <1>1, <1>2, <1>3, PTL DEF OfficeSpec

---------------------------------------------------------------------------
(* SecondFactor *)

LEMMA FactorType ==
  ASSUME Factor!TypeOK, Factor!Next
  PROVE  Factor!TypeOK'
<1> USE SecretsAssumption DEF Factor!TypeOK
<1> DEFINE Request == [does : {"nothing", "setup", "mail", "enable"}, secret : 0..MaxSecrets, was : BOOLEAN, met : BOOLEAN]
<1>0. Factor!Idle \in Request /\ Factor!Idle.does = "nothing"
  BY DEF Factor!Idle
<1>1. ASSUME NEW t \in Threads, NEW does \in {"setup", "enable"}, NEW s \in 0..MaxSecrets,
             Factor!Read(t, does, s), s # 0
      PROVE  /\ v4' \in [Threads -> Request]
             /\ \A u \in Threads : v4'[u].does \in {"setup", "mail"} => v4'[u].secret # 0
  <2> DEFINE new == [does |-> does, secret |-> s, was |-> v2, met |-> Factor!Busy(t)]
  <2>1. new \in Request /\ new.secret # 0
    BY <1>1 DEF Factor!Busy
  <2>2. \A u \in Threads : /\ [v4[u] EXCEPT !.met = TRUE] \in Request /\ v4[u] \in Request
                           /\ [v4[u] EXCEPT !.met = TRUE].does = v4[u].does
                           /\ [v4[u] EXCEPT !.met = TRUE].secret = v4[u].secret
    OBVIOUS
  <2> HIDE DEF Request, new
  <2>3. \A u \in Threads : v4'[u] = new \/ v4'[u] = v4[u] \/ v4'[u] = [v4[u] EXCEPT !.met = TRUE]
    BY <1>1 DEF Factor!Read, new
  <2>4. v4' \in [Threads -> Request]
    BY <1>1, <2>1, <2>2 DEF Factor!Read, new
  <2> QED
    BY <2>1, <2>2, <2>3, <2>4
\* A thread that is left with what it had, or with a request that is idle or has a secret.
<1>9. ASSUME NEW t \in Threads, NEW r \in Request, v4' = [v4 EXCEPT ![t] = r],
             r.does \in {"setup", "mail"} => r.secret # 0
      PROVE  /\ v4' \in [Threads -> Request]
             /\ \A u \in Threads : v4'[u].does \in {"setup", "mail"} => v4'[u].secret # 0
  BY <1>9
<1>2. ASSUME NEW t \in Threads, NEW forced \in BOOLEAN, Factor!Setup(t, forced) PROVE Factor!TypeOK'
  <2>2. v3' \in 0..MaxSecrets
    BY <1>2 DEF Factor!Setup
  <2>3. CASE v1 # 0 /\ v4' = [v4 EXCEPT ![t] = [Factor!Idle EXCEPT !.does = "mail", !.secret = v1]]
    <3>1. [Factor!Idle EXCEPT !.does = "mail", !.secret = v1] \in Request
      BY DEF Factor!Idle
    <3>2. [Factor!Idle EXCEPT !.does = "mail", !.secret = v1].secret # 0
      BY <2>3 DEF Factor!Idle
    <3> QED
      BY <1>2, <1>9, <2>2, <2>3, <3>1, <3>2 DEF Factor!Setup
  <2>4. CASE v3' = v3 + 1 /\ Factor!Read(t, "setup", v3')
    BY <1>1, <1>2, <2>2, <2>4 DEF Factor!Setup
  <2> QED
    BY <1>2, <2>3, <2>4 DEF Factor!Setup
<1>3. ASSUME NEW t \in Threads, Factor!CommitSecret(t) PROVE Factor!TypeOK'
  <2>1. [v4[t] EXCEPT !.does = "mail"] \in Request /\ [v4[t] EXCEPT !.does = "mail"].secret # 0
    BY <1>3 DEF Factor!CommitSecret
  <2>2. v4' = [v4 EXCEPT ![t] = [v4[t] EXCEPT !.does = "mail"]]
    BY <1>3 DEF Factor!CommitSecret
  <2> QED
    BY <1>3, <1>9, <2>1, <2>2 DEF Factor!CommitSecret
<1>4. ASSUME NEW t \in Threads, NEW sent \in BOOLEAN, Factor!Mail(t, sent) PROVE Factor!TypeOK'
  <2>1. v4[t].secret \in Factor!Secrets
    BY <1>4 DEF Factor!Mail, Factor!Secrets
  <2> QED
    BY <1>0, <1>4, <1>9, <2>1 DEF Factor!Mail
<1>5. ASSUME NEW t \in Threads, NEW s \in Factor!Secrets, Factor!Verify(t, s) PROVE Factor!TypeOK'
  <2>1. s \in 0..MaxSecrets /\ s # 0
    BY DEF Factor!Secrets
  <2>2. v6' \subseteq Factor!Secrets
    BY <1>5 DEF Factor!Verify
  <2>3. CASE Factor!Read(t, "enable", s)
    BY <1>1, <1>5, <2>1, <2>2, <2>3 DEF Factor!Verify
  <2>4. CASE UNCHANGED v4
    BY <1>5, <2>2, <2>4 DEF Factor!Verify
  <2> QED
    BY <1>5, <2>3, <2>4 DEF Factor!Verify
<1>6. ASSUME NEW t \in Threads, Factor!Enable(t) PROVE Factor!TypeOK'
  BY <1>0, <1>6, <1>9 DEF Factor!Enable
<1>7. ASSUME NEW t \in Threads, Factor!Dies(t) PROVE Factor!TypeOK'
  BY <1>0, <1>7, <1>9 DEF Factor!Dies
<1>8. ASSUME NEW s \in 0..MaxSecrets, Factor!Login(s) PROVE Factor!TypeOK'
  BY <1>8 DEF Factor!Login
<1> QED
  BY <1>2, <1>3, <1>4, <1>5, <1>6, <1>7, <1>8 DEF Factor!Next

\* Who reads meets everybody who is about to commit.
LEMMA FactorRead ==
  ASSUME Factor!TypeOK, NEW t \in Threads, NEW does \in {"setup", "enable"}, NEW s,
         v4[t] = Factor!Idle, Factor!Read(t, does, s)
  PROVE  /\ Factor!Busies' = Factor!Busies \union {t} /\ t \notin Factor!Busies
         /\ v4'[t].does = does /\ v4'[t].secret = s /\ v4'[t].was = v2
         /\ v4'[t].met \/ Factor!Busies = {}
         /\ \A u \in Threads \ {t} :
              /\ v4'[u].does = v4[u].does /\ v4'[u].secret = v4[u].secret /\ v4'[u].was = v4[u].was
              /\ u \in Factor!Busies => v4'[u].met
<1>1. \A u \in Threads : /\ [v4[u] EXCEPT !.met = TRUE].does = v4[u].does
                         /\ [v4[u] EXCEPT !.met = TRUE].secret = v4[u].secret
                         /\ [v4[u] EXCEPT !.met = TRUE].was = v4[u].was
                         /\ [v4[u] EXCEPT !.met = TRUE].met
  BY DEF Factor!TypeOK
<1>2. v4'[t] = [does |-> does, secret |-> s, was |-> v2, met |-> Factor!Busy(t)]
  BY DEF Factor!Read
<1>3. /\ v4'[t].does = does /\ v4'[t].secret = s /\ v4'[t].was = v2
      /\ v4'[t].met \/ \A u \in Threads \ {t} : v4[u].does \notin {"setup", "enable"}
  BY <1>2 DEF Factor!Busy
<1>4. \A u \in Threads \ {t} :
        v4'[u] = IF v4[u].does \in {"setup", "enable"} THEN [v4[u] EXCEPT !.met = TRUE] ELSE v4[u]
  BY DEF Factor!Read
<1>5. \A u \in Threads \ {t} :
        /\ v4'[u].does = v4[u].does /\ v4'[u].secret = v4[u].secret /\ v4'[u].was = v4[u].was
        /\ v4[u].does \in {"setup", "enable"} => v4'[u].met
  BY <1>1, <1>4
<1>6. v4[t].does = "nothing"
  BY DEF Factor!Idle
<1> QED
  BY <1>3, <1>5, <1>6 DEF Factor!Busies

\* A step in which t comes to an end, or asks for nothing that is committed.
LEMMA FactorQuiet ==
  ASSUME Factor!TypeOK, Factor!Fresh, Factor!Alone, Factor!ConfirmedIsEnabled, Factor!EnabledMeansConfirmed,
         NEW t \in Threads, NEW r, v4' = [v4 EXCEPT ![t] = r], r.does \in {"nothing", "mail"},
         UNCHANGED <<v1, v2, v3, v6, v7>>, v8' = (v8 \/ v4[t].does = "enable")
  PROVE  Factor!Fresh' /\ Factor!Alone' /\ Factor!ConfirmedIsEnabled' /\ Factor!EnabledMeansConfirmed'
<1>1. \A u \in Threads : v4'[u] = IF u = t THEN r ELSE v4[u]
  BY DEF Factor!TypeOK
<1>2. Factor!Busies' = Factor!Busies \ {t}
  BY <1>1 DEF Factor!Busies
<1>3. Factor!Fresh'
  BY <1>1 DEF Factor!Fresh
<1>4. Factor!Alone'
  BY <1>1, <1>2 DEF Factor!Alone
<1>5. Factor!ConfirmedIsEnabled'
  BY <1>1 DEF Factor!ConfirmedIsEnabled
<1> QED
  BY <1>3, <1>4, <1>5 DEF Factor!EnabledMeansConfirmed

LEMMA FactorKeeps ==
  ASSUME Factor!Inv, Factor!Next
  PROVE  Factor!Inv'
<1> DEFINE Goal == Factor!Fresh' /\ Factor!Alone' /\ Factor!ConfirmedIsEnabled' /\ Factor!EnabledMeansConfirmed'
<1>0. /\ Factor!TypeOK /\ Factor!Fresh /\ Factor!Alone /\ Factor!ConfirmedIsEnabled /\ Factor!EnabledMeansConfirmed
      /\ v3 \in Nat /\ v1 \in Nat /\ Factor!TypeOK'
  BY FactorType DEF Factor!Inv, Factor!TypeOK
<1>1. ASSUME NEW t \in Threads, NEW forced \in BOOLEAN, Factor!Setup(t, forced) PROVE Goal
  <2>1. CASE v4' = [v4 EXCEPT ![t] = [Factor!Idle EXCEPT !.does = "mail", !.secret = v1]] /\ UNCHANGED v3
    <3>1. [Factor!Idle EXCEPT !.does = "mail", !.secret = v1].does = "mail" /\ v4[t].does = "nothing"
      BY <1>1 DEF Factor!Idle, Factor!Setup
    <3>2. UNCHANGED <<v1, v2, v3, v6, v7>> /\ v8' = (v8 \/ v4[t].does = "enable")
      BY <1>0, <1>1, <2>1, <3>1 DEF Factor!Setup, Factor!TypeOK
    <3> QED
      BY <1>0, <2>1, <3>1, <3>2, FactorQuiet
  <2>2. CASE v3' = v3 + 1 /\ Factor!Read(t, "setup", v3')
    <3>1. v4[t] = Factor!Idle /\ UNCHANGED <<v1, v2, v6, v7, v8>>
      BY <1>1 DEF Factor!Setup
    <3>5. /\ Factor!Busies' = Factor!Busies \union {t} /\ t \notin Factor!Busies
          /\ v4'[t].does = "setup" /\ v4'[t].secret = v3 + 1 /\ v4'[t].was = v2
          /\ v4'[t].met \/ Factor!Busies = {}
          /\ \A u \in Threads \ {t} :
               /\ v4'[u].does = v4[u].does /\ v4'[u].secret = v4[u].secret /\ v4'[u].was = v4[u].was
               /\ u \in Factor!Busies => v4'[u].met
      BY <1>0, <2>2, <3>1, FactorRead
    <3>2. Factor!Fresh'
      <4>1. \A u \in Threads : v4[u].does = "setup" => v4[u].secret \in Nat /\ v4[u].secret <= v3
        BY <1>0 DEF Factor!Fresh, Factor!TypeOK
      <4>2. \A x \in v6 : x \in Nat /\ x <= v3
        BY <1>0 DEF Factor!Fresh, Factor!TypeOK, Factor!Secrets
      <4>3. v1 <= v3
        BY <1>0 DEF Factor!Fresh
      <4>4. v1' <= v3' /\ \A x \in v6' : x <= v3'
        BY <1>0, <2>2, <3>1, <4>2, <4>3
      <4>5. ASSUME NEW u \in Threads, v4'[u].does = "setup"
            PROVE  /\ v4'[u].secret <= v3' /\ v4'[u].secret # v1' /\ v4'[u].secret \notin v6'
                   /\ \A x \in Threads \ {u} : v4'[x].does = "setup" => v4'[x].secret # v4'[u].secret
        BY <1>0, <2>2, <3>1, <3>5, <4>1, <4>2, <4>3, <4>5 DEF Factor!Fresh
      <4> QED
        BY <4>4, <4>5 DEF Factor!Fresh
    <3>3. Factor!Alone'
      <4> SUFFICES ASSUME NEW u \in Factor!Busies', ~v4'[u].met
                   PROVE  /\ \A x \in Factor!Busies' : x = u
                          /\ v4'[u].was = v2'
                          /\ v4'[u].does = "enable" => v4'[u].secret = v1' /\ v1' \in v6'
        BY DEF Factor!Alone
      <4>1. u = t /\ Factor!Busies = {}
        BY <3>5 DEF Factor!Busies
      <4> QED
        BY <3>1, <3>5, <4>1
    <3>4. Factor!ConfirmedIsEnabled'
      BY <1>0, <3>1, <3>5 DEF Factor!ConfirmedIsEnabled, Factor!Idle
    <3> QED
      BY <1>0, <3>1, <3>2, <3>3, <3>4 DEF Factor!EnabledMeansConfirmed
  <2> QED
    BY <1>1, <2>1, <2>2 DEF Factor!Setup
<1>2. ASSUME NEW t \in Threads, Factor!CommitSecret(t) PROVE Goal
  <2> DEFINE r == [v4[t] EXCEPT !.does = "mail"]
  <2>1. /\ \A u \in Threads : v4'[u] = IF u = t THEN r ELSE v4[u]
        /\ r.does = "mail" /\ t \in Factor!Busies /\ v4[t].does = "setup"
        /\ v1' = v4[t].secret /\ v2' = (v2 /\ ~v4[t].was) /\ v8' = v4[t].met /\ UNCHANGED <<v3, v6, v7>>
    BY <1>0, <1>2 DEF Factor!CommitSecret, Factor!TypeOK, Factor!Busies
  <2> HIDE DEF r
  <2>2. Factor!Busies' = Factor!Busies \ {t}
    BY <2>1 DEF Factor!Busies
  <2>3. Factor!Fresh'
    BY <1>0, <2>1 DEF Factor!Fresh
  <2>4. Factor!Alone'
    <3>1. \A u \in Factor!Busies' : u # t /\ u \in Factor!Busies /\ v4'[u] = v4[u]
      BY <2>1, <2>2 DEF Factor!Busies
    <3>2. \A u \in Factor!Busies' : v4'[u].met
      BY <1>0, <2>1, <3>1 DEF Factor!Alone
    <3> QED
      BY <3>2 DEF Factor!Alone
  <2>5. v1' \notin v6'
    BY <1>0, <2>1 DEF Factor!Fresh
  <2>6. v2' => v8'
    BY <1>0, <2>1 DEF Factor!Alone
  <2> QED
    BY <1>0, <2>1, <2>3, <2>4, <2>5, <2>6 DEF Factor!ConfirmedIsEnabled, Factor!EnabledMeansConfirmed
<1>3. ASSUME NEW t \in Threads, NEW sent \in BOOLEAN, Factor!Mail(t, sent) PROVE Goal
  <2>1. Factor!Idle.does = "nothing" /\ v8' = (v8 \/ v4[t].does = "enable")
    BY <1>0, <1>3 DEF Factor!Idle, Factor!Mail, Factor!TypeOK
  <2> QED
    BY <1>0, <1>3, <2>1, FactorQuiet DEF Factor!Mail
<1>4. ASSUME NEW t \in Threads, NEW s \in Factor!Secrets, Factor!Verify(t, s) PROVE Goal
  <2>1. CASE s = v1
    <3>1. v4[t] = Factor!Idle /\ Factor!Read(t, "enable", v1) /\ v6' = v6 \union {v1} /\ UNCHANGED <<v1, v2, v3, v7, v8>>
      BY <1>4, <2>1 DEF Factor!Verify
    <3>5. /\ Factor!Busies' = Factor!Busies \union {t} /\ t \notin Factor!Busies
          /\ v4'[t].does = "enable" /\ v4'[t].secret = v1 /\ v4'[t].was = v2
          /\ v4'[t].met \/ Factor!Busies = {}
          /\ \A u \in Threads \ {t} :
               /\ v4'[u].does = v4[u].does /\ v4'[u].secret = v4[u].secret /\ v4'[u].was = v4[u].was
               /\ u \in Factor!Busies => v4'[u].met
      BY <1>0, <3>1, FactorRead
    <3>2. Factor!Fresh'
      BY <1>0, <3>1, <3>5 DEF Factor!Fresh
    <3>3. Factor!Alone'
      <4> SUFFICES ASSUME NEW u \in Factor!Busies', ~v4'[u].met
                   PROVE  /\ \A x \in Factor!Busies' : x = u
                          /\ v4'[u].was = v2'
                          /\ v4'[u].does = "enable" => v4'[u].secret = v1' /\ v1' \in v6'
        BY DEF Factor!Alone
      <4>1. u = t /\ Factor!Busies = {}
        BY <3>5 DEF Factor!Busies
      <4> QED
        BY <3>1, <3>5, <4>1
    <3>4. Factor!ConfirmedIsEnabled'
      BY <1>0, <3>1, <3>5 DEF Factor!ConfirmedIsEnabled
    <3> QED
      BY <1>0, <3>1, <3>2, <3>3, <3>4 DEF Factor!EnabledMeansConfirmed
  <2>2. CASE s # v1
    BY <1>0, <1>4, <2>2 DEF Factor!Verify, Factor!Fresh, Factor!Alone, Factor!Busies, Factor!ConfirmedIsEnabled, Factor!EnabledMeansConfirmed
  <2> QED
    BY <2>1, <2>2
<1>5. ASSUME NEW t \in Threads, Factor!Enable(t) PROVE Goal
  <2>1. /\ \A u \in Threads : v4'[u] = IF u = t THEN Factor!Idle ELSE v4[u]
        /\ Factor!Idle.does = "nothing" /\ t \in Factor!Busies /\ v4[t].does = "enable"
        /\ v2' = (v2 \/ ~v4[t].was) /\ v8' = (v8 \/ v4[t].met) /\ UNCHANGED <<v1, v3, v6, v7>>
    BY <1>0, <1>5 DEF Factor!Enable, Factor!TypeOK, Factor!Busies, Factor!Idle
  <2>2. Factor!Busies' = Factor!Busies \ {t}
    BY <2>1 DEF Factor!Busies
  <2>3. Factor!Fresh'
    BY <1>0, <2>1 DEF Factor!Fresh
  <2>4. Factor!Alone'
    <3>1. \A u \in Factor!Busies' : u # t /\ u \in Factor!Busies /\ v4'[u] = v4[u]
      BY <2>1, <2>2 DEF Factor!Busies
    <3>2. \A u \in Factor!Busies' : v4'[u].met
      BY <1>0, <2>1, <3>1 DEF Factor!Alone
    <3> QED
      BY <3>2 DEF Factor!Alone
  <2>5. v8' \/ (v4[t].was = v2 /\ v1 \in v6 /\ v2' = TRUE)
    BY <1>0, <2>1 DEF Factor!Alone, Factor!TypeOK
  <2> QED
    BY <1>0, <2>1, <2>3, <2>4, <2>5 DEF Factor!ConfirmedIsEnabled, Factor!EnabledMeansConfirmed
<1>6. ASSUME NEW t \in Threads, Factor!Dies(t) PROVE Goal
  <2>1. Factor!Idle.does = "nothing"
    BY DEF Factor!Idle
  <2> QED
    BY <1>0, <1>6, <2>1, FactorQuiet DEF Factor!Dies
<1>7. ASSUME NEW s \in 0..MaxSecrets, Factor!Login(s) PROVE Goal
  <2>1. UNCHANGED <<v1, v2, v3, v4, v6, v8>>
    BY <1>7 DEF Factor!Login
  <2>2. TRUE \notin v7'
    <3>1. v7' = v7 \union {~v2 /\ v1 \in v6 /\ ~v8 /\ \A t \in Threads : v4[t] = Factor!Idle}
      BY <1>7 DEF Factor!Login
    <3>2. ~(~v2 /\ v1 \in v6 /\ ~v8 /\ \A t \in Threads : v4[t] = Factor!Idle)
      BY <1>0 DEF Factor!ConfirmedIsEnabled, Factor!Idle
    <3> QED
      BY <1>0, <3>1, <3>2 DEF Factor!EnabledMeansConfirmed
  <2> QED
    BY <1>0, <2>1, <2>2 DEF Factor!Fresh, Factor!Alone, Factor!Busies, Factor!ConfirmedIsEnabled, Factor!EnabledMeansConfirmed
<1>8. Goal
  <2> HIDE DEF Goal
  <2> QED
    BY <1>1, <1>2, <1>3, <1>4, <1>5, <1>6, <1>7 DEF Factor!Next
<1> QED
  BY <1>0, <1>8 DEF Factor!Inv

\* The login asks for codes exactly of a secret the user has proved to hold, unless requests about it
\* overlap, for any number of requests and secrets.
THEOREM EnabledMeansConfirmedCorrect == OfficeSpec => []EnabledMeansConfirmed
<1> DEFINE I == focus = "factor" => Factor!Inv
<1>1. OfficeInit => I
  <2> SUFFICES ASSUME Factor!Init PROVE Factor!Inv
    BY DEF OfficeInit
  <2>1. \A t \in Threads : v4[t] = Factor!Idle
    BY DEF Factor!Init
  <2>2. Factor!TypeOK
    <3>1. v4 \in [Threads -> [does : {"nothing", "setup", "mail", "enable"}, secret : 0..MaxSecrets, was : BOOLEAN, met : BOOLEAN]]
      BY SecretsAssumption DEF Factor!Init, Factor!Idle
    <3>2. \A t \in Threads : v4[t].does = "nothing"
      BY <2>1 DEF Factor!Idle
    <3>3. 0 \in 0..MaxSecrets
      BY SecretsAssumption
    <3>4. v1 = 0 /\ v2 = FALSE /\ v3 = 0 /\ v8 \in BOOLEAN /\ v5 = {} /\ v6 = {} /\ v7 = {}
      BY DEF Factor!Init
    <3> QED
      BY <3>1, <3>2, <3>3, <3>4 DEF Factor!TypeOK
  <2>3. Factor!Fresh /\ Factor!Alone
    BY <2>1 DEF Factor!Init, Factor!Fresh, Factor!Alone, Factor!Busies, Factor!Idle
  <2> QED
    BY <2>2, <2>3 DEF Factor!Init, Factor!Inv, Factor!ConfirmedIsEnabled, Factor!EnabledMeansConfirmed
<1>2. I /\ [OfficeNext]_OfficeVars => I'
  <2> SUFFICES ASSUME Factor!Inv, [OfficeNext]_OfficeVars, focus = "factor" PROVE Factor!Inv'
    BY Focused
  <2>1. CASE Factor!Next
    BY <2>1, FactorKeeps
  <2>2. CASE UNCHANGED slots
    BY <2>2 DEF slots, Factor!Inv, Factor!TypeOK, Factor!Fresh, Factor!Alone, Factor!Busies, Factor!ConfirmedIsEnabled,
       Factor!EnabledMeansConfirmed
  <2> QED
    BY <2>1, <2>2, Focused
<1>3. I => EnabledMeansConfirmed
  BY DEF EnabledMeansConfirmed, Factor!Inv
<1> QED
  BY <1>1, <1>2, <1>3, PTL DEF OfficeSpec

---------------------------------------------------------------------------
(* Escalation *)

\* What a pass p may make of itself: an entry of its list in hand, or nothing.
LEMMA SlaPass ==
  ASSUME Sla!TypeOK, NEW p \in Passes, NEW r, v3' = [v3 EXCEPT ![p] = r]
  PROVE  /\ \A q \in Passes : v3'[q] = IF q = p THEN r ELSE v3[q]
         /\ \A w \in Tickets \X Sla!Breaches :
              Sla!Held(w)' = IF w \in r.at THEN Sla!Held(w) \union {p} ELSE Sla!Held(w) \ {p}
<1>1. \A q \in Passes : v3'[q] = IF q = p THEN r ELSE v3[q]
  BY DEF Sla!TypeOK
<1> QED
  BY <1>1 DEF Sla!Held

LEMMA SlaType ==
  ASSUME Sla!TypeOK, Sla!Next
  PROVE  Sla!TypeOK'
<1> USE DEF Sla!TypeOK
<1> DEFINE Pass == [todo : SUBSET (Tickets \X Sla!Breaches), at : SUBSET (Tickets \X Sla!Breaches), mailed : BOOLEAN]
<1>0. Sla!Resting \in Pass
  BY DEF Sla!Resting
<1>1. ASSUME NEW i \in Tickets, Sla!Ages(i) \/ Sla!Delete(i) \/ \E s \in Sla!Statuses : Sla!SetStatus(i, s)
      PROVE  Sla!TypeOK'
  <2>1. CASE Sla!Ages(i)
    <3>1. [v1[i] EXCEPT !.age = v1[i].age + 1] \in [status : Sla!Statuses, age : 0..2, live : BOOLEAN]
      BY <2>1 DEF Sla!Ages
    <3> QED
      BY <2>1, <3>1 DEF Sla!Ages
  <2>2. CASE Sla!Delete(i)
    BY <2>2 DEF Sla!Delete
  <2>3. ASSUME NEW s \in Sla!Statuses, Sla!SetStatus(i, s) PROVE Sla!TypeOK'
    BY <2>3 DEF Sla!SetStatus
  <2> QED
    BY <1>1, <2>1, <2>2, <2>3
<1>2. ASSUME NEW p \in Passes, Sla!Start(p) PROVE Sla!TypeOK'
  <2> DEFINE list == {<<i, Sla!BreachOf(v1[i])>> : i \in {k \in Tickets : Sla!Late(v1[k])}}
  <2>1. list \subseteq Tickets \X Sla!Breaches
    BY DEF Sla!BreachOf, Sla!Breaches
  <2> HIDE DEF list
  <2>2. v3' = [v3 EXCEPT ![p] = [v3[p] EXCEPT !.todo = list]]
    BY <1>2 DEF Sla!Start, list
  <2>3. [v3[p] EXCEPT !.todo = list] \in Pass
    BY <2>1
  <2>4. v3' \in [Passes -> Pass]
    BY <2>2, <2>3
  <2> QED
    BY <1>2, <2>4 DEF Sla!Start
<1>3. ASSUME NEW p \in Passes, NEW w \in Tickets \X Sla!Breaches, Sla!Take(p, w) PROVE Sla!TypeOK'
  <2>1. [v3[p] EXCEPT !.todo = v3[p].todo \ {w}, !.at = IF Sla!Known(w[1], w[2]) THEN {} ELSE {w}] \in Pass
    OBVIOUS
  <2>2. v3' = [v3 EXCEPT ![p] = [v3[p] EXCEPT !.todo = v3[p].todo \ {w}, !.at = IF Sla!Known(w[1], w[2]) THEN {} ELSE {w}]]
    BY <1>3 DEF Sla!Take
  <2> QED
    BY <1>3, <2>1, <2>2 DEF Sla!Take
<1>4. ASSUME NEW p \in Passes, NEW w \in Tickets \X Sla!Breaches, Sla!Commit(p, w) PROVE Sla!TypeOK'
  <2>1. [v3[p] EXCEPT !.at = {}, !.mailed = FALSE] \in Pass
    OBVIOUS
  <2>2. v3' \in [Passes -> Pass]
    <3>1. v3' = [v3 EXCEPT ![p] = [v3[p] EXCEPT !.at = {}, !.mailed = FALSE]] \/ v3' = [v3 EXCEPT ![p] = Sla!Resting]
      BY <1>4 DEF Sla!Commit
    <3> QED
      BY <1>0, <2>1, <3>1
  <2>3. v2' \in [Tickets -> SUBSET Sla!Breaches]
    <3>1. v2' = v2 \/ v2' = [v2 EXCEPT ![w[1]] = v2[w[1]] \union {w[2]}]
      BY <1>4 DEF Sla!Commit
    <3>2. w[1] \in Tickets /\ w[2] \in Sla!Breaches
      OBVIOUS
    <3>3. v2[w[1]] \union {w[2]} \in SUBSET Sla!Breaches
      BY <3>2
    <3> QED
      BY <3>1, <3>2, <3>3
  <2> QED
    BY <1>4, <2>2, <2>3 DEF Sla!Commit
<1>5. ASSUME NEW p \in Passes, NEW w \in Tickets \X Sla!Breaches, NEW sent \in BOOLEAN, Sla!Mail(p, w, sent) PROVE Sla!TypeOK'
  <2>1. w[1] \in Tickets /\ w[2] \in Sla!Breaches
    OBVIOUS
  <2>2. v4' \in [Tickets -> [Sla!Breaches -> 0..3]]
    <3> DEFINE n == IF v4[w[1]][w[2]] < 3 THEN v4[w[1]][w[2]] + 1 ELSE v4[w[1]][w[2]]
    <3>1. n \in 0..3
      BY <2>1
    <3>2. v4' = v4 \/ v4' = [v4 EXCEPT ![w[1]] = [v4[w[1]] EXCEPT ![w[2]] = n]]
      BY <1>5 DEF Sla!Mail
    <3> HIDE DEF n
    <3>3. [v4[w[1]] EXCEPT ![w[2]] = n] \in [Sla!Breaches -> 0..3]
      BY <2>1, <3>1
    <3> QED
      BY <2>1, <3>2, <3>3
  <2>3. [v3[p] EXCEPT !.mailed = TRUE] \in Pass
    <3>1. v3[p] \in Pass
      OBVIOUS
    <3> QED
      BY <3>1
  <2>4. v3' \in [Passes -> Pass]
    <3>1. v3' = [v3 EXCEPT ![p] = [v3[p] EXCEPT !.mailed = TRUE]]
      BY <1>5 DEF Sla!Mail
    <3> QED
      BY <2>3, <3>1
  <2> QED
    BY <1>5, <2>2, <2>4 DEF Sla!Mail
<1>6. ASSUME NEW p \in Passes, Sla!Dies(p) PROVE Sla!TypeOK'
  BY <1>0, <1>6 DEF Sla!Dies
<1> QED
  BY <1>1, <1>2, <1>3, <1>4, <1>5, <1>6 DEF Sla!Next

\* What is on a list, in hand or escalated has been in breach, and a pass has one ticket in hand.
LEMMA SlaOne ==
  ASSUME Sla!TypeOK, Sla!OneAtATime, Sla!Next
  PROVE  Sla!OneAtATime'
<1> USE DEF Sla!OneAtATime
<1>0. /\ \A w \in Tickets \X Sla!Breaches : w[1] \in Tickets /\ w[2] \in Sla!Breaches
      /\ \A p \in Passes : v3[p].todo \subseteq Tickets \X Sla!Breaches /\ v3[p].at \subseteq Tickets \X Sla!Breaches
  BY DEF Sla!TypeOK
<1>1. ASSUME NEW i \in Tickets, Sla!Ages(i) \/ Sla!Delete(i) \/ \E s \in Sla!Statuses : Sla!SetStatus(i, s)
      PROVE  Sla!OneAtATime'
  <2>1. UNCHANGED v3 /\ \A k \in Tickets : v2'[k] \subseteq v2[k]
    BY <1>1 DEF Sla!Ages, Sla!Delete, Sla!SetStatus, Sla!TypeOK
  <2>2. \A k \in Tickets : v1[k].age > 0 => v1'[k].age > 0
    <3>1. CASE Sla!Ages(i)
      BY <3>1 DEF Sla!Ages, Sla!TypeOK
    <3>2. CASE Sla!Delete(i)
      BY <3>2 DEF Sla!Delete, Sla!TypeOK
    <3>3. ASSUME NEW s \in Sla!Statuses, Sla!SetStatus(i, s) PROVE \A k \in Tickets : v1[k].age > 0 => v1'[k].age > 0
      BY <3>3 DEF Sla!SetStatus, Sla!TypeOK
    <3> QED
      BY <1>1, <3>1, <3>2, <3>3
  <2> QED
    BY <1>0, <2>1, <2>2
<1>2. ASSUME NEW p \in Passes, Sla!Start(p) PROVE Sla!OneAtATime'
  <2> DEFINE list == {<<i, Sla!BreachOf(v1[i])>> : i \in {k \in Tickets : Sla!Late(v1[k])}}
  <2>1. \A w \in list : v1[w[1]].age > 0
    BY DEF Sla!Late, Sla!TypeOK
  <2>2. v3' = [v3 EXCEPT ![p].todo = list]
    BY <1>2 DEF Sla!Start
  <2> HIDE DEF list
  <2>3. \A q \in Passes : v3'[q].at = v3[q].at /\ (v3'[q].mailed <=> v3[q].mailed) /\ v3'[q].todo = IF q = p THEN list ELSE v3[q].todo
    <3> TAKE q \in Passes
    <3>1. v3'[q] = IF q = p THEN [v3[p] EXCEPT !.todo = list] ELSE v3[q]
      BY <2>2 DEF Sla!TypeOK
    <3>2. CASE q = p
      BY <3>1, <3>2 DEF Sla!TypeOK
    <3>3. CASE q # p
      BY <3>1, <3>3
    <3> QED
      BY <3>2, <3>3
  <2>4. UNCHANGED <<v1, v2>>
    BY <1>2 DEF Sla!Start
  <2> QED
    BY <2>1, <2>3, <2>4
<1>3. ASSUME NEW p \in Passes, NEW w \in Tickets \X Sla!Breaches, Sla!Take(p, w) PROVE Sla!OneAtATime'
  <2>1. \A q \in Passes : /\ v3'[q].todo \subseteq v3[q].todo /\ (v3'[q].mailed <=> v3[q].mailed)
                          /\ v3'[q].at = v3[q].at \/ (q = p /\ v3'[q].at \subseteq {w})
    <3> DEFINE r == [v3[p] EXCEPT !.todo = v3[p].todo \ {w}, !.at = IF Sla!Known(w[1], w[2]) THEN {} ELSE {w}]
    <3>1. \A q \in Passes : v3'[q] = IF q = p THEN r ELSE v3[q]
      BY <1>3 DEF Sla!Take, Sla!TypeOK
    <3>2. r.todo \subseteq v3[p].todo /\ (r.mailed <=> v3[p].mailed) /\ r.at \subseteq {w}
      BY DEF Sla!TypeOK
    <3> HIDE DEF r
    <3> TAKE q \in Passes
    <3>3. CASE q = p
      BY <3>1, <3>2, <3>3
    <3>4. CASE q # p
      <4>1. v3'[q] = v3[q]
        BY <3>1, <3>4
      <4> QED
        BY <4>1
    <3> QED
      BY <3>3, <3>4
  <2>2. v3[p].at = {} /\ w \in v3[p].todo /\ UNCHANGED <<v1, v2>>
    BY <1>3 DEF Sla!Take
  <2>3. \A q \in Passes : v3'[q].todo \union v3'[q].at \subseteq v3[q].todo \union v3[q].at
    BY <2>1, <2>2
  <2> QED
    BY <1>0, <2>1, <2>2, <2>3
<1>4. ASSUME NEW p \in Passes, NEW w \in Tickets \X Sla!Breaches, Sla!Commit(p, w) PROVE Sla!OneAtATime'
  <2>1. \A q \in Passes : /\ v3'[q].todo \subseteq v3[q].todo
                          /\ \/ v3'[q].at = v3[q].at /\ (v3'[q].mailed <=> v3[q].mailed)
                             \/ v3'[q].at = {} /\ ~v3'[q].mailed
    <3>1. \/ \A q \in Passes : v3'[q] = IF q = p THEN [v3[p] EXCEPT !.at = {}, !.mailed = FALSE] ELSE v3[q]
          \/ \A q \in Passes : v3'[q] = IF q = p THEN Sla!Resting ELSE v3[q]
      <4>1. \/ v3' = [v3 EXCEPT ![p] = [v3[p] EXCEPT !.at = {}, !.mailed = FALSE]]
            \/ v3' = [v3 EXCEPT ![p] = Sla!Resting]
        BY <1>4 DEF Sla!Commit, Sla!TypeOK
      <4>2. v3 \in [Passes -> [todo : SUBSET (Tickets \X Sla!Breaches), at : SUBSET (Tickets \X Sla!Breaches), mailed : BOOLEAN]]
        BY DEF Sla!TypeOK
      <4> QED
        BY <4>1, <4>2
    <3>2. CASE \A q \in Passes : v3'[q] = IF q = p THEN [v3[p] EXCEPT !.at = {}, !.mailed = FALSE] ELSE v3[q]
      <4> TAKE q \in Passes
      <4>1. v3[p] \in [todo : SUBSET (Tickets \X Sla!Breaches), at : SUBSET (Tickets \X Sla!Breaches), mailed : BOOLEAN]
        BY DEF Sla!TypeOK
      <4>2. CASE q = p
        BY <3>2, <4>1, <4>2
      <4>3. CASE q # p
        <5>1. v3'[q] = v3[q]
          BY <3>2, <4>3
        <5> QED
          BY <5>1
      <4> QED
        BY <4>2, <4>3
    <3>3. CASE \A q \in Passes : v3'[q] = IF q = p THEN Sla!Resting ELSE v3[q]
      BY <3>3 DEF Sla!TypeOK, Sla!Resting
    <3> QED
      BY <3>1, <3>2, <3>3
  <2>2. w \in v3[p].at /\ UNCHANGED v1
    BY <1>4 DEF Sla!Commit
  <2>3. \A i \in Tickets : v2'[i] = v2[i] \/ i = w[1]
    BY <1>4 DEF Sla!Commit, Sla!TypeOK
  <2> QED
    BY <1>0, <2>1, <2>2, <2>3
<1>5. ASSUME NEW p \in Passes, NEW w \in Tickets \X Sla!Breaches, NEW sent \in BOOLEAN, Sla!Mail(p, w, sent)
      PROVE  Sla!OneAtATime'
  <2>1. \A q \in Passes : v3'[q].todo = v3[q].todo /\ v3'[q].at = v3[q].at /\ (q = p \/ (v3'[q].mailed <=> v3[q].mailed))
    BY <1>5 DEF Sla!Mail, Sla!TypeOK
  <2> QED
    BY <1>5, <2>1 DEF Sla!Mail
<1>6. ASSUME NEW p \in Passes, Sla!Dies(p) PROVE Sla!OneAtATime'
  <2>1. \A q \in Passes : v3'[q] = v3[q] \/ v3'[q] = Sla!Resting
    BY <1>6 DEF Sla!Dies, Sla!TypeOK
  <2> QED
    BY <1>6, <2>1 DEF Sla!Dies, Sla!Resting
<1> QED
  BY <1>1, <1>2, <1>3, <1>4, <1>5, <1>6 DEF Sla!Next

\* Who has a breach in hand is alone, and mails it once.
LEMMA SlaAlone ==
  ASSUME Sla!TypeOK, Sla!OneAtATime, Sla!OneEscalates, Sla!Next
  PROVE  Sla!OneEscalates'
<1> SUFFICES ASSUME NEW i \in Tickets, NEW b \in Sla!Breaches, v1'[i].live, <<i, b>> \notin v5'
             PROVE  /\ \A p, q \in Passes : <<i, b>> \in v3'[p].at /\ <<i, b>> \in v3'[q].at => p = q
                    /\ \A p \in Passes : <<i, b>> \in v3'[p].at => b \notin v2'[i]
                    /\ v4'[i][b] <= 1
                    /\ v4'[i][b] = 1 => b \in v2'[i] \/ \E p \in Passes : <<i, b>> \in v3'[p].at /\ v3'[p].mailed
  BY DEF Sla!OneEscalates, Sla!Held
<1> DEFINE W == <<i, b>>
<1> DEFINE Before == v1[i].live /\ W \notin v5
<1>a. Before => /\ \A p, q \in Passes : W \in v3[p].at /\ W \in v3[q].at => p = q
                /\ \A p \in Passes : W \in v3[p].at => b \notin v2[i]
                /\ v4[i][b] \in 0..3 /\ v4[i][b] <= 1
                /\ v4[i][b] = 1 => b \in v2[i] \/ \E p \in Passes : W \in v3[p].at /\ v3[p].mailed
  <2>1. v4[i][b] \in 0..3
    BY DEF Sla!TypeOK
  <2>2. i \in Tickets /\ b \in Sla!Breaches
    OBVIOUS
  <2> HIDE DEF Sla!TypeOK
  <2> QED
    BY <2>1, <2>2 DEF Sla!OneEscalates, Sla!Held
<1>b. \A w \in Tickets \X Sla!Breaches : w = <<w[1], w[2]>> /\ w[1] \in Tickets /\ w[2] \in Sla!Breaches
  OBVIOUS
<1>c. \A p \in Passes : \A v, w \in v3[p].at : v = w
  BY DEF Sla!OneAtATime
<1> DEFINE Goal == /\ \A p, q \in Passes : W \in v3'[p].at /\ W \in v3'[q].at => p = q
                   /\ \A p \in Passes : W \in v3'[p].at => b \notin v2'[i]
                   /\ v4'[i][b] <= 1
                   /\ v4'[i][b] = 1 => b \in v2'[i] \/ \E p \in Passes : W \in v3'[p].at /\ v3'[p].mailed
<1> HIDE DEF W
<1>1. ASSUME NEW k \in Tickets, Sla!Ages(k) \/ Sla!Delete(k) \/ \E s \in Sla!Statuses : Sla!SetStatus(k, s)
      PROVE  Goal
  <2>1. Before /\ UNCHANGED <<v3, v4>> /\ v2'[i] = v2[i]
    <3>1. CASE Sla!Ages(k)
      BY <3>1 DEF Sla!Ages, Sla!TypeOK, W
    <3>2. CASE Sla!Delete(k)
      BY <3>2 DEF Sla!Delete, Sla!TypeOK, W
    <3>3. ASSUME NEW s \in Sla!Statuses, Sla!SetStatus(k, s) PROVE Before /\ UNCHANGED <<v3, v4>> /\ v2'[i] = v2[i]
      BY <3>3 DEF Sla!SetStatus, Sla!TypeOK, W
    <3> QED
      BY <1>1, <3>1, <3>2, <3>3
  <2> QED
    BY <1>a, <2>1
<1>2. ASSUME NEW p \in Passes, Sla!Start(p) PROVE Goal
  <2>1. Before /\ UNCHANGED <<v2, v4>>
    BY <1>2 DEF Sla!Start, W
  <2>2. \A q \in Passes : v3'[q].at = v3[q].at /\ (v3'[q].mailed <=> v3[q].mailed)
    BY <1>2 DEF Sla!Start, Sla!TypeOK
  <2> QED
    BY <1>a, <2>1, <2>2
<1>3. ASSUME NEW p \in Passes, NEW w \in Tickets \X Sla!Breaches, Sla!Take(p, w) PROVE Goal
  <2>1. Before /\ UNCHANGED <<v2, v4>> /\ v3[p].at = {}
    BY <1>3 DEF Sla!Take, W
  <2>2. \A q \in Passes : (v3'[q].mailed <=> v3[q].mailed) /\ (q # p => v3'[q].at = v3[q].at)
    BY <1>3 DEF Sla!Take, Sla!TypeOK
  <2>3. v3'[p].at = IF Sla!Known(w[1], w[2]) THEN {} ELSE {w}
    BY <1>3 DEF Sla!Take, Sla!TypeOK
  <2>4. CASE W \in v3'[p].at
    <3>1. w = W /\ ~Sla!Known(w[1], w[2])
      BY <2>3, <2>4
    <3>2. b \notin v2[i]
      BY <1>b, <3>1 DEF W, Sla!Known
    <3>3. \A q \in Passes : W \notin v3[q].at
      BY <1>3, <3>1 DEF Sla!Take, W
    <3>4. \A q \in Passes : W \in v3'[q].at => q = p
      BY <2>2, <3>3
    <3> QED
      BY <1>a, <2>1, <3>2, <3>3, <3>4
  <2>5. CASE W \notin v3'[p].at
    <3>1. \A q \in Passes : W \in v3'[q].at <=> W \in v3[q].at
      BY <2>1, <2>2, <2>5
    <3> QED
      BY <1>a, <2>1, <2>2, <3>1
  <2> QED
    BY <2>4, <2>5
<1>4. ASSUME NEW p \in Passes, NEW w \in Tickets \X Sla!Breaches, Sla!Commit(p, w) PROVE Goal
  <2>1. Before /\ UNCHANGED v4 /\ w \in v3[p].at
    BY <1>4 DEF Sla!Commit, W
  <2>2. \A q \in Passes : q # p => v3'[q] = v3[q]
    BY <1>4 DEF Sla!Commit, Sla!TypeOK
  <2>3. v3'[p].at = {}
    BY <1>4 DEF Sla!Commit, Sla!TypeOK, Sla!Resting
  <2>4. CASE w = W
    <3>1. w[1] = i /\ w[2] = b
      BY <2>4 DEF W
    <3>2. b \in v2'[i]
      BY <1>4, <1>a, <2>1, <2>4, <3>1 DEF Sla!Commit, Sla!TypeOK
    <3>3. \A q \in Passes : W \notin v3'[q].at
      BY <1>a, <2>1, <2>2, <2>3, <2>4
    <3> QED
      BY <1>a, <2>1, <3>2, <3>3
  <2>5. CASE w # W
    <3>1. W \notin v3[p].at
      BY <1>c, <2>1, <2>5
    <3>2. b \in v2'[i] <=> b \in v2[i]
      <4>1. w[1] # i \/ w[2] # b
        BY <1>b, <2>5 DEF W
      <4>2. v2' = v2 \/ v2' = [v2 EXCEPT ![w[1]] = v2[w[1]] \union {w[2]}]
        BY <1>4 DEF Sla!Commit
      <4>3. v2 \in [Tickets -> SUBSET Sla!Breaches]
        BY DEF Sla!TypeOK
      <4>4. CASE w[1] = i
        <5>1. v2'[i] = v2[i] \/ v2'[i] = v2[i] \union {w[2]}
          BY <4>2, <4>3, <4>4
        <5> QED
          BY <4>1, <4>4, <5>1
      <4>5. CASE w[1] # i
        BY <4>2, <4>3, <4>5
      <4> QED
        BY <4>4, <4>5
    <3>3. \A q \in Passes : W \in v3'[q].at => q # p /\ v3'[q] = v3[q]
      BY <2>2, <2>3
    <3>4. \A q \in Passes : W \in v3[q].at => v3'[q] = v3[q]
      BY <2>2, <3>1
    <3> QED
      BY <1>a, <2>1, <3>2, <3>3, <3>4
  <2> QED
    BY <2>4, <2>5
<1>5. ASSUME NEW p \in Passes, NEW w \in Tickets \X Sla!Breaches, NEW sent \in BOOLEAN, Sla!Mail(p, w, sent) PROVE Goal
  <2>1. Before /\ UNCHANGED v2 /\ w \in v3[p].at /\ ~v3[p].mailed
    BY <1>5 DEF Sla!Mail, W
  <2>2. v3' = [v3 EXCEPT ![p] = [v3[p] EXCEPT !.mailed = TRUE]]
    BY <1>5 DEF Sla!Mail
  <2>3. /\ v3'[p].at = v3[p].at /\ v3'[p].mailed
        /\ \A q \in Passes : q # p => v3'[q] = v3[q]
    BY <2>2 DEF Sla!TypeOK
  <2>4. v4'[i][b] = v4[i][b] \/ (w = W /\ v4'[i][b] = v4[i][b] + 1)
    <3>1. CASE v4' = v4
      BY <3>1
    <3>2. CASE v4' = [v4 EXCEPT ![w[1]] = [v4[w[1]] EXCEPT ![w[2]] = IF v4[w[1]][w[2]] < 3 THEN v4[w[1]][w[2]] + 1 ELSE v4[w[1]][w[2]]]]
      <4>1. v4[i] \in [Sla!Breaches -> 0..3]
        BY DEF Sla!TypeOK
      <4>2. CASE w = W
        <5>1. w[1] = i /\ w[2] = b
          BY <4>2 DEF W
        <5> QED
          BY <3>2, <4>1, <4>2, <5>1 DEF Sla!TypeOK
      <4>3. CASE w # W
        <5>1. w[1] # i \/ w[2] # b
          BY <1>b, <4>3 DEF W
        <5> QED
          BY <1>b, <3>2, <4>1, <5>1 DEF Sla!TypeOK
      <4> QED
        BY <4>2, <4>3
    <3> QED
      BY <1>5, <3>1, <3>2 DEF Sla!Mail
  <2>5. CASE w = W
    <3>1. v4[i][b] = 0 /\ b \notin v2[i]
      BY <1>a, <2>1, <2>5
    <3>2. v4'[i][b] <= 1
      BY <2>4, <3>1
    <3>3. \A q \in Passes : W \in v3'[q].at <=> W \in v3[q].at
      BY <2>3
    <3> QED
      BY <1>a, <2>1, <2>3, <2>5, <3>1, <3>2, <3>3
  <2>6. CASE w # W
    <3>1. W \notin v3[p].at
      BY <1>c, <2>1, <2>6
    <3>2. \A q \in Passes : W \in v3'[q].at => W \in v3[q].at
      BY <2>3
    <3>3. \A q \in Passes : W \in v3[q].at => v3'[q] = v3[q]
      BY <2>3, <3>1
    <3> QED
      BY <1>a, <2>1, <2>4, <2>6, <3>2, <3>3
  <2> QED
    BY <2>5, <2>6
<1>6. ASSUME NEW p \in Passes, Sla!Dies(p) PROVE Goal
  <2>1. Before /\ UNCHANGED <<v2, v4>> /\ (W \in v3[p].at => ~v3[p].mailed)
    BY <1>6 DEF Sla!Dies, W
  <2>2. \A q \in Passes : q # p => v3'[q] = v3[q]
    BY <1>6 DEF Sla!Dies, Sla!TypeOK
  <2>3. v3'[p].at = {}
    BY <1>6 DEF Sla!Dies, Sla!TypeOK, Sla!Resting
  <2>4. \A q \in Passes : W \in v3'[q].at => v3'[q] = v3[q]
    BY <2>2, <2>3
  <2>5. \A q \in Passes : W \in v3[q].at /\ v3[q].mailed => v3'[q] = v3[q]
    BY <2>1, <2>2
  <2> QED
    BY <1>a, <2>1, <2>4, <2>5
<1>7. Goal
  <2> HIDE DEF Goal
  <2> QED
    BY <1>1, <1>2, <1>3, <1>4, <1>5, <1>6 DEF Sla!Next
<1> QED
  BY <1>7 DEF W

\* A breach of a ticket that is still there is mailed once unless two passes had it in hand or one died
\* with it, and only what has been in breach is escalated, for any number of tickets and passes.
THEOREM EscalatedOnceCorrect == OfficeSpec => []EscalatedOnce
<1> DEFINE I == focus = "sla" => Sla!Inv
<1>1. OfficeInit => I
  <2> SUFFICES ASSUME Sla!Init PROVE Sla!Inv
    BY DEF OfficeInit
  <2>1. /\ \A i \in Tickets : v1[i].live /\ v2[i] = {} /\ \A b \in Sla!Breaches : v4[i][b] = 0
        /\ \A p \in Passes : v3[p] = Sla!Resting
    BY DEF Sla!Init
  <2>2. Sla!TypeOK
    <3>1. v1 \in [Tickets -> [status : Sla!Statuses, age : 0..2, live : BOOLEAN]]
      BY DEF Sla!Init, Sla!Statuses
    <3>2. v3 \in [Passes -> [todo : SUBSET (Tickets \X Sla!Breaches), at : SUBSET (Tickets \X Sla!Breaches), mailed : BOOLEAN]]
      BY DEF Sla!Init, Sla!Resting
    <3>3. v2 \in [Tickets -> SUBSET Sla!Breaches] /\ v4 \in [Tickets -> [Sla!Breaches -> 0..3]] /\ v5 \subseteq Tickets \X Sla!Breaches
      BY DEF Sla!Init
    <3> QED
      BY <3>1, <3>2, <3>3 DEF Sla!TypeOK
  <2>3. Sla!OneAtATime
    BY <2>1 DEF Sla!OneAtATime, Sla!Resting
  <2>4. Sla!OneEscalates
    BY <2>1 DEF Sla!OneEscalates, Sla!Held, Sla!Resting
  <2> QED
    BY <2>2, <2>3, <2>4 DEF Sla!Inv
<1>2. I /\ [OfficeNext]_OfficeVars => I'
  <2> SUFFICES ASSUME Sla!Inv, [OfficeNext]_OfficeVars, focus = "sla" PROVE Sla!Inv'
    BY Focused
  <2>1. CASE Sla!Next
    BY <2>1, SlaType, SlaOne, SlaAlone DEF Sla!Inv
  <2>2. CASE UNCHANGED slots
    <3>1. UNCHANGED <<v1, v2, v3, v4, v5>>
      BY <2>2 DEF slots
    <3>2. Sla!TypeOK'
      BY <3>1 DEF Sla!Inv, Sla!TypeOK
    <3>3. Sla!OneAtATime' /\ Sla!OneEscalates'
      BY <3>1 DEF Sla!Inv, Sla!OneAtATime, Sla!OneEscalates, Sla!Held
    <3> QED
      BY <3>2, <3>3 DEF Sla!Inv
  <2> QED
    BY <2>1, <2>2, Focused
<1>3. I => EscalatedOnce
  <2> SUFFICES ASSUME Sla!Inv PROVE Sla!EscalatedOnce
    BY DEF EscalatedOnce
  <2> QED
    <3>1. \A i \in Tickets, b \in Sla!Breaches : v4[i][b] \in 0..3
      <4>1. v4 \in [Tickets -> [Sla!Breaches -> 0..3]]
        BY DEF Sla!Inv, Sla!TypeOK
      <4> QED
        BY <4>1
    <3>2. \A i \in Tickets, b \in Sla!Breaches : v1[i].live /\ v4[i][b] > 1 => <<i, b>> \in v5
      <4> SUFFICES ASSUME NEW i \in Tickets, NEW b \in Sla!Breaches, v1[i].live, <<i, b>> \notin v5
                   PROVE  ~(v4[i][b] > 1)
        OBVIOUS
      <4>1. v4[i][b] <= 1
        BY DEF Sla!Inv, Sla!OneEscalates
      <4> QED
        BY <3>1, <4>1
    <3> QED
      BY <3>2 DEF Sla!Inv, Sla!OneAtATime, Sla!EscalatedOnce
<1> QED
  BY <1>1, <1>2, <1>3, PTL DEF OfficeSpec

---------------------------------------------------------------------------
(* Accounts *)

\* What RoleIsGranted says of an account no two requests met on.
Granted ==
  /\ v2 # {} /\ v1.role # "admin" => v1.role \in v2
  /\ \A n \in 2..v3 : n = v1.tenant \/ n \in v6

\* A request that was alone writes: afterwards no request has read anything.
LEMMA AccountWritten ==
  ASSUME Account!Inv, NEW t \in Threads, Account!Ends(t), v4[t] # Account!Idle,
         v1' \in Account!Account, v2' \subseteq Account!Roles, v3' \in 0..MaxTenants, v6' \subseteq 0..MaxTenants,
         ~v5 /\ v4[t].was = v1 /\ v4[t].seen = v2 => Granted' /\ v1'.role # "none"
  PROVE  Account!Inv'
<1> DEFINE Req == [does : {"nothing", "register", "update", "invite", "heal", "provide"},
                   role : Account!Roles \union {"none"}, was : Account!Account, seen : SUBSET Account!Roles]
<1>1. v4 \in [Threads -> Req] /\ v5 \in BOOLEAN
  BY DEF Account!Inv, Account!TypeOK
<1>2. v4' = [v4 EXCEPT ![t] = Account!Idle] /\ v5' = (v5 \/ \E u \in Threads \ {t} : v4[u] # Account!Idle)
  BY DEF Account!Ends
<1>3. Account!Idle \in Req /\ Account!Idle.does = "nothing"
  BY TenantsAssumption DEF Account!Idle, Account!NoUser, Account!Account
<1> HIDE DEF Req
<1>4. v4' \in [Threads -> Req] /\ \A u \in Threads : v4'[u] = IF u = t THEN Account!Idle ELSE v4[u]
  BY <1>1, <1>2, <1>3
<1>5. Account!TypeOK'
  BY <1>1, <1>2, <1>4 DEF Account!TypeOK, Req
<1>6. Account!Asked'
  BY <1>3, <1>4 DEF Account!Inv, Account!Asked
<1>7. ~v5' => ~v5 /\ \A u \in Threads : v4'[u] = Account!Idle
  BY <1>1, <1>2, <1>4
<1>8. ~v5' => Granted' /\ v1'.role # "none"
  BY <1>7 DEF Account!Inv, Account!ReadsHold
<1>9. Account!ReadsHold' /\ Account!RoleIsGranted'
  BY <1>7, <1>8 DEF Account!ReadsHold, Account!RoleIsGranted, Account!Exists, Granted
<1> QED
  BY <1>5, <1>6, <1>9 DEF Account!Inv

LEMMA AccountKeeps ==
  ASSUME Account!Inv, Account!Next
  PROVE  Account!Inv'
<1> DEFINE Req == [does : {"nothing", "register", "update", "invite", "heal", "provide"},
                   role : Account!Roles \union {"none"}, was : Account!Account, seen : SUBSET Account!Roles]
<1>1. /\ v1 \in Account!Account /\ v2 \subseteq Account!Roles /\ v3 \in 0..MaxTenants /\ v4 \in [Threads -> Req]
      /\ v5 \in BOOLEAN /\ v6 \subseteq 0..MaxTenants /\ MaxTenants \in Nat
  BY TenantsAssumption DEF Account!Inv, Account!TypeOK
<1>2. ~v5 => Granted
  BY DEF Account!Inv, Account!RoleIsGranted, Granted
<1>3. \A t \in Threads : v4[t] \in Req
  BY <1>1
<1>4. v1.role \in Account!Roles \union {"none", "admin"} /\ v1.tenant \in 0..MaxTenants
  BY <1>1 DEF Account!Account
<1>5. Account!Idle \in Req /\ Account!Idle.does = "nothing"
  BY TenantsAssumption DEF Account!Idle, Account!NoUser, Account!Account
<1>6. /\ \A t \in Threads : v4[t].does \in {"update", "invite"} => v4[t].role \in Account!Roles
      /\ \A t \in Threads : v4[t].does \in {"update", "provide"} => v4[t].was.role # "none"
      /\ \A t \in Threads : v4[t].does = "provide" => v4[t].was.tenant = 0
  BY DEF Account!Inv, Account!Asked
<1>7. \A t \in Threads : /\ v4[t].was \in Account!Account /\ v4[t].was.role \in Account!Roles \union {"none", "admin"}
                         /\ v4[t].was.tenant \in 0..MaxTenants /\ v4[t].seen \subseteq Account!Roles
  BY <1>3 DEF Account!Account
\* A new tenant's number.
<1>8. ASSUME Account!NewTenant PROVE v3' = v3 + 1 /\ v3' \in 1..MaxTenants /\ \A n \in 2..v3' : n \in 2..v3 \/ n = v3'
  BY <1>1, <1>8 DEF Account!NewTenant
<1>9. ASSUME NEW t \in Threads, NEW does \in {"register", "update", "invite", "heal", "provide"},
             NEW r \in Account!Roles \union {"none"}, (r = "none" <=> does = "provide"), Account!Reads(t, does, r)
      PROVE  Account!Inv'
  <2> DEFINE x == [does |-> does, role |-> r, was |-> v1, seen |-> v2]
  <2>1. v4' = [v4 EXCEPT ![t] = x] /\ UNCHANGED <<v1, v2, v3, v5, v6>>
    BY <1>9 DEF Account!Reads
  <2>2. x \in Req /\ x.does = does /\ x.role = r /\ x.was = v1 /\ x.seen = v2
    BY <1>1
  <2>3. (does = "update" => v1.role # "none") /\ (does = "provide" => v1.role # "none" /\ v1.tenant = 0)
    BY <1>9 DEF Account!Reads, Account!Exists
  <2> HIDE DEF x, Req
  <2>4. v4' \in [Threads -> Req] /\ \A u \in Threads : v4'[u] = IF u = t THEN x ELSE v4[u]
    BY <1>1, <2>1, <2>2
  <2>5. Account!TypeOK'
    BY <1>1, <2>1, <2>4 DEF Account!TypeOK, Req
  <2>6. Account!Asked'
    BY <1>6, <1>9, <2>2, <2>3, <2>4 DEF Account!Asked
  <2>7. Account!ReadsHold'
    BY <2>1, <2>2, <2>4 DEF Account!Inv, Account!ReadsHold, Account!Exists
  <2>8. Account!RoleIsGranted'
    BY <2>1 DEF Account!Inv, Account!RoleIsGranted
  <2> QED
    BY <2>5, <2>6, <2>7, <2>8 DEF Account!Inv
<1>10. ASSUME NEW t \in Threads, NEW tenant \in 0..v3, (tenant = 0 => v4[t].was.tenant = 0), Account!Update(t, tenant) PROVE Account!Inv'
  <2> DEFINE was == v4[t].was
             r   == v4[t].role
             x   == [role |-> Account!Written(was.role, r, v1.role), tenant |-> Account!Written(was.tenant, tenant, v1.tenant)]
  <2>1. /\ v4[t].does = "update" /\ v1' = x /\ v2' = (v2 \ v4[t].seen) \union {r}
        /\ v6' = (IF v1'.tenant # v1.tenant THEN v6 \union {v1.tenant} ELSE v6) /\ Account!Ends(t) /\ v3' = v3
    BY <1>10 DEF Account!Update
  <2>2. r \in Account!Roles /\ was.role # "none" /\ v4[t] # Account!Idle
    BY <1>5, <1>6, <2>1
  <2>3. x \in Account!Account
    BY <1>1, <1>4, <1>10, <2>2 DEF Account!Written, Account!Account, Account!Roles
  <2>4. was = v1 => x.role = r /\ x.tenant = tenant
    BY DEF Account!Written
  <2>5. v2' \subseteq Account!Roles /\ v3' \in 0..MaxTenants /\ v6' \subseteq 0..MaxTenants
    BY <1>1, <1>4, <2>1, <2>2
  <2>6. ASSUME ~v5, v4[t].was = v1, v4[t].seen = v2 PROVE Granted' /\ v1'.role # "none"
    <3>0. r # "none"
      BY <2>2 DEF Account!Roles
    <3>1. v1'.role = r /\ v2' = {r}
      BY <2>1, <2>4, <2>6
    <3>2. \A n \in 2..v3' : n = v1'.tenant \/ n \in v6'
      BY <1>2, <2>1, <2>6 DEF Granted
    <3> QED
      BY <3>0, <3>1, <3>2 DEF Granted
  <2> HIDE DEF x
  <2> QED
    BY <2>1, <2>2, <2>3, <2>5, <2>6, AccountWritten
<1>11. ASSUME NEW t \in Threads, Account!Register(t) PROVE Account!Inv'
  <2> DEFINE x == [role |-> "user", tenant |-> v3']
  <2>1. /\ v4[t].does = "register" /\ v1.role = "none" /\ Account!NewTenant /\ v1' = x /\ Account!Ends(t) /\ UNCHANGED <<v2, v6>>
    BY <1>11 DEF Account!Register, Account!Exists
  <2>2. v3' = v3 + 1 /\ v3' \in 1..MaxTenants /\ \A n \in 2..v3' : n \in 2..v3 \/ n = v3'
    BY <1>8, <2>1
  <2>3. x \in Account!Account /\ x.role = "user" /\ x.tenant = v3' /\ v4[t] # Account!Idle
    BY <1>5, <2>1, <2>2 DEF Account!Account, Account!Roles
  <2>4. ASSUME ~v5, v4[t].was = v1, v4[t].seen = v2 PROVE Granted' /\ v1'.role # "none"
    <3>1. v2 = {} /\ v1.tenant = 0
      BY <1>1, <1>2, <2>1, <2>4 DEF Granted, Account!Roles, Account!Inv, Account!ReadsHold, Account!Exists
    <3>2. \A n \in 2..v3' : n = v1'.tenant \/ n \in v6'
      BY <1>2, <2>1, <2>2, <2>3, <2>4, <3>1 DEF Granted
    <3> QED
      BY <2>1, <2>3, <3>1, <3>2 DEF Granted
  <2> HIDE DEF x
  <2> QED
    BY <1>1, <2>1, <2>2, <2>3, <2>4, AccountWritten
<1>12. ASSUME NEW t \in Threads, Account!Invite(t) PROVE Account!Inv'
  <2> DEFINE was == v4[t].was
             r   == v4[t].role
             x   == [role |-> Account!Written(was.role, r, v1.role), tenant |-> Account!Written(was.tenant, 1, v1.tenant)]
  <2>1. /\ v4[t].does = "invite" /\ (was.role = "none" => v1.role = "none") /\ v1' = x /\ v2' = v2 \union {r}
        /\ v6' = (IF v1.tenant \in {0, 1} THEN v6 ELSE v6 \union {v1.tenant}) /\ Account!Ends(t) /\ v3' = v3
    BY <1>12 DEF Account!Invite, Account!Exists
  <2>2. r \in Account!Roles /\ v4[t] # Account!Idle
    BY <1>5, <1>6, <2>1
  <2>3. x \in Account!Account
    <3>1. 1 \in 0..MaxTenants
      BY TenantsAssumption
    <3> QED
      BY <1>1, <1>4, <2>2, <3>1 DEF Account!Written, Account!Account
  <2>4. was = v1 => x.role = r /\ x.tenant = 1
    BY DEF Account!Written
  <2>5. v2' \subseteq Account!Roles /\ v3' \in 0..MaxTenants /\ v6' \subseteq 0..MaxTenants
    BY <1>1, <1>4, <2>1, <2>2
  <2>6. ASSUME ~v5, v4[t].was = v1, v4[t].seen = v2 PROVE Granted' /\ v1'.role # "none"
    <3>0. r # "none"
      BY <2>2 DEF Account!Roles
    <3>1. v1'.role = r /\ r \in v2'
      BY <2>1, <2>4, <2>6
    <3>2. \A n \in 2..v3' : n = v1'.tenant \/ n \in v6'
      BY <1>2, <2>1, <2>6 DEF Granted
    <3> QED
      BY <3>0, <3>1, <3>2 DEF Granted
  <2> HIDE DEF x
  <2> QED
    BY <2>1, <2>2, <2>3, <2>5, <2>6, AccountWritten
<1>13. ASSUME NEW t \in Threads, Account!Heal(t) PROVE Account!Inv'
  <2> DEFINE was == v4[t].was
             x   == [role   |-> Account!Written(was.role, "enterprise_admin", v1.role),
                     tenant |-> IF was.tenant = 0 THEN v3' ELSE v1.tenant]
  <2>1. /\ v4[t].does = "heal" /\ (was.role = "none" => v1.role = "none")
        /\ IF was.tenant = 0 THEN Account!NewTenant ELSE v3' = v3
        /\ v1' = x /\ v2' = {"enterprise_admin"} /\ Account!Ends(t) /\ v6' = v6
    BY <1>13 DEF Account!Heal, Account!Exists
  <2>2. v4[t] # Account!Idle /\ "enterprise_admin" \in Account!Roles
    BY <1>5, <2>1 DEF Account!Roles
  <2>3. v3' \in 0..MaxTenants /\ (was.tenant = 0 => \A n \in 2..v3' : n \in 2..v3 \/ n = v3')
    BY <1>1, <1>8, <2>1
  <2>4. x \in Account!Account
    BY <1>1, <1>4, <2>2, <2>3 DEF Account!Written, Account!Account
  <2>5. was = v1 => x.role = "enterprise_admin" /\ x.tenant = IF was.tenant = 0 THEN v3' ELSE v1.tenant
    BY DEF Account!Written
  <2> HIDE DEF x
  <2>6. ASSUME ~v5, v4[t].was = v1, v4[t].seen = v2 PROVE Granted' /\ v1'.role # "none"
    <3>1. v1'.role = "enterprise_admin" /\ v1'.role \in v2'
      BY <2>1, <2>5, <2>6
    <3>2. CASE was.tenant = 0
      BY <1>2, <2>1, <2>3, <2>5, <2>6, <3>1, <3>2 DEF Granted
    <3>3. CASE was.tenant # 0
      BY <1>2, <2>1, <2>5, <2>6, <3>1, <3>3 DEF Granted
    <3> QED
      BY <3>2, <3>3
  <2> QED
    BY <1>1, <2>1, <2>2, <2>3, <2>4, <2>6, AccountWritten
<1>14. ASSUME NEW t \in Threads, Account!Provide(t) PROVE Account!Inv'
  <2> DEFINE x == [v1 EXCEPT !.tenant = v3']
  <2>1. v4[t].does = "provide" /\ Account!NewTenant /\ v1' = x /\ Account!Ends(t) /\ UNCHANGED <<v2, v6>>
    BY <1>14 DEF Account!Provide
  <2>2. v3' = v3 + 1 /\ v3' \in 1..MaxTenants /\ \A n \in 2..v3' : n \in 2..v3 \/ n = v3'
    BY <1>8, <2>1
  <2>3. x \in Account!Account /\ x.role = v1.role /\ x.tenant = v3' /\ v4[t] # Account!Idle
    BY <1>1, <1>5, <2>1, <2>2 DEF Account!Account
  <2>4. v4[t].was.role # "none" /\ v4[t].was.tenant = 0
    BY <1>6, <2>1
  <2> HIDE DEF x
  <2>5. ASSUME ~v5, v4[t].was = v1, v4[t].seen = v2 PROVE Granted' /\ v1'.role # "none"
    BY <1>2, <2>1, <2>2, <2>3, <2>4, <2>5 DEF Granted
  <2> QED
    BY <1>1, <2>1, <2>2, <2>3, <2>5, AccountWritten
<1>15. ASSUME NEW t \in Threads, Account!Fails(t) PROVE Account!Inv'
  <2>1. v4' = [v4 EXCEPT ![t] = Account!Idle] /\ UNCHANGED <<v1, v2, v3, v5, v6>>
    BY <1>15 DEF Account!Fails
  <2> HIDE DEF Req
  <2>2. v4' \in [Threads -> Req] /\ \A u \in Threads : v4'[u] = IF u = t THEN Account!Idle ELSE v4[u]
    BY <1>1, <1>5, <2>1
  <2>3. Account!TypeOK'
    BY <1>1, <2>1, <2>2 DEF Account!TypeOK, Req
  <2>4. Account!Asked'
    BY <1>5, <1>6, <2>2 DEF Account!Asked
  <2>5. Account!ReadsHold' /\ Account!RoleIsGranted'
    BY <2>1, <2>2 DEF Account!Inv, Account!ReadsHold, Account!RoleIsGranted, Account!Exists
  <2> QED
    BY <2>3, <2>4, <2>5 DEF Account!Inv
\* ensure-admin and an administrator's change of context write without reading first.
<1>16. ASSUME UNCHANGED <<v2, v3, v4>>, v1' \in Account!Account, v6' \subseteq 0..MaxTenants,
              v5' = (v5 \/ \E t \in Threads : v4[t] # Account!Idle),
              ~v5 => Granted' /\ (v1'.role = "none" => v1'.tenant = 0)
       PROVE  Account!Inv'
  <2>1. Account!TypeOK' /\ Account!Asked'
    BY <1>1, <1>6, <1>16 DEF Account!TypeOK, Account!Asked
  <2>2. ~v5' => ~v5 /\ \A t \in Threads : v4'[t] = Account!Idle
    BY <1>1, <1>16
  <2>3. Account!ReadsHold' /\ Account!RoleIsGranted'
    BY <1>16, <2>2 DEF Account!ReadsHold, Account!RoleIsGranted, Account!Exists, Granted
  <2> QED
    BY <2>1, <2>3 DEF Account!Inv
<1>17. ASSUME Account!EnsureAdmin PROVE Account!Inv'
  <2>1. /\ v1' = [v1 EXCEPT !.role = "admin"] /\ UNCHANGED <<v2, v3, v4, v6>>
        /\ v5' = (v5 \/ \E t \in Threads : v4[t] # Account!Idle)
    BY <1>17 DEF Account!EnsureAdmin
  <2>2. v1' \in Account!Account /\ v1'.role = "admin" /\ v1'.tenant = v1.tenant
    BY <1>1, <2>1 DEF Account!Account
  <2> QED
    BY <1>1, <1>2, <1>16, <2>1, <2>2 DEF Granted
<1>18. ASSUME NEW tenant \in 1..v3, Account!SetContext(tenant) PROVE Account!Inv'
  <2>1. /\ v1' = [v1 EXCEPT !.tenant = tenant] /\ UNCHANGED <<v2, v3, v4>> /\ v1.role # "none"
        /\ v6' = (IF tenant = v1.tenant THEN v6 ELSE v6 \union {v1.tenant})
        /\ v5' = (v5 \/ \E t \in Threads : v4[t] # Account!Idle)
    BY <1>18 DEF Account!SetContext, Account!Exists
  <2>2. tenant \in 0..MaxTenants
    BY <1>1
  <2>3. v1' \in Account!Account /\ v1'.role = v1.role /\ v1'.tenant = tenant /\ v6' \subseteq 0..MaxTenants
    BY <1>1, <1>4, <2>1, <2>2 DEF Account!Account
  <2> QED
    BY <1>1, <1>2, <1>16, <2>1, <2>3 DEF Granted
<1> QED
  BY <1>9, <1>10, <1>11, <1>12, <1>13, <1>14, <1>15, <1>17, <1>18 DEF Account!Next

\* Unless two requests met or ensure-admin wrote the column, the role the portal shows is one the
\* authorization service grants, and no tenant made for the user is left behind without a move
\* (register, update_user, invite_user, platform_heal, ensure_user_has_tenant), for any requests
\* and tenants.
THEOREM RoleIsGrantedCorrect == OfficeSpec => []RoleIsGranted
<1> DEFINE I == focus = "accounts" => Account!Inv
<1>1. OfficeInit => I
  <2> SUFFICES ASSUME Account!Init PROVE Account!Inv
    BY DEF OfficeInit
  <2>1. v1 = Account!NoUser /\ v2 = {} /\ v3 = 1 /\ v4 = [t \in Threads |-> Account!Idle] /\ v5 = FALSE /\ v6 = {}
    BY DEF Account!Init
  <2>2. Account!NoUser \in Account!Account /\ Account!NoUser.role = "none" /\ Account!NoUser.tenant = 0
    BY TenantsAssumption DEF Account!NoUser, Account!Account
  <2>3. \A t \in Threads : v4[t] = Account!Idle
    BY <2>1
  <2>4. Account!TypeOK
    <3>1. 1 \in 0..MaxTenants
      BY TenantsAssumption
    <3>2. Account!Idle \in [does : {"nothing", "register", "update", "invite", "heal", "provide"},
                            role : Account!Roles \union {"none"}, was : Account!Account, seen : SUBSET Account!Roles]
      BY <2>2 DEF Account!Idle
    <3> QED
      BY <2>1, <2>2, <3>1, <3>2 DEF Account!TypeOK
  <2>5. Account!Asked
    BY <2>3 DEF Account!Asked, Account!Idle
  <2>6. Account!ReadsHold /\ Account!RoleIsGranted
    BY <2>1, <2>2, <2>3 DEF Account!ReadsHold, Account!RoleIsGranted
  <2> QED
    BY <2>4, <2>5, <2>6 DEF Account!Inv
<1>2. I /\ [OfficeNext]_OfficeVars => I'
  <2> SUFFICES ASSUME Account!Inv, [OfficeNext]_OfficeVars, focus = "accounts" PROVE Account!Inv'
    BY Focused
  <2>1. CASE UNCHANGED slots
    <3>1. UNCHANGED <<v1, v2, v3, v4, v5, v6>>
      BY <2>1 DEF slots
    <3> QED
      BY <3>1 DEF Account!Inv, Account!TypeOK, Account!ReadsHold, Account!RoleIsGranted, Account!Asked, Account!Exists
  <2> QED
    BY <2>1, Focused, AccountKeeps
<1>3. I => RoleIsGranted
  BY DEF RoleIsGranted, Account!Inv
<1> QED
  BY <1>1, <1>2, <1>3, PTL DEF OfficeSpec

---------------------------------------------------------------------------
(* RefreshTokens *)

\* What the invariant says in terms of the rows and of the tokens held.
LEMMA TokensMeaning ==
  Tokens!Inv <=>
    /\ v1 \in 0..MaxTime /\ v3 \subseteq Tokens!Jwt /\ v4 \subseteq Tokens!Ids
    /\ DOMAIN v2 \subseteq Tokens!Ids /\ \A i \in DOMAIN v2 : v2[i] \in Tokens!Row
    /\ DOMAIN v2 \subseteq Tokens!Issued /\ \A i \in DOMAIN v2 : v2[i].session \in Tokens!Issued /\ v2[i].generation <= i
    /\ \A a \in Tokens!Issued, b \in Tokens!Ids : b < a => b \in Tokens!Issued
    /\ \A j \in v3 : j.type = "refresh" /\ j.jti \in DOMAIN v2 =>
         v2[j.jti].session = j.session /\ v2[j.jti].generation = j.generation /\ v2[j.jti].expires = j.expires
    /\ \A j \in v3 : j.type = "refresh" => j.jti \in DOMAIN v2 \/ j.jti \in v4 \/ j.expires < v1
    /\ \A i \in DOMAIN v2 : v2[i].expires <= (IF v2[i].revoked THEN v2[i].revokedAt ELSE v1) + RefreshLife
    /\ \A i \in DOMAIN v2 : ~v2[i].revoked =>
         /\ v2[i].next = 0
         /\ \A k \in DOMAIN v2 : k # i /\ v2[k].session = v2[i].session => v2[k].revoked /\ v2[k].generation < v2[i].generation
<1>1. Tokens!Stored = DOMAIN v2
  BY DEF Tokens!Stored
<1>2. Tokens!Numbered <=> /\ DOMAIN v2 \subseteq Tokens!Issued
                          /\ \A i \in DOMAIN v2 : v2[i].session \in Tokens!Issued /\ v2[i].generation <= i
                          /\ \A a \in Tokens!Issued, b \in Tokens!Ids : b < a => b \in Tokens!Issued
  BY <1>1 DEF Tokens!Numbered
<1>3. Tokens!OneUnrevoked <=> \A i \in DOMAIN v2 : ~v2[i].revoked =>
         /\ v2[i].next = 0
         /\ \A k \in DOMAIN v2 : k # i /\ v2[k].session = v2[i].session => v2[k].revoked /\ v2[k].generation < v2[i].generation
  BY <1>1 DEF Tokens!OneUnrevoked, Tokens!OfSession
<1> QED
  BY <1>1, <1>2, <1>3 DEF Tokens!Inv, Tokens!TypeOK, Tokens!Matched, Tokens!Outlasting

\* What revoking makes of a row.
Ended(k) ==
  /\ v2'[k].session = v2[k].session /\ v2'[k].generation = v2[k].generation /\ v2'[k].expires = v2[k].expires
  /\ v2'[k].revoked /\ v2'[k].revokedAt = IF v2[k].revoked THEN v2[k].revokedAt ELSE v1

LEMMA EndedRow ==
  ASSUME v1 \in Nat, NEW r \in Tokens!Row
  PROVE  LET e == Tokens!Ended(r) IN
         /\ e \in Tokens!Row /\ e.session = r.session /\ e.generation = r.generation /\ e.expires = r.expires /\ e.device = r.device
         /\ e.revoked /\ e.revokedAt = IF r.revoked THEN r.revokedAt ELSE v1
BY DEF Tokens!Ended, Tokens!Row

\* Rows are revoked, or go with their tokens' expiry or their user.
LEMMA TokensEnd ==
  ASSUME Tokens!Inv, UNCHANGED <<v1, v3>>, v4' \subseteq Tokens!Ids, v4 \subseteq v4', DOMAIN v2' \subseteq DOMAIN v2,
         \A k \in DOMAIN v2' : v2'[k] \in Tokens!Row /\ (v2'[k] = v2[k] \/ Ended(k)),
         \A k \in DOMAIN v2 : k \in DOMAIN v2' \/ k \in v4' \/ v2[k].expires < v1
  PROVE  Tokens!Inv'
<1>0. /\ v1 \in 0..MaxTime /\ v3 \subseteq Tokens!Jwt /\ DOMAIN v2 \subseteq Tokens!Ids
      /\ DOMAIN v2 \subseteq Tokens!Issued /\ \A i \in DOMAIN v2 : v2[i].session \in Tokens!Issued /\ v2[i].generation <= i
      /\ \A a \in Tokens!Issued, b \in Tokens!Ids : b < a => b \in Tokens!Issued
  BY TokensMeaning
<1>1. \A k \in DOMAIN v2' : /\ k \in DOMAIN v2 /\ v2'[k].session = v2[k].session /\ v2'[k].generation = v2[k].generation
                            /\ v2'[k].expires = v2[k].expires /\ (v2[k].revoked => v2'[k].revoked)
  BY DEF Ended
<1>2. \A k \in DOMAIN v2' : ~v2'[k].revoked => v2'[k] = v2[k]
  BY DEF Ended
<1>3. Tokens!Issued' = Tokens!Issued
  BY DEF Tokens!Issued
<1>4. Tokens!TypeOK'
  BY <1>0, <1>1 DEF Tokens!TypeOK, Tokens!Stored
<1>5. Tokens!Numbered'
  BY <1>0, <1>1, <1>3 DEF Tokens!Numbered, Tokens!Stored
<1>6. Tokens!Matched'
  BY <1>1, TokensMeaning DEF Tokens!Matched, Tokens!Stored
<1>7. \A j \in v3 : j.type = "refresh" => j.jti \in DOMAIN v2' \/ j.jti \in v4' \/ j.expires < v1
  BY TokensMeaning
<1>8. \A i \in DOMAIN v2' : v2'[i].expires <= (IF v2'[i].revoked THEN v2'[i].revokedAt ELSE v1) + RefreshLife
  <2> SUFFICES ASSUME NEW i \in DOMAIN v2' PROVE v2'[i].expires <= (IF v2'[i].revoked THEN v2'[i].revokedAt ELSE v1) + RefreshLife
    OBVIOUS
  <2>1. i \in DOMAIN v2 /\ v2[i].expires <= (IF v2[i].revoked THEN v2[i].revokedAt ELSE v1) + RefreshLife
    BY <1>1, TokensMeaning
  <2>2. CASE v2'[i] = v2[i]
    BY <2>1, <2>2
  <2>3. CASE Ended(i)
    BY <2>1, <2>3 DEF Ended
  <2> QED
    BY <2>2, <2>3
<1>9. Tokens!Outlasting'
  BY <1>7, <1>8 DEF Tokens!Outlasting, Tokens!Stored
<1>10. Tokens!OneUnrevoked'
  <2> SUFFICES ASSUME NEW i \in DOMAIN v2', ~v2'[i].revoked
               PROVE  /\ v2'[i].next = 0
                      /\ \A k \in DOMAIN v2' : k # i /\ v2'[k].session = v2'[i].session => v2'[k].revoked /\ v2'[k].generation < v2'[i].generation
    BY DEF Tokens!OneUnrevoked, Tokens!OfSession, Tokens!Stored
  <2>1. i \in DOMAIN v2 /\ ~v2[i].revoked /\ v2'[i] = v2[i]
    BY <1>1, <1>2
  <2>2. /\ v2[i].next = 0
        /\ \A k \in DOMAIN v2 : k # i /\ v2[k].session = v2[i].session => v2[k].revoked /\ v2[k].generation < v2[i].generation
    BY <2>1, TokensMeaning
  <2> QED
    BY <1>1, <2>1, <2>2
<1> QED
  BY <1>4, <1>5, <1>6, <1>9, <1>10 DEF Tokens!Inv

\* A set of rows is revoked.
LEMMA TokensRevoked ==
  ASSUME Tokens!Inv, NEW ids, Tokens!Revoke(ids), UNCHANGED <<v1, v3, v4>>
  PROVE  Tokens!Inv'
<1>1. v1 \in Nat /\ v4 \subseteq Tokens!Ids /\ \A k \in DOMAIN v2 : v2[k] \in Tokens!Row
  BY TokensMeaning, TokensAssumption
<1>2. DOMAIN v2' = DOMAIN v2 /\ \A k \in DOMAIN v2 : v2'[k] = IF k \in ids THEN Tokens!Ended(v2[k]) ELSE v2[k]
  BY DEF Tokens!Revoke, Tokens!Stored
<1>3. ASSUME NEW k \in DOMAIN v2' PROVE v2'[k] \in Tokens!Row /\ (v2'[k] = v2[k] \/ Ended(k))
  <2>1. CASE k \in ids
    <3>1. v2'[k] = Tokens!Ended(v2[k]) /\ v2[k] \in Tokens!Row
      BY <1>1, <1>2, <2>1
    <3> QED
      BY <1>1, <3>1, EndedRow DEF Ended
  <2>2. CASE k \notin ids
    BY <1>1, <1>2, <2>2
  <2> QED
    BY <2>1, <2>2
<1> QED
  BY <1>1, <1>2, <1>3, TokensEnd
\* A token is issued, for a new session or for the one of a token it ends.
LEMMA TokenIssued ==
  ASSUME Tokens!Inv, NEW i \in Tokens!Ids, Tokens!Fresh(i), NEW x \in Tokens!Jwt, NEW y \in Tokens!Jwt,
         x.type = "refresh", x.jti = i, y.type = "access", y.jti = 0, v3' = v3 \union {x, y}, UNCHANGED <<v1, v4>>,
         DOMAIN v2' = DOMAIN v2 \union {i}, v2'[i] \in Tokens!Row, ~v2'[i].revoked, v2'[i].next = 0,
         v2'[i].session = x.session, v2'[i].generation = x.generation, v2'[i].expires = x.expires,
         x.expires <= v1 + RefreshLife, x.generation <= i, x.session \in Tokens!Issued \union {i},
         \A k \in DOMAIN v2 : v2'[k] \in Tokens!Row /\ (v2'[k] = v2[k] \/ Ended(k)),
         \A k \in DOMAIN v2 : v2[k].session = x.session => v2'[k].revoked /\ v2'[k].generation < x.generation
  PROVE  Tokens!Inv'
<1>0. /\ v1 \in 0..MaxTime /\ v3 \subseteq Tokens!Jwt /\ v4 \subseteq Tokens!Ids /\ DOMAIN v2 \subseteq Tokens!Ids
      /\ DOMAIN v2 \subseteq Tokens!Issued /\ \A k \in DOMAIN v2 : v2[k].session \in Tokens!Issued /\ v2[k].generation <= k
      /\ \A a \in Tokens!Issued, b \in Tokens!Ids : b < a => b \in Tokens!Issued
  BY TokensMeaning
<1>1. i \notin Tokens!Issued /\ i \notin DOMAIN v2 /\ i # 0 /\ \A b \in Tokens!Ids : b < i => b \in Tokens!Issued
  <2>1. i \notin Tokens!Issued /\ \A k \in 1..(i - 1) : k \in Tokens!Issued
    BY DEF Tokens!Fresh
  <2>2. i # 0 /\ \A b \in Tokens!Ids : b < i => b \in 1..(i - 1)
    BY TokensAssumption DEF Tokens!Ids
  <2> QED
    BY <1>0, <2>1, <2>2
<1>2. \A k \in DOMAIN v2 : /\ v2'[k].session = v2[k].session /\ v2'[k].generation = v2[k].generation
                           /\ v2'[k].expires = v2[k].expires /\ (v2[k].revoked => v2'[k].revoked) /\ (~v2'[k].revoked => v2'[k] = v2[k])
  BY DEF Ended
<1>3. Tokens!Issued' = Tokens!Issued \union {i}
  BY <1>1 DEF Tokens!Issued
<1>4. Tokens!TypeOK'
  BY <1>0, <1>2 DEF Tokens!TypeOK, Tokens!Stored
<1>5. Tokens!Numbered'
  <2>1. \A k \in DOMAIN v2' : k \in Tokens!Issued' /\ v2'[k].session \in Tokens!Issued' /\ v2'[k].generation <= k
    BY <1>0, <1>2, <1>3
  <2>2. \A a \in Tokens!Issued', b \in Tokens!Ids : b < a => b \in Tokens!Issued'
    BY <1>0, <1>1, <1>3
  <2> QED
    BY <2>1, <2>2 DEF Tokens!Numbered, Tokens!Stored
<1>6. \A j \in v3 : j.type = "refresh" => j.jti # i
  BY <1>1 DEF Tokens!Issued
<1>7. Tokens!Matched'
  <2> SUFFICES ASSUME NEW j \in v3', j.type = "refresh", j.jti \in DOMAIN v2'
               PROVE  v2'[j.jti].session = j.session /\ v2'[j.jti].generation = j.generation /\ v2'[j.jti].expires = j.expires
    BY DEF Tokens!Matched, Tokens!Stored
  <2>1. CASE j \in v3
    <3>1. j.jti \in DOMAIN v2
      BY <1>6, <2>1
    <3>2. v2[j.jti].session = j.session /\ v2[j.jti].generation = j.generation /\ v2[j.jti].expires = j.expires
      BY <2>1, <3>1, TokensMeaning
    <3> QED
      BY <1>2, <3>1, <3>2
  <2>2. CASE j = x
    BY <2>2
  <2> QED
    BY <2>1, <2>2
<1>8. \A j \in v3' : j.type = "refresh" => j.jti \in DOMAIN v2' \/ j.jti \in v4 \/ j.expires < v1
  <2>1. \A j \in v3 : j.type = "refresh" => j.jti \in DOMAIN v2 \/ j.jti \in v4 \/ j.expires < v1
    BY TokensMeaning
  <2> QED
    BY <2>1
<1>9. ASSUME NEW k \in DOMAIN v2' PROVE v2'[k].expires <= (IF v2'[k].revoked THEN v2'[k].revokedAt ELSE v1) + RefreshLife
  <2>1. CASE k = i
    BY <2>1
  <2>2. CASE k \in DOMAIN v2
    <3>1. v2[k].expires <= (IF v2[k].revoked THEN v2[k].revokedAt ELSE v1) + RefreshLife
      BY <2>2, TokensMeaning
    <3>2. CASE v2'[k] = v2[k]
      BY <3>1, <3>2
    <3>3. CASE Ended(k)
      BY <3>1, <3>3 DEF Ended
    <3> QED
      BY <2>2, <3>2, <3>3
  <2> QED
    BY <2>1, <2>2
<1>10. Tokens!Outlasting'
  BY <1>8, <1>9 DEF Tokens!Outlasting, Tokens!Stored
<1>11. Tokens!OneUnrevoked'
  <2> SUFFICES ASSUME NEW k \in DOMAIN v2', ~v2'[k].revoked
               PROVE  /\ v2'[k].next = 0
                      /\ \A l \in DOMAIN v2' : l # k /\ v2'[l].session = v2'[k].session => v2'[l].revoked /\ v2'[l].generation < v2'[k].generation
    BY DEF Tokens!OneUnrevoked, Tokens!OfSession, Tokens!Stored
  <2>1. CASE k = i
    BY <1>2, <2>1
  <2>2. CASE k # i
    <3>1. k \in DOMAIN v2 /\ ~v2[k].revoked /\ v2'[k] = v2[k] /\ v2[k].session # x.session
      BY <1>2, <2>2
    <3>2. /\ v2[k].next = 0
          /\ \A l \in DOMAIN v2 : l # k /\ v2[l].session = v2[k].session => v2[l].revoked /\ v2[l].generation < v2[k].generation
      BY <3>1, TokensMeaning
    <3> QED
      BY <1>2, <3>1, <3>2
  <2> QED
    BY <2>1, <2>2
<1> QED
  BY <1>4, <1>5, <1>7, <1>10, <1>11 DEF Tokens!Inv

\* The tokens that are issued are tokens.
LEMMA Minted ==
  ASSUME v1 \in Nat, NEW u \in Users
  PROVE  /\ Tokens!Access(u) \in Tokens!Jwt /\ Tokens!Access(u).type = "access" /\ Tokens!Access(u).jti = 0
         /\ \A i, s, g \in Tokens!Ids :
              LET r == Tokens!Refresh(u, i, s, g) IN
              /\ r \in Tokens!Jwt /\ r.type = "refresh" /\ r.jti = i /\ r.session = s /\ r.generation = g /\ r.user = u
              /\ r.expires = v1 + RefreshLife
BY TokensAssumption DEF Tokens!Access, Tokens!Refresh, Tokens!Jwt

LEMMA DetailedRow ==
  ASSUME NEW j \in Tokens!Jwt, NEW d \in Clients, j.session # 0, j.generation # 0
  PROVE  LET r == Tokens!Detailed(j, d) IN
         /\ r \in Tokens!Row /\ r.session = j.session /\ r.generation = j.generation /\ r.expires = j.expires
         /\ ~r.revoked /\ r.next = 0
BY DEF Tokens!Detailed, Tokens!Jwt, Tokens!Row

LEMMA LoginKeeps ==
  ASSUME Tokens!Inv, NEW u \in Users, NEW d \in Clients, NEW i \in Tokens!Ids, Tokens!Login(u, d, i)
  PROVE  Tokens!Inv'
<1> DEFINE x == Tokens!Refresh(u, i, i, 1)
           y == Tokens!Access(u)
           r == Tokens!Detailed(x, d)
<1>1. Tokens!Fresh(i) /\ v3' = v3 \union {x, y} /\ v2' = Tokens!Put(i, r) /\ UNCHANGED <<v1, v4>>
  BY DEF Tokens!Login
<1>2. 1 \in Tokens!Ids /\ 1 <= i /\ i # 0
  BY TokensAssumption DEF Tokens!Ids
<1>3. v1 \in Nat /\ \A k \in DOMAIN v2 : v2[k] \in Tokens!Row /\ k \in Tokens!Issued /\ v2[k].session \in Tokens!Issued
  BY TokensMeaning, TokensAssumption
<1>4. /\ x \in Tokens!Jwt /\ x.type = "refresh" /\ x.jti = i /\ x.session = i /\ x.generation = 1 /\ x.expires = v1 + RefreshLife
      /\ y \in Tokens!Jwt /\ y.type = "access" /\ y.jti = 0
  BY <1>2, <1>3, Minted
<1> HIDE DEF x, y
<1>5. r \in Tokens!Row /\ r.session = i /\ r.generation = 1 /\ r.expires = x.expires /\ ~r.revoked /\ r.next = 0
  BY <1>2, <1>4, DetailedRow
<1> HIDE DEF r
<1>6. i \notin Tokens!Issued
  BY <1>1 DEF Tokens!Fresh
<1>7. DOMAIN v2' = DOMAIN v2 \union {i} /\ v2'[i] = r /\ \A k \in DOMAIN v2 : v2'[k] = v2[k]
  BY <1>1, <1>3, <1>6 DEF Tokens!Put, Tokens!Stored
<1>8. \A k \in DOMAIN v2 : v2[k].session # i
  BY <1>3, <1>6
<1> QED
  BY <1>1, <1>2, <1>3, <1>4, <1>5, <1>7, <1>8, TokenIssued, TokensAssumption

LEMMA RotateKeeps ==
  ASSUME Tokens!Inv, NEW j \in v3, NEW i \in Tokens!Ids, Tokens!Rotate(j, i)
  PROVE  Tokens!Inv'
<1> DEFINE old == j.jti
           g == j.generation + 1
           x == Tokens!Refresh(j.user, i, j.session, g)
           y == Tokens!Access(j.user)
           r == Tokens!Detailed(x, v2[old].device)
           e == Tokens!Ended(v2[old])
           z == [e EXCEPT !.next = i]
<1>1. /\ Tokens!Fresh(i) /\ v3' = v3 \union {x, y} /\ UNCHANGED <<v1, v4>> /\ j.type = "refresh"
      /\ v2' = [Tokens!Put(i, r) EXCEPT ![old] = [Tokens!Ended(@) EXCEPT !.next = i]]
      /\ old \in DOMAIN v2 /\ ~v2[old].revoked
  BY DEF Tokens!Rotate, Tokens!Verifies, Tokens!Live, Tokens!Stored
<1>2. /\ v1 \in Nat /\ j \in Tokens!Jwt /\ j.user \in Users
      /\ \A k \in DOMAIN v2 : v2[k] \in Tokens!Row /\ k \in Tokens!Issued /\ k \in Tokens!Ids /\ v2[k].session \in Tokens!Issued
      /\ \A k \in DOMAIN v2 : v2[k].session \in Tokens!Ids /\ v2[k].generation \in Tokens!Ids /\ v2[k].generation <= k /\ v2[k].device \in Clients
  <2>1. v1 \in Nat /\ j \in Tokens!Jwt
    BY TokensMeaning, TokensAssumption
  <2>2. j.user \in Users
    BY <2>1 DEF Tokens!Jwt
  <2>3. \A k \in DOMAIN v2 : v2[k] \in Tokens!Row /\ k \in Tokens!Issued /\ k \in Tokens!Ids /\ v2[k].session \in Tokens!Issued /\ v2[k].generation <= k
    BY TokensMeaning
  <2>4. \A k \in DOMAIN v2 : v2[k].session \in Tokens!Ids /\ v2[k].generation \in Tokens!Ids /\ v2[k].device \in Clients
    BY <2>3 DEF Tokens!Row
  <2> QED
    BY <2>1, <2>2, <2>3, <2>4
<1>3. v2[old].session = j.session /\ v2[old].generation = j.generation
  BY <1>1, TokensMeaning
<1>4. \A k \in DOMAIN v2 : k # old /\ v2[k].session = j.session => v2[k].revoked /\ v2[k].generation < j.generation
  BY <1>1, <1>3, TokensMeaning
<1>5. i \notin Tokens!Issued /\ i # old
  BY <1>1, <1>2 DEF Tokens!Fresh
<1>6. old < i
  <2>1. ~(i < old)
    BY <1>1, <1>2, <1>5, TokensMeaning
  <2> QED
    BY <1>1, <1>2, <1>5, <2>1, TokensAssumption DEF Tokens!Ids
<1>7. g \in Tokens!Ids /\ g <= i /\ g # 0 /\ j.session \in Tokens!Ids /\ j.session # 0 /\ j.generation \in Nat
  BY <1>1, <1>2, <1>3, <1>6, TokensAssumption DEF Tokens!Ids
<1>8. /\ x \in Tokens!Jwt /\ x.type = "refresh" /\ x.jti = i /\ x.session = j.session /\ x.generation = g /\ x.expires = v1 + RefreshLife
      /\ y \in Tokens!Jwt /\ y.type = "access" /\ y.jti = 0
  <2> HIDE DEF g
  <2> QED
    BY <1>2, <1>7, Minted
<1> HIDE DEF x, y
<1>9. r \in Tokens!Row /\ r.session = j.session /\ r.generation = g /\ r.expires = x.expires /\ ~r.revoked /\ r.next = 0
  BY <1>1, <1>2, <1>7, <1>8, DetailedRow
<1>10. /\ e \in Tokens!Row /\ e.session = v2[old].session /\ e.generation = v2[old].generation /\ e.expires = v2[old].expires
       /\ e.revoked /\ e.revokedAt = v1
  BY <1>1, <1>2, EndedRow
<1> HIDE DEF e
<1>11. /\ z \in Tokens!Row /\ z.session = v2[old].session /\ z.generation = v2[old].generation /\ z.expires = v2[old].expires
       /\ z.revoked /\ z.revokedAt = v1
  BY <1>10 DEF Tokens!Row
<1> HIDE DEF r, z
<1>12. DOMAIN v2' = DOMAIN v2 \union {i} /\ v2'[i] = r /\ v2'[old] = z /\ \A k \in DOMAIN v2 : k # old => v2'[k] = v2[k]
  <2> DEFINE p == Tokens!Put(i, r)
  <2>1. p = [k \in DOMAIN v2 \union {i} |-> IF k = i THEN r ELSE v2[k]]
    BY DEF Tokens!Put, Tokens!Stored
  <2>2. v2' = [p EXCEPT ![old] = z] /\ \A k \in DOMAIN v2 : k # i
    <3>1. \A k \in DOMAIN v2 : k # i
      BY <1>2, <1>5
    <3>2. p[old] = v2[old]
      BY <1>1, <1>5, <2>1
    <3> QED
      BY <1>1, <3>1, <3>2 DEF e, z
  <2>3. p = [k \in DOMAIN p |-> p[k]] /\ DOMAIN p = DOMAIN v2 \union {i} /\ p[i] = r /\ \A k \in DOMAIN v2 : p[k] = v2[k]
    BY <2>1, <2>2
  <2> HIDE DEF p
  <2>4. v2' = [p EXCEPT ![old] = z] /\ old \in DOMAIN v2 /\ old # i
    BY <1>1, <1>5, <2>2
  <2>5. DOMAIN v2' = DOMAIN p /\ \A k \in DOMAIN p : v2'[k] = IF k = old THEN z ELSE p[k]
    BY <2>3, <2>4
  <2> HIDE DEF old
  <2> QED
    BY <2>2, <2>3, <2>4, <2>5
<1>13. Ended(old)
  <2>1. ~v2[old].revoked /\ v2'[old] = z
    BY <1>1, <1>12
  <2> HIDE DEF old
  <2> QED
    BY <1>11, <2>1 DEF Ended
<1>14. \A k \in DOMAIN v2 : v2'[k] \in Tokens!Row /\ (v2'[k] = v2[k] \/ Ended(k))
  BY <1>2, <1>11, <1>12, <1>13
<1>15. \A k \in DOMAIN v2 : v2[k].session = j.session => v2'[k].revoked /\ v2'[k].generation < g
  <2>1. v2'[old].revoked /\ v2'[old].generation < g
    BY <1>3, <1>7, <1>11, <1>12
  <2>2. \A k \in DOMAIN v2 : k # old /\ v2[k].session = j.session => v2[k].revoked /\ v2[k].generation < g
    <3>1. \A k \in DOMAIN v2 : v2[k].generation \in Nat
      BY <1>2, TokensAssumption DEF Tokens!Ids
    <3> QED
      BY <1>4, <1>7, <3>1
  <2> QED
    BY <1>12, <2>1, <2>2
<1>16. x.session \in Tokens!Issued \union {i} /\ x.expires <= v1 + RefreshLife
  BY <1>1, <1>2, <1>3, <1>8, TokensAssumption
<1>17. /\ v2'[i] \in Tokens!Row /\ ~v2'[i].revoked /\ v2'[i].next = 0 /\ v2'[i].session = x.session
       /\ v2'[i].generation = x.generation /\ v2'[i].expires = x.expires /\ x.generation <= i
  BY <1>7, <1>8, <1>9, <1>12
<1>18. \A k \in DOMAIN v2 : v2[k].session = x.session => v2'[k].revoked /\ v2'[k].generation < x.generation
  BY <1>8, <1>15
<1> HIDE DEF g
<1> QED
  BY <1>1, <1>8, <1>12, <1>14, <1>16, <1>17, <1>18, TokenIssued
LEMMA TokensKeep ==
  ASSUME Tokens!Inv, Tokens!Next
  PROVE  Tokens!Inv'
<1>0. /\ v1 \in Nat /\ v4 \subseteq Tokens!Ids /\ \A k \in DOMAIN v2 : v2[k] \in Tokens!Row /\ v2[k].expires \in Nat /\ k \in Tokens!Ids
      /\ \A k \in DOMAIN v2 : v2[k].revokedAt \in Nat
  <2>1. v1 \in Nat /\ v4 \subseteq Tokens!Ids /\ \A k \in DOMAIN v2 : v2[k] \in Tokens!Row /\ k \in Tokens!Ids
    BY TokensMeaning, TokensAssumption
  <2> QED
    BY <2>1 DEF Tokens!Row
<1>1. ASSUME NEW u \in Users, NEW d \in Clients, NEW i \in Tokens!Ids, Tokens!Login(u, d, i) PROVE Tokens!Inv'
  BY <1>1, LoginKeeps
<1>2. ASSUME NEW j \in v3, NEW i \in Tokens!Ids, Tokens!Rotate(j, i) PROVE Tokens!Inv'
  BY <1>2, RotateKeeps
<1>3. ASSUME NEW j \in v3, Tokens!Refuse(j) PROVE Tokens!Inv'
  <2>1. \/ Tokens!Revoke(Tokens!OfSession(v2[j.jti].session)) /\ UNCHANGED <<v1, v3, v4>>
        \/ Tokens!Revoke({j.jti}) /\ UNCHANGED <<v1, v3, v4>>
    BY <1>3 DEF Tokens!Refuse
  <2> QED
    BY <2>1, TokensRevoked
<1>4. ASSUME NEW i \in Tokens!Stored, Tokens!Logout(i) PROVE Tokens!Inv'
  BY <1>4, TokensRevoked DEF Tokens!Logout
<1>5. ASSUME NEW u \in Users, Tokens!LogoutAll(u) PROVE Tokens!Inv'
  BY <1>5, TokensRevoked DEF Tokens!LogoutAll
<1>6. ASSUME NEW u \in Users, NEW s, Tokens!LogoutSession(u, s) \/ Tokens!LogoutOthers(u, s) PROVE Tokens!Inv'
  <2>1. CASE Tokens!LogoutSession(u, s)
    BY <2>1, TokensRevoked DEF Tokens!LogoutSession
  <2>2. CASE Tokens!LogoutOthers(u, s)
    BY <2>2, TokensRevoked DEF Tokens!LogoutOthers
  <2> QED
    BY <1>6, <2>1, <2>2
<1>7. ASSUME NEW u \in Users, NEW d \in Clients, Tokens!LogoutDevice(u, d) PROVE Tokens!Inv'
  BY <1>7, TokensRevoked DEF Tokens!LogoutDevice
<1>8. ASSUME NEW u \in Users, Tokens!Purge(u) PROVE Tokens!Inv'
  <2>1. v4' = v4 \union Tokens!OfUser(u) /\ UNCHANGED <<v1, v3>> /\ DOMAIN v2' = DOMAIN v2 \ Tokens!OfUser(u)
        /\ \A k \in DOMAIN v2' : v2'[k] = v2[k]
    BY <1>8 DEF Tokens!Purge, Tokens!Drop, Tokens!Stored
  <2>2. Tokens!OfUser(u) \subseteq Tokens!Ids
    BY <1>0 DEF Tokens!OfUser, Tokens!Stored
  <2> QED
    BY <1>0, <2>1, <2>2, TokensEnd
\* A row that is cleaned up was revoked longer ago than a token lives.
<1>9. ASSUME Tokens!Cleanup PROVE Tokens!Inv'
  <2> DEFINE gone == {i \in DOMAIN v2 : v2[i].expires < v1 \/ (v2[i].revoked /\ v2[i].revokedAt < v1 - Retention)}
  <2>0. v2' = [k \in DOMAIN v2 \ gone |-> v2[k]] /\ UNCHANGED <<v1, v3, v4>>
    BY <1>9 DEF Tokens!Cleanup, Tokens!Drop, Tokens!Stored
  <2>1. DOMAIN v2' = DOMAIN v2 \ gone /\ (\A k \in DOMAIN v2' : v2'[k] = v2[k]) /\ UNCHANGED <<v1, v3, v4>>
    <3> HIDE DEF gone
    <3> QED
      BY <2>0
  <2>2. ASSUME NEW k \in gone PROVE v2[k].expires < v1
    <3>1. CASE v2[k].revoked /\ v2[k].revokedAt < v1 - Retention
      <4>1. v2[k].expires <= v2[k].revokedAt + RefreshLife
        BY <3>1, TokensMeaning
      <4> QED
        BY <1>0, <3>1, <4>1, TokensAssumption
    <3> QED
      BY <2>2, <3>1
  <2>3. \A k \in DOMAIN v2 : k \in DOMAIN v2' \/ v2[k].expires < v1
    BY <2>1, <2>2
  <2> HIDE DEF gone
  <2>4. DOMAIN v2' \subseteq DOMAIN v2
    BY <2>1
  <2> QED
    BY <1>0, <2>1, <2>3, <2>4, TokensEnd
<1>10. ASSUME Tokens!Tick PROVE Tokens!Inv'
  <2>1. v1' = v1 + 1 /\ v1' \in 0..MaxTime /\ UNCHANGED <<v2, v3, v4>>
    BY <1>0, <1>10, TokensAssumption DEF Tokens!Tick
  <2>2. Tokens!TypeOK'
    BY <2>1 DEF Tokens!Inv, Tokens!TypeOK, Tokens!Stored
  <2>3. Tokens!Numbered' /\ Tokens!Matched' /\ Tokens!OneUnrevoked'
    BY <2>1 DEF Tokens!Inv, Tokens!Numbered, Tokens!Matched, Tokens!OneUnrevoked, Tokens!Stored, Tokens!OfSession, Tokens!Issued
  <2>4. \A j \in v3 : j.expires \in Nat
    <3>1. v3 \subseteq Tokens!Jwt
      BY TokensMeaning
    <3> QED
      BY <3>1 DEF Tokens!Jwt
  <2>5. \A j \in v3 : j.type = "refresh" => j.jti \in DOMAIN v2 \/ j.jti \in v4 \/ j.expires < v1 + 1
    BY <1>0, <2>4, TokensMeaning
  <2>6. \A i \in DOMAIN v2 : v2[i].expires <= (IF v2[i].revoked THEN v2[i].revokedAt ELSE v1 + 1) + RefreshLife
    BY <1>0, TokensMeaning, TokensAssumption
  <2>7. Tokens!Outlasting'
    BY <2>1, <2>5, <2>6 DEF Tokens!Outlasting, Tokens!Stored
  <2> QED
    BY <2>2, <2>3, <2>7 DEF Tokens!Inv
<1> QED
  BY <1>1, <1>2, <1>3, <1>4, <1>5, <1>6, <1>7, <1>8, <1>9, <1>10 DEF Tokens!Next

\* Only the newest refresh token of a session is worth anything, and every token that still passes
\* for one has its row (rotate, revoke, delete_expired, delete_revoked), for any users, tokens and
\* times as long as revoked rows are kept for a token's life.
THEOREM RotationIsTrackedCorrect == OfficeSpec => []RotationIsTracked
<1> DEFINE I == focus = "tokens" => Tokens!Inv
<1>1. OfficeInit => I
  <2> SUFFICES ASSUME Tokens!Init PROVE Tokens!Inv
    BY DEF OfficeInit
  <2>1. v1 = 0 /\ v2 = <<>> /\ v3 = {} /\ v4 = {} /\ DOMAIN v2 = {}
    BY DEF Tokens!Init
  <2>2. Tokens!Issued = {}
    BY <2>1 DEF Tokens!Issued
  <2> QED
    BY <2>1, <2>2, TokensMeaning, TokensAssumption
<1>2. I /\ [OfficeNext]_OfficeVars => I'
  <2> SUFFICES ASSUME Tokens!Inv, [OfficeNext]_OfficeVars, focus = "tokens" PROVE Tokens!Inv'
    BY Focused
  <2>1. CASE UNCHANGED slots
    <3>1. UNCHANGED <<v1, v2, v3, v4>>
      BY <2>1 DEF slots
    <3> QED
      BY <3>1 DEF Tokens!Inv, Tokens!TypeOK, Tokens!Numbered, Tokens!Matched, Tokens!Outlasting, Tokens!OneUnrevoked,
                  Tokens!Stored, Tokens!OfSession, Tokens!Issued
  <2> QED
    BY <2>1, Focused, TokensKeep
<1>3. I => RotationIsTracked
  <2> SUFFICES ASSUME Tokens!Inv PROVE Tokens!RotationIsTracked
    BY DEF RotationIsTracked
  <2>1. Tokens!NewestOnly
    BY DEF Tokens!Inv, Tokens!NewestOnly, Tokens!OneUnrevoked, Tokens!Live
  <2>2. Tokens!ReplaysAreRecognized
    <3> SUFFICES ASSUME NEW j \in v3, j.type = "refresh", v1 <= j.expires
                 PROVE  \/ j.jti \in DOMAIN v2 /\ v2[j.jti].session = j.session /\ v2[j.jti].expires = j.expires
                        \/ j.jti \in v4
      BY DEF Tokens!ReplaysAreRecognized, Tokens!Verifies, Tokens!Decodes, Tokens!Stored
    <3>1. v1 \in Nat /\ j.expires \in Nat
      <4>1. v3 \subseteq Tokens!Jwt /\ v1 \in Nat
        BY TokensMeaning, TokensAssumption
      <4> QED
        BY <4>1 DEF Tokens!Jwt
    <3>2. j.jti \in DOMAIN v2 \/ j.jti \in v4
      BY <3>1, TokensMeaning
    <3> QED
      BY <3>2, TokensMeaning
  <2> QED
    BY <2>1, <2>2 DEF Tokens!RotationIsTracked
<1> QED
  BY <1>1, <1>2, <1>3, PTL DEF OfficeSpec

---------------------------------------------------------------------------
(* ServiceDesk *)

\* Tickets stay tickets, at most MaxTickets.
DeskTypes == v1 \in Seq(Desk!Ticket) /\ Len(v1) <= MaxTickets

LEMMA DeskStep ==
  ASSUME Desk!Inv, Desk!Next
  PROVE  Desk!Inv'
<1> USE TicketsAssumption DEF Desk!Inv
<1> DEFINE Open(t) == t.live /\ t.linked /\ t.repair /\ t.status \notin Desk!Over
           Types == /\ v2' \in {"in_stock", "deployed", "in_repair", "disposed"} /\ v3' \in BOOLEAN
                    /\ v4' \in Desk!Incidents /\ v6' \in BOOLEAN
           Sent(i) == v5 # 0 /\ ~v6 => v1[i].linked
<1>1. /\ DeskTypes /\ Len(v1) \in Nat /\ v5 \in 0..Len(v1)
      /\ v2 = "in_repair" /\ ~v6 => \E i \in 1..Len(v1) : Open(v1[i])
      /\ v5 # 0 /\ ~v6 => v1[v5].linked
  BY DEF Desk!TypeOK, Desk!RepairHasTicket, Desk!Live, DeskTypes
<1>2. ASSUME Types, DeskTypes', v5' \in 0..Len(v1'),
             v2' = "in_repair" /\ ~v6' => \E i \in 1..Len(v1') : Open(v1'[i]),
             v5' # 0 /\ ~v6' => v1'[v5'].linked
      PROVE  Desk!Inv'
  BY <1>2 DEF Desk!TypeOK, Desk!RepairHasTicket, Desk!Live, DeskTypes
\* A new ticket leaves the others.
<1>3. ASSUME NEW t \in Desk!Ticket, Desk!New(t)
      PROVE  /\ DeskTypes' /\ Len(v1') = Len(v1) + 1 /\ v1'[Len(v1')] = t
             /\ \A i \in 1..Len(v1) : i \in 1..Len(v1') /\ v1'[i] = v1[i]
  BY <1>1, <1>3 DEF Desk!New, DeskTypes
<1>4. \A repair, linked, soc \in BOOLEAN : Desk!Fresh(repair, linked, soc) \in Desk!Ticket
  BY DEF Desk!Fresh, Desk!Ticket, Desk!Statuses
\* A ticket is changed.
<1>5. ASSUME NEW i \in 1..Len(v1), NEW t \in Desk!Ticket, v1' = [v1 EXCEPT ![i] = t]
      PROVE  DeskTypes' /\ Len(v1') = Len(v1) /\ v1'[i] = t /\ \A k \in 1..Len(v1) \ {i} : v1'[k] = v1[k]
  BY <1>1, <1>5, ExceptSeq DEF DeskTypes
<1>6. ASSUME NEW repair \in BOOLEAN, NEW linked \in BOOLEAN, Desk!CreateTicket(repair, linked) PROVE Desk!Inv'
  <2>1. Types /\ UNCHANGED <<v2, v5, v6>> /\ Desk!New(Desk!Fresh(repair, linked, FALSE))
    BY <1>6 DEF Desk!CreateTicket, Desk!TypeOK
  <2>2. /\ DeskTypes' /\ Len(v1') = Len(v1) + 1
        /\ \A i \in 1..Len(v1) : i \in 1..Len(v1') /\ v1'[i] = v1[i]
    BY <1>3, <1>4, <2>1
  <2>3. v2' = "in_repair" /\ ~v6' => \E i \in 1..Len(v1') : Open(v1'[i])
    BY <1>1, <2>1, <2>2
  <2>4. v5' \in 0..Len(v1') /\ (v5' # 0 /\ ~v6' => v1'[v5'].linked)
    BY <1>1, <2>1, <2>2
  <2> QED
    BY <1>2, <2>1, <2>2, <2>3, <2>4
<1>7. ASSUME NEW repair \in BOOLEAN, Desk!TicketForAsset(repair) PROVE Desk!Inv'
  <2> DEFINE t == Desk!Fresh(repair, TRUE, FALSE)
  <2>1. Types /\ UNCHANGED <<v2, v6>> /\ Desk!New(t) /\ v5' = Len(v1) + 1
    BY <1>7 DEF Desk!TicketForAsset, Desk!TypeOK
  <2>2. t.linked /\ t \in Desk!Ticket
    BY <1>4 DEF Desk!Fresh
  <2> HIDE DEF t
  <2>3. /\ DeskTypes' /\ Len(v1') = Len(v1) + 1 /\ v1'[Len(v1')] = t
        /\ \A i \in 1..Len(v1) : i \in 1..Len(v1') /\ v1'[i] = v1[i]
    BY <1>3, <2>1, <2>2
  <2>4. v2' = "in_repair" /\ ~v6' => \E i \in 1..Len(v1') : Open(v1'[i])
    BY <1>1, <2>1, <2>3
  <2>5. v5' \in 0..Len(v1') /\ v1'[v5'].linked
    BY <1>1, <2>1, <2>2, <2>3
  <2> QED
    BY <1>2, <2>1, <2>3, <2>4, <2>5
<1>8. ASSUME NEW ok \in BOOLEAN, Desk!SetInRepair(ok) PROVE Desk!Inv'
  <2>1. Types /\ v1' = v1 /\ v5' = 0 /\ v5 # 0
    BY <1>8 DEF Desk!SetInRepair, Desk!TypeOK
  <2>2. v2' = "in_repair" /\ ~v6' => \E i \in 1..Len(v1) : Open(v1[i])
    <3>1. ASSUME ~ok PROVE v2' = v2 /\ (v6' <=> v6)
      BY <1>8, <3>1 DEF Desk!SetInRepair
    <3>2. ASSUME ok, ~v6' PROVE Open(v1[v5]) /\ v5 \in 1..Len(v1)
      <4>1. ~v6 /\ v1[v5].live /\ v1[v5].repair /\ v1[v5].status \notin Desk!Over
        BY <1>8, <3>2 DEF Desk!SetInRepair
      <4> QED
        BY <1>1, <2>1, <4>1
    <3> QED
      BY <1>1, <3>1, <3>2
  <2> QED
    BY <1>1, <1>2, <2>1, <2>2 DEF DeskTypes
<1>9. ASSUME NEW i \in 1..Len(v1), Desk!Detach(i) PROVE Desk!Inv'
  <2>1. Types /\ v6' /\ v5' = v5
    BY <1>9 DEF Desk!Detach, Desk!TypeOK
  <2>2. v1[i] \in Desk!Ticket
    BY <1>1 DEF DeskTypes
  <2>3. /\ [v1[i] EXCEPT !.linked = FALSE] \in Desk!Ticket /\ [v1[i] EXCEPT !.repair = ~@] \in Desk!Ticket
        /\ [Desk!Fresh(FALSE, FALSE, FALSE) EXCEPT !.live = FALSE] \in Desk!Ticket
    BY <2>2, <1>4 DEF Desk!Ticket
  <2>4. \E t \in Desk!Ticket : v1' = [v1 EXCEPT ![i] = t]
    BY <1>9, <2>3 DEF Desk!Detach
  <2> QED
    BY <1>1, <1>2, <1>5, <2>1, <2>4
<1>10. ASSUME NEW i \in 1..Len(v1), Desk!LinkAsset(i) PROVE Desk!Inv'
  <2>1. Types /\ UNCHANGED <<v2, v5, v6>> /\ ~v1[i].linked
    BY <1>10 DEF Desk!LinkAsset, Desk!TypeOK
  <2> DEFINE t == [v1[i] EXCEPT !.linked = TRUE]
  <2>2. v1[i] \in Desk!Ticket
    BY <1>1 DEF DeskTypes
  <2>3. /\ t \in Desk!Ticket /\ t.linked /\ v1' = [v1 EXCEPT ![i] = t]
        /\ (t.repair <=> v1[i].repair) /\ (t.live <=> v1[i].live) /\ t.status = v1[i].status
    BY <1>10, <2>2 DEF Desk!Ticket, Desk!LinkAsset
  <2> HIDE DEF t
  <2>4. DeskTypes' /\ Len(v1') = Len(v1) /\ v1'[i] = t /\ \A k \in 1..Len(v1) \ {i} : v1'[k] = v1[k]
    BY <1>5, <2>3
  <2>5. \A k \in 1..Len(v1) : (Open(v1[k]) => Open(v1'[k])) /\ (v1[k].linked => v1'[k].linked)
    BY <2>3, <2>4
  <2> QED
    BY <1>1, <1>2, <2>1, <2>4, <2>5
<1>11. ASSUME NEW i \in 1..Len(v1), NEW status \in Desk!Statuses, Desk!SetStatus(i, status) PROVE Desk!Inv'
  <2> DEFINE t == [v1[i] EXCEPT !.status = status]
  <2>1. v1[i] \in Desk!Ticket
    BY <1>1 DEF DeskTypes
  <2>2. /\ t \in Desk!Ticket /\ v1' = [v1 EXCEPT ![i] = t] /\ t.status = status
        /\ (t.linked <=> v1[i].linked) /\ (t.repair <=> v1[i].repair) /\ (t.live <=> v1[i].live)
    BY <1>11, <2>1 DEF Desk!Ticket, Desk!SetStatus
  <2> HIDE DEF t
  <2>3. Types /\ v5' = v5 /\ (v6' <=> v6 \/ status = "cancelled")
    BY <1>11 DEF Desk!SetStatus, Desk!TypeOK
  <2>4. /\ v2' = "in_repair" => v2 = "in_repair"
        /\ v2 = "in_repair" /\ status \in {"resolved", "closed"} /\ v1[i].linked /\ v1[i].repair => v2' # "in_repair"
    BY <1>11 DEF Desk!SetStatus, Desk!Restores
  <2>6. DeskTypes' /\ Len(v1') = Len(v1) /\ v1'[i] = t /\ \A k \in 1..Len(v1) \ {i} : v1'[k] = v1[k]
    BY <1>5, <2>2
  <2>7. v5' # 0 /\ ~v6' => v1'[v5'].linked
    BY <1>1, <2>2, <2>3, <2>6
  <2>5. v2' = "in_repair" /\ ~v6' => \E k \in 1..Len(v1') : Open(v1'[k])
    <3> SUFFICES ASSUME v2' = "in_repair", ~v6' PROVE \E k \in 1..Len(v1') : Open(v1'[k])
      OBVIOUS
    <3>1. PICK k \in 1..Len(v1) : Open(v1[k])
      BY <1>1, <2>3, <2>4
    <3>2. CASE k = i
      <4>1. status \notin Desk!Over
        BY <2>3, <2>4, <3>1, <3>2 DEF Desk!Over
      <4> QED
        BY <1>5, <2>2, <3>1, <3>2, <4>1
    <3> QED
      BY <1>5, <2>2, <3>1, <3>2
  <2> QED
    BY <1>1, <1>2, <2>3, <2>5, <2>6, <2>7
<1>12. ASSUME NEW status \in {"in_stock", "deployed", "in_repair", "disposed"}, NEW stamps \in BOOLEAN, Desk!ChangeStatus(status, stamps)
       PROVE  Desk!Inv'
  <2>1. Types /\ UNCHANGED <<v5, v6>> /\ v2' = status
    BY <1>12 DEF Desk!ChangeStatus, Desk!TypeOK
  <2>2. CASE status \in {"in_repair", "disposed"}
    <3> DEFINE t == Desk!Fresh(TRUE, TRUE, FALSE)
    <3>0. t \in Desk!Ticket
      BY <1>4
    <3>1. Desk!New(t) /\ Open(t)
      BY <1>12, <2>2 DEF Desk!ChangeStatus, Desk!Fresh, Desk!Over
    <3> HIDE DEF t
    <3>2. /\ DeskTypes' /\ Len(v1') = Len(v1) + 1 /\ v1'[Len(v1')] = t
          /\ \A i \in 1..Len(v1) : i \in 1..Len(v1') /\ v1'[i] = v1[i]
      BY <1>3, <3>0, <3>1
    <3>3. Len(v1') \in 1..Len(v1') /\ Open(v1'[Len(v1')])
      BY <1>1, <3>1, <3>2
    <3>4. v5' \in 0..Len(v1') /\ (v5' # 0 /\ ~v6' => v1'[v5'].linked)
      BY <1>1, <2>1, <3>2
    <3> QED
      BY <1>2, <2>1, <3>2, <3>3, <3>4
  <2>3. CASE status \notin {"in_repair", "disposed"}
    <3>1. v1' = v1
      BY <1>12, <2>3 DEF Desk!ChangeStatus
    <3> QED
      BY <1>1, <1>2, <2>1, <2>3, <3>1 DEF DeskTypes
  <2> QED
    BY <2>2, <2>3
<1>13. ASSUME Desk!ChangeStatusAlone PROVE Desk!Inv'
  BY <1>1, <1>2, <1>13 DEF Desk!ChangeStatusAlone, Desk!TypeOK, DeskTypes
<1>14. ASSUME NEW status \in Desk!Incidents, Desk!IncidentMoves(status) PROVE Desk!Inv'
  <2>1. Types /\ UNCHANGED <<v1, v2, v5, v6>>
    BY <1>14 DEF Desk!IncidentMoves, Desk!TypeOK
  <2> QED
    BY <1>1, <1>2, <2>1 DEF DeskTypes
<1>15. ASSUME NEW i \in 1..Len(v1), Desk!ToIncident(i) PROVE Desk!Inv'
  <2>0. v1[i] \in Desk!Ticket
    BY <1>1 DEF DeskTypes
  <2>1. v1[i].status \in Desk!Statuses
    BY <2>0 DEF Desk!Ticket
  <2>2. Types /\ UNCHANGED <<v1, v2, v5, v6>>
    BY <1>15, <2>1 DEF Desk!ToIncident, Desk!TypeOK, Desk!Incidents, Desk!Statuses
  <2> QED
    BY <1>1, <1>2, <2>2 DEF DeskTypes
<1>16. ASSUME Desk!FromIncident PROVE Desk!Inv'
  <2>1. Types /\ UNCHANGED <<v2, v5>>
    BY <1>16 DEF Desk!FromIncident, Desk!TypeOK
  <2>2. ASSUME Desk!New(Desk!Fresh(TRUE, FALSE, TRUE)), UNCHANGED v6 PROVE Desk!Inv'
    <3>2. /\ DeskTypes' /\ Len(v1') = Len(v1) + 1
          /\ \A i \in 1..Len(v1) : i \in 1..Len(v1') /\ v1'[i] = v1[i]
      BY <1>3, <1>4, <2>2
    <3>3. v2' = "in_repair" /\ ~v6' => \E i \in 1..Len(v1') : Open(v1'[i])
      BY <1>1, <2>1, <2>2, <3>2
    <3>4. v5' \in 0..Len(v1') /\ (v5' # 0 /\ ~v6' => v1'[v5'].linked)
      BY <1>1, <2>1, <2>2, <3>2
    <3> QED
      BY <1>2, <2>1, <3>2, <3>3, <3>4
  <2>3. ASSUME NEW i \in Desk!Live, NEW mapped \in Desk!Statuses, v1' = [v1 EXCEPT ![i].status = mapped], v6' PROVE Desk!Inv'
    <3> DEFINE t == [v1[i] EXCEPT !.status = mapped]
    <3>1. i \in 1..Len(v1)
      BY DEF Desk!Live
    <3>0. v1[i] \in Desk!Ticket
      BY <1>1, <3>1 DEF DeskTypes
    <3>2. t \in Desk!Ticket /\ v1' = [v1 EXCEPT ![i] = t]
      BY <2>3, <3>0 DEF Desk!Ticket
    <3> HIDE DEF t
    <3> QED
      BY <1>1, <1>2, <1>5, <2>1, <2>3, <3>1, <3>2
  <2>4. (IF v4 = "open" THEN "in_progress" ELSE v4) \in Desk!Statuses
    BY DEF Desk!TypeOK, Desk!Incidents, Desk!Statuses
  <2> QED
    BY <1>16, <2>2, <2>3, <2>4 DEF Desk!FromIncident
<1> QED
  BY <1>6, <1>7, <1>8, <1>9, <1>10, <1>11, <1>12, <1>13, <1>14, <1>15, <1>16 DEF Desk!Next

\* However tickets and changes of the asset interleave, an asset in repair has a linked ticket
\* whose end brings it back, unless it was sent without one or the ticket was taken away.
THEOREM RepairHasTicketCorrect == OfficeSpec => []RepairHasTicket
<1> DEFINE I == focus = "desk" => Desk!Inv
<1>1. OfficeInit => I
  <2> SUFFICES ASSUME Desk!Init PROVE Desk!Inv
    BY DEF OfficeInit
  <2>1. v2 = "in_stock" /\ v3 = FALSE /\ v4 = "open" /\ v5 = 0 /\ v6 = FALSE
    BY DEF Desk!Init
  <2>2. v1 \in Seq(Desk!Ticket) /\ Len(v1) = 0
    BY DEF Desk!Init
  <2>3. v5 \in 0..Len(v1) /\ Len(v1) <= MaxTickets
    BY <2>1, <2>2, TicketsAssumption
  <2>4. v3 \in BOOLEAN /\ v6 \in BOOLEAN
    BY <2>1
  <2>5. Desk!TypeOK
    BY <2>1, <2>2, <2>3, <2>4 DEF Desk!TypeOK, Desk!Incidents
  <2> QED
    BY <2>1, <2>5 DEF Desk!Inv, Desk!RepairHasTicket
<1>2. I /\ [OfficeNext]_OfficeVars => I'
  <2> SUFFICES ASSUME Desk!Inv, [OfficeNext]_OfficeVars, focus = "desk" PROVE Desk!Inv'
    BY Focused
  <2>1. CASE Desk!Next
    BY <2>1, DeskStep
  <2>2. CASE UNCHANGED slots
    BY <2>2 DEF slots, Desk!Inv, Desk!TypeOK, Desk!RepairHasTicket, Desk!Live
  <2> QED
    BY <2>1, <2>2, Focused
<1>3. I => RepairHasTicket
  BY DEF RepairHasTicket, Desk!Inv
<1> QED
  BY <1>1, <1>2, <1>3, PTL DEF OfficeSpec

---------------------------------------------------------------------------
(* Compliance *)

\* What is counted among the controls is at most their number.
LEMMA AuditCounts ==
  /\ Audit!Cardinality(Controls) \in Nat
  /\ \A S \in SUBSET Controls : Audit!Cardinality(S) \in 0..Audit!Cardinality(Controls)
<1>1. \A S : Audit!Cardinality(S) = Cardinality(S)
  BY DEF Audit!Cardinality, Cardinality
<1>2. Cardinality(Controls) \in Nat
  BY ControlsAssumption, FS_CardinalityType
<1>3. ASSUME NEW S \in SUBSET Controls PROVE Cardinality(S) \in 0..Cardinality(Controls)
  BY <1>2, ControlsAssumption, FS_Subset, FS_CardinalityType
<1> QED
  BY <1>1, <1>2, <1>3

LEMMA AuditStep ==
  ASSUME Audit!Inv, Audit!Next
  PROVE  Audit!Inv'
<1> DEFINE N == Audit!Cardinality(Controls)
           Exists(a) == v2[a].status # "absent"
           Last == \A a \in v6 : v6 = {a} /\ v2[a].status # "absent"
           Alone(t) == \A u \in Completions \ {t} : v5[u] = Audit!Idle
           Ahead(t) == IF v5[t].phase = "idle" THEN v5[t] = Audit!Idle
                       ELSE /\ \E a \in v5[t].of : v5[t].of = {a} /\ v2[a].status # "absent"
                            /\ ~v7 => Alone(t)
                            /\ v5[t].phase \in {"score", "write"} /\ ~v7 => v6 = v5[t].of
                            /\ v5[t].phase = "write" /\ ~v7 => \A a \in v6 : v5[t].counts = v2[a].counts
           Scores == ~v7 /\ (\A t \in Completions : v5[t] = Audit!Idle) /\ v6 # {} => \E a \in v6 : v4.of = {a} /\ v4.counts = v2[a].counts
           Assessment == [status : {"absent", "pending", "in_progress", "completed", "failed"}, total : 0..N, counts : Audit!Counts]
           Thread == [phase : {"idle", "commit", "score", "write"}, of : SUBSET Assessments, counts : Audit!Counts]
<1>1. Audit!TypeOK /\ Last /\ (\A t \in Completions : Ahead(t)) /\ Scores
  BY DEF Audit!Inv, Audit!ScoreFollowsLast
<1>2. /\ v1 \subseteq Controls /\ v2 \in [Assessments -> Assessment] /\ v5 \in [Completions -> Thread] /\ v6 \subseteq Assessments
      /\ v3 \in [Assessments -> [Controls -> {"none"} \union Audit!Results]] /\ v7 \in BOOLEAN
      /\ v4 \in [of : SUBSET Assessments, counts : Audit!Counts] /\ \A t \in Completions : v5[t] \in Thread
  BY <1>1 DEF Audit!TypeOK
<1>3. ASSUME Audit!TypeOK', Last', \A t \in Completions : Ahead(t)', Scores' PROVE Audit!Inv'
  <2>1. Audit!ScoreFollowsLast'
    BY <1>3 DEF Audit!ScoreFollowsLast
  <2> QED
    BY <1>3, <2>1 DEF Audit!Inv
<1>4. N \in Nat /\ 0 \in 0..N /\ \A S \in SUBSET Controls : Audit!Cardinality(S) \in 0..N
  BY AuditCounts
<1>5. Audit!Zero \in Audit!Counts
  BY <1>4 DEF Audit!Zero, Audit!Counts
<1>16. Audit!Idle \in Thread /\ Audit!Idle.phase = "idle"
  BY <1>5 DEF Audit!Idle
<1> HIDE DEF N, Last, Ahead, Scores
\* The threads, the score and the last assessment stay as they are.
<1>6. ASSUME UNCHANGED <<v4, v5, v6>>, v7' \in BOOLEAN, v7 => v7', v1' \subseteq Controls, v2' \in [Assessments -> Assessment],
             v3' \in [Assessments -> [Controls -> {"none"} \union Audit!Results]],
             \A a \in Assessments : Exists(a) => v2'[a].status # "absent" /\ v2'[a].counts = v2[a].counts
      PROVE  Audit!Inv'
  <2>1. Audit!TypeOK'
    BY <1>2, <1>6 DEF Audit!TypeOK, N
  <2>2. Last'
    BY <1>1, <1>2, <1>6 DEF Last
  <2>3. Scores'
    BY <1>1, <1>2, <1>6 DEF Last, Scores
  <2>4. ASSUME NEW t \in Completions PROVE Ahead(t)'
    <3>1. CASE v5[t].phase = "idle"
      BY <1>1, <1>6, <3>1 DEF Ahead
    <3>2. CASE v5[t].phase # "idle"
      <4>1. PICK a \in v5[t].of : v5[t].of = {a} /\ Exists(a)
        BY <1>1, <3>2 DEF Ahead
      <4>2. a \in Assessments /\ v2'[a].status # "absent" /\ v5'[t] = v5[t]
        BY <1>2, <1>6, <4>1
      <4>3. v5[t].phase = "write" /\ ~v7' => \A b \in v6 : v5[t].counts = v2'[b].counts
        BY <1>1, <1>2, <1>6, <3>2 DEF Ahead, Last
      <4>4. v5[t].phase \in {"score", "write"} /\ ~v7' => v6 = v5[t].of
        BY <1>1, <1>6, <3>2 DEF Ahead
      <4>5. ~v7' => Alone(t)'
        BY <1>1, <1>6, <3>2 DEF Ahead
      <4> QED
        BY <1>6, <3>2, <4>1, <4>2, <4>3, <4>4, <4>5 DEF Ahead
    <3> QED
      BY <3>1, <3>2
  <2> QED
    BY <1>3, <2>1, <2>2, <2>3, <2>4
<1>7. ASSUME NEW c \in Controls, Audit!CreateControl(c) PROVE Audit!Inv'
  BY <1>2, <1>6, <1>7 DEF Audit!CreateControl
<1>8. ASSUME NEW c \in Controls, Audit!DeleteControl(c) PROVE Audit!Inv'
  <2>1. v3' \in [Assessments -> [Controls -> {"none"} \union Audit!Results]]
    BY <1>2, <1>8 DEF Audit!DeleteControl
  <2>2. v7' \in BOOLEAN /\ (v7 => v7') /\ v1' \subseteq Controls /\ UNCHANGED <<v2, v4, v5, v6>>
    BY <1>2, <1>8 DEF Audit!DeleteControl
  <2> QED
    BY <1>2, <1>6, <2>1, <2>2
<1>9. ASSUME NEW a \in Assessments, NEW b \in BOOLEAN, Audit!CreateAssessment(a, b) PROVE Audit!Inv'
  <2> DEFINE x == [status |-> IF b THEN "in_progress" ELSE "pending", total |-> Audit!Cardinality(v1),
                   counts |-> [Audit!Zero EXCEPT !.open = Audit!Cardinality(v1)]]
  <2>1. Audit!Cardinality(v1) \in 0..N
    BY <1>2, <1>4
  <2>2. [Audit!Zero EXCEPT !.open = Audit!Cardinality(v1)] \in Audit!Counts
    BY <1>4, <2>1 DEF Audit!Zero, Audit!Counts, N
  <2>3. x \in Assessment
    BY <2>1, <2>2
  <2>4. v2' = [v2 EXCEPT ![a] = x] /\ ~Exists(a) /\ UNCHANGED <<v1, v3, v4, v5, v6, v7>>
    BY <1>9 DEF Audit!CreateAssessment
  <2> HIDE DEF x
  <2> QED
    BY <1>2, <1>6, <2>3, <2>4
<1>10. ASSUME NEW a \in Assessments, NEW status \in {"in_progress", "failed"}, v2' = [v2 EXCEPT ![a].status = status],
              UNCHANGED <<v1, v3, v4, v5, v6, v7>>
       PROVE  Audit!Inv'
  <2> DEFINE x == [v2[a] EXCEPT !.status = status]
  <2>1. v2[a] \in Assessment
    BY <1>2
  <2>2. x \in Assessment /\ x.status # "absent" /\ x.counts = v2[a].counts
    BY <2>1
  <2>3. v2' = [v2 EXCEPT ![a] = x]
    BY <1>10
  <2> HIDE DEF x
  <2> QED
    BY <1>2, <1>6, <1>10, <2>2, <2>3
<1>11. ASSUME NEW a \in Assessments, NEW c \in Controls, NEW s \in Audit!Given, Audit!UpsertResult(a, c, s) PROVE Audit!Inv'
  <2>1. v3' \in [Assessments -> [Controls -> {"none"} \union Audit!Results]]
    BY <1>2, <1>11 DEF Audit!UpsertResult, Audit!Given, Audit!Results
  <2> QED
    BY <1>2, <1>6, <1>11, <2>1 DEF Audit!UpsertResult
\* A thread takes a step. If another is at work, the two have met.
<1>12. ASSUME NEW t \in Completions, NEW x \in Thread, v5' = [v5 EXCEPT ![t] = x], v7' \in BOOLEAN, UNCHANGED <<v1, v3>>,
              v2' \in [Assessments -> Assessment], \A a \in Assessments : Exists(a) => v2'[a].status # "absent",
              v6' \subseteq Assessments, v4' \in [of : SUBSET Assessments, counts : Audit!Counts],
              ~v7' => Alone(t)
       PROVE  /\ Audit!TypeOK' /\ v5'[t] = x
              /\ ~v7' => Alone(t)'
              /\ \A u \in Completions \ {t} : Ahead(u)'
  <2>1. Audit!TypeOK' /\ v5'[t] = x /\ \A u \in Completions \ {t} : v5'[u] = v5[u]
    BY <1>2, <1>12 DEF Audit!TypeOK, N
  <2>2. ~v7' => Alone(t)'
    BY <1>12, <2>1
  <2>3. ASSUME NEW u \in Completions \ {t} PROVE Ahead(u)'
    <3>1. v5'[u] = v5[u]
      BY <2>1
    <3>2. CASE v5[u].phase = "idle"
      BY <1>1, <3>1, <3>2 DEF Ahead
    <3>3. CASE v5[u].phase # "idle"
      <4>1. PICK a \in v5[u].of : v5[u].of = {a} /\ Exists(a)
        BY <1>1, <3>3 DEF Ahead
      <4>2. a \in Assessments /\ v2'[a].status # "absent"
        BY <1>2, <1>12, <4>1
      <4>3. v7'
        BY <1>12, <1>16, <3>3
      <4> QED
        BY <3>1, <3>3, <4>1, <4>2, <4>3 DEF Ahead
    <3> QED
      BY <3>2, <3>3
  <2> QED
    BY <2>1, <2>2, <2>3
\* Whoever is at work is alone until two meet.
<1>20. ASSUME NEW t \in Completions, v5[t].phase # "idle" PROVE ~v7 => Alone(t)
  BY <1>1, <1>20 DEF Ahead
<1>13. ASSUME NEW t \in Completions, NEW a \in Assessments, Audit!Complete(t, a) PROVE Audit!Inv'
  <2> DEFINE x == [phase |-> "commit", of |-> {a}, counts |-> Audit!Counted(a)]
  <2>1. Audit!Counted(a) \in Audit!Counts
    <3>1. \A statuses : Audit!Of(a, statuses) \in 0..N
      BY <1>4 DEF Audit!Of
    <3>2. v2[a].total \in 0..N
      BY <1>2
    <3>3. v2[a].total > Audit!Of(a, Audit!Results) => v2[a].total - Audit!Of(a, Audit!Results) \in 0..N
      BY <1>4, <3>1, <3>2
    <3> QED
      BY <1>4, <3>1, <3>3 DEF Audit!Counted, Audit!Counts, N
  <2>2. x \in Thread /\ x.phase = "commit" /\ x.of = {a} /\ x # Audit!Idle
    BY <2>1 DEF Audit!Idle
  <2>3. /\ v5' = [v5 EXCEPT ![t] = x] /\ v7' \in BOOLEAN /\ Exists(a) /\ UNCHANGED <<v1, v2, v3, v4, v6>>
        /\ ~v7' => Alone(t)
    BY <1>13 DEF Audit!Complete
  <2> HIDE DEF x
  <2>4. Audit!TypeOK' /\ v5'[t] = x /\ (~v7' => Alone(t)') /\ \A u \in Completions \ {t} : Ahead(u)'
    BY <1>2, <1>12, <2>2, <2>3
  <2>5. Last'
    BY <1>1, <2>3 DEF Last
  <2>6. Ahead(t)' /\ Scores'
    BY <2>2, <2>3, <2>4 DEF Ahead, Scores
  <2> QED
    BY <1>3, <2>4, <2>5, <2>6
<1>14. ASSUME NEW t \in Completions, Audit!CommitCounts(t) PROVE Audit!Inv'
  <2>1. PICK a \in v5[t].of : /\ v2' = [v2 EXCEPT ![a].status = "completed", ![a].counts = v5[t].counts]
                              /\ v6' = {a}
    BY <1>14 DEF Audit!CommitCounts
  <2>2. v5[t].of = {a} /\ a \in Assessments /\ v5[t].counts \in Audit!Counts /\ v2[a] \in Assessment
    BY <1>1, <1>2, <1>14, <2>1 DEF Ahead, Audit!CommitCounts
  <2> DEFINE y == [[v2[a] EXCEPT !.status = "completed"] EXCEPT !.counts = v5[t].counts]
             x == [v5[t] EXCEPT !.phase = "score"]
  <2>3. y \in Assessment /\ y.status = "completed"
    BY <2>2
  <2>4. v2' = [v2 EXCEPT ![a] = y]
    BY <1>2, <2>1, <2>2
  <2>5. x \in Thread /\ x.phase = "score" /\ x.of = {a}
    BY <1>2, <2>2
  <2>6. x # Audit!Idle
    BY <2>5 DEF Audit!Idle
  <2>7. v5' = [v5 EXCEPT ![t] = x] /\ UNCHANGED <<v1, v3, v4, v7>>
    BY <1>14 DEF Audit!CommitCounts
  <2> HIDE DEF x, y
  <2>8. v2' \in [Assessments -> Assessment] /\ v2'[a].status # "absent"
    BY <1>2, <2>2, <2>3, <2>4
  <2>9. Audit!TypeOK' /\ v5'[t] = x /\ (~v7' => Alone(t)') /\ \A u \in Completions \ {t} : Ahead(u)'
    <3>1. \A b \in Assessments : Exists(b) => v2'[b].status # "absent"
      BY <1>2, <2>3, <2>4
    <3>2. ~v7' => Alone(t)
      BY <1>14, <1>20, <2>7 DEF Audit!CommitCounts
    <3>3. v6' \subseteq Assessments /\ v4' \in [of : SUBSET Assessments, counts : Audit!Counts] /\ v7' \in BOOLEAN
      BY <1>2, <2>1, <2>2, <2>7
    <3> QED
      BY <1>12, <2>5, <2>7, <2>8, <3>1, <3>2, <3>3
  <2>10. Last' /\ Ahead(t)' /\ Scores'
    BY <2>1, <2>5, <2>6, <2>8, <2>9 DEF Last, Ahead, Scores
  <2> QED
    BY <1>3, <2>9, <2>10
<1>15. ASSUME NEW t \in Completions, Audit!ReadScore(t) PROVE Audit!Inv'
  <2>1. PICK a \in v5[t].of : v5' = [v5 EXCEPT ![t] = [phase |-> "write", of |-> {a}, counts |-> v2[a].counts]]
    BY <1>15 DEF Audit!ReadScore, Audit!Scored
  <2>2. /\ v5[t].of = {a} /\ a \in Assessments /\ Exists(a) /\ v2[a].counts \in Audit!Counts
        /\ ~v7 => v6 = {a}
    BY <1>1, <1>2, <1>15, <2>1 DEF Ahead, Audit!ReadScore
  <2> DEFINE x == [phase |-> "write", of |-> {a}, counts |-> v2[a].counts]
  <2>3. x \in Thread /\ x.phase = "write" /\ x.of = {a} /\ x.counts = v2[a].counts /\ x # Audit!Idle
    BY <2>2 DEF Audit!Idle
  <2>4. v5' = [v5 EXCEPT ![t] = x] /\ UNCHANGED <<v1, v2, v3, v4, v6, v7>>
    BY <1>15, <2>1 DEF Audit!ReadScore
  <2> HIDE DEF x
  <2>5. Audit!TypeOK' /\ v5'[t] = x /\ (~v7' => Alone(t)') /\ \A u \in Completions \ {t} : Ahead(u)'
    <3>1. ~v7' => Alone(t)
      BY <1>15, <1>20, <2>4 DEF Audit!ReadScore
    <3> QED
      BY <1>2, <1>12, <2>3, <2>4, <3>1
  <2>6. Last'
    BY <1>1, <2>4 DEF Last
  <2>7. Ahead(t)' /\ Scores'
    BY <2>2, <2>3, <2>4, <2>5 DEF Ahead, Scores
  <2> QED
    BY <1>3, <2>5, <2>6, <2>7
<1>17. ASSUME NEW t \in Completions, NEW ok \in BOOLEAN, Audit!WriteScore(t, ok) PROVE Audit!Inv'
  <2>1. /\ v5' = [v5 EXCEPT ![t] = Audit!Idle] /\ v7' \in BOOLEAN /\ UNCHANGED <<v1, v2, v3, v6>>
        /\ ~v7' => ~v7 /\ v4' = [of |-> v5[t].of, counts |-> v5[t].counts]
        /\ v4' = [of |-> v5[t].of, counts |-> v5[t].counts] \/ v4' = v4
        /\ v5[t].phase = "write"
    BY <1>2, <1>17 DEF Audit!WriteScore
  <2>2. [of |-> v5[t].of, counts |-> v5[t].counts] \in [of : SUBSET Assessments, counts : Audit!Counts]
    BY <1>2
  <2>3. Audit!TypeOK' /\ v5'[t] = Audit!Idle /\ (~v7' => Alone(t)') /\ \A u \in Completions \ {t} : Ahead(u)'
    <3>1. ~v7' => Alone(t)
      BY <1>20, <2>1
    <3> QED
      BY <1>2, <1>12, <1>16, <2>1, <2>2, <3>1
  <2>4. Last' /\ Ahead(t)'
    BY <1>1, <1>16, <2>1, <2>3 DEF Last, Ahead
  <2>5. Scores'
    <3> SUFFICES ASSUME ~v7' PROVE \E a \in v6' : v4'.of = {a} /\ v4'.counts = v2'[a].counts
      BY DEF Scores
    <3>1. PICK a \in v5[t].of : v5[t].of = {a}
      BY <1>1, <2>1 DEF Ahead
    <3>2. v6 = {a} /\ v5[t].counts = v2[a].counts
      BY <1>1, <2>1, <3>1 DEF Ahead
    <3> QED
      BY <2>1, <3>1, <3>2
  <2> QED
    BY <1>3, <2>3, <2>4, <2>5
<1>18. ASSUME NEW t \in Completions, Audit!Dies(t) PROVE Audit!Inv'
  <2>1. v5' = [v5 EXCEPT ![t] = Audit!Idle] /\ v7' = TRUE /\ UNCHANGED <<v1, v2, v3, v4, v6>>
    BY <1>18 DEF Audit!Dies
  <2>2. Audit!TypeOK' /\ v5'[t] = Audit!Idle /\ \A u \in Completions \ {t} : Ahead(u)'
    BY <1>2, <1>12, <1>16, <2>1
  <2>3. Last' /\ Ahead(t)' /\ Scores'
    BY <1>1, <1>16, <2>1, <2>2 DEF Last, Ahead, Scores
  <2> QED
    BY <1>3, <2>2, <2>3
<1>19. ASSUME NEW a \in Assessments, Audit!StartAssessment(a) \/ Audit!UpdateAssessment(a, "failed") PROVE Audit!Inv'
  BY <1>10, <1>19 DEF Audit!StartAssessment, Audit!UpdateAssessment
<1> QED
  BY <1>7, <1>8, <1>9, <1>11, <1>13, <1>14, <1>15, <1>17, <1>18, <1>19 DEF Audit!Next

\* Between completions the framework's score is that of the assessment completed last, unless
\* completions overlapped or one ended between its transactions.
THEOREM ScoreFollowsLastCorrect == OfficeSpec => []ScoreFollowsLast
<1> DEFINE I == focus = "compliance" => Audit!Inv
<1>1. OfficeInit => I
  <2> SUFFICES ASSUME Audit!Init PROVE Audit!Inv
    BY DEF OfficeInit
  <2>1. Audit!Zero \in Audit!Counts /\ 0 \in 0..Audit!Cardinality(Controls)
    BY AuditCounts DEF Audit!Zero, Audit!Counts
  <2>2. Audit!NoScore \in [of : SUBSET Assessments, counts : Audit!Counts]
    BY <2>1 DEF Audit!NoScore
  <2>3. Audit!Idle \in [phase : {"idle", "commit", "score", "write"}, of : SUBSET Assessments, counts : Audit!Counts]
    BY <2>1 DEF Audit!Idle
  <2>4. v6 = {} /\ \A t \in Completions : v5[t] = Audit!Idle
    BY DEF Audit!Init
  <2>5. Audit!TypeOK
    BY <2>1, <2>2, <2>3 DEF Audit!TypeOK, Audit!Init
  <2>6. Audit!ScoreFollowsLast
    BY <2>4 DEF Audit!ScoreFollowsLast
  <2>7. Audit!Idle.phase = "idle"
    BY DEF Audit!Idle
  <2> QED
    BY <2>4, <2>5, <2>6, <2>7 DEF Audit!Inv
<1>2. I /\ [OfficeNext]_OfficeVars => I'
  <2> SUFFICES ASSUME Audit!Inv, [OfficeNext]_OfficeVars, focus = "compliance" PROVE Audit!Inv'
    BY Focused
  <2>1. CASE Audit!Next
    BY <2>1, AuditStep
  <2>2. CASE UNCHANGED slots
    BY <2>2 DEF slots, Audit!Inv, Audit!TypeOK, Audit!ScoreFollowsLast
  <2> QED
    BY <2>1, <2>2, Focused
<1>3. I => ScoreFollowsLast
  BY DEF ScoreFollowsLast, Audit!Inv
<1> QED
  BY <1>1, <1>2, <1>3, PTL DEF OfficeSpec

---------------------------------------------------------------------------
(* Msp *)

LEMMA MspStep ==
  ASSUME Customers!Inv, Customers!Next
  PROVE  Customers!Inv'
<1> USE NothingAssumption
<1> DEFINE Req == [step : {"idle", "insert", "wizard site", "wizard contact"}, new : Customers!Row]
           SiteOf(s, o) == s \in Rows /\ v3[s].kind = "site" /\ v3[s].org = o
           Stands(r) == /\ v3[r].org \in v1
                        /\ v3[r].site # Nothing => /\ v3[r].site \in Rows /\ v3[v3[r].site].kind = "site"
                                                   /\ v3[r].kind = "department" /\ r \notin v7 => v3[v3[r].site].org = v3[r].org
           Placed(q) == q.new.site # Nothing /\ (q.new.kind = "department" \/ q.step = "wizard contact")
                          => v3[q.new.site] = Customers!NoRow \/ SiteOf(q.new.site, q.new.org)
           Shaped(q) == /\ IF q.step = "idle" THEN q = Customers!Idle ELSE q.new.org # Nothing
                        /\ q.step = "wizard site" => q.new.kind = "site" /\ q.new.site = Nothing
                        /\ q.step = "wizard contact" => q.new.kind = "contact" /\ q.new.site # Nothing
           Busy(t, o) == v4[t].step \in {"wizard site", "wizard contact"} /\ v4[t].new.org = o
           Contact(c, o) == v3[c].kind = "contact" /\ v3[c].org = o /\ SiteOf(v3[c].site, o)
           Parents == \A o \in Orgs : v2[o] \in v1 \union {Nothing}
           Rows_ == \A r \in Rows : v3[r] # Customers!NoRow => Stands(r)
           Own == \A t \in Threads : Shaped(v4[t]) /\ Placed(v4[t])
           Made == \A o \in (v5 \intersect v1) \ v6 : (\E t \in Threads : Busy(t, o)) \/ \E c \in Rows : Contact(c, o)
           Types == /\ v1 \subseteq Orgs /\ v2 \in [Orgs -> Orgs \union {Nothing}] /\ v3 \in [Rows -> Customers!Row]
                    /\ v4 \in [Threads -> Req] /\ v5 \subseteq Orgs /\ v6 \subseteq Orgs /\ v7 \subseteq Rows
<1>1. Types /\ Parents /\ Rows_ /\ Own /\ Made
  <2>1. Types
    BY DEF Customers!Inv, Customers!TypeOK
  <2>2. Parents /\ Rows_
    BY <2>1 DEF Customers!Inv, Customers!CustomersAreWhole, Customers!NothingDangles, Customers!RowsOf, Customers!IsSiteOf
  <2>3. Own
    BY <2>1 DEF Customers!Inv, Customers!SitesAreOwn, Customers!RowsOf, Customers!IsSiteOf
  <2>4. Made
    BY <2>1 DEF Customers!Inv, Customers!CustomersAreWhole, Customers!RowsOf, Customers!IsSiteOf
  <2> QED
    BY <2>1, <2>2, <2>3, <2>4
<1>2. ASSUME Types', Parents', Rows_', Own', Made' PROVE Customers!Inv'
  <2>1. Customers!TypeOK'
    BY <1>2 DEF Customers!TypeOK
  <2>2. Customers!NothingDangles'
    BY <1>2 DEF Customers!NothingDangles, Customers!RowsOf, Customers!IsSiteOf
  <2>3. Customers!SitesAreOwn'
    BY <1>2 DEF Customers!SitesAreOwn, Customers!RowsOf, Customers!IsSiteOf
  <2>4. Customers!CustomersAreWhole'
    <3> SUFFICES ASSUME NEW o \in ((v5 \intersect v1) \ v6)'
                 PROVE  \/ \E t \in Threads : v4'[t].step \in {"wizard site", "wizard contact"} /\ v4'[t].new.org = o
                        \/ \E c \in Customers!RowsOf("contact")' : v3'[c].org = o /\ v3'[c].site # Nothing
                                                                   /\ Customers!IsSiteOf(v3[c].site, o)'
      BY <2>2 DEF Customers!CustomersAreWhole
    <3>1. CASE \E t \in Threads : Busy(t, o)'
      BY <3>1
    <3>2. ASSUME NEW c \in Rows, Contact(c, o)'
          PROVE  c \in Customers!RowsOf("contact")' /\ v3'[c].org = o /\ v3'[c].site # Nothing /\ Customers!IsSiteOf(v3[c].site, o)'
      BY <3>2 DEF Customers!RowsOf, Customers!IsSiteOf
    <3> QED
      BY <1>2, <3>1, <3>2
  <2> QED
    BY <2>1, <2>3, <2>4 DEF Customers!Inv
<1>t. /\ v3 \in [Rows -> Customers!Row] /\ v4 \in [Threads -> Req]
      /\ \A r \in Rows : v3[r] \in Customers!Row
      /\ \A t \in Threads : v4[t] \in Req /\ v4[t].new \in Customers!Row /\ v4[t].new.site \in Rows \union {Nothing}
  BY <1>1 DEF Customers!Row
<1>r. \A r \in Rows : v3[r] # Customers!NoRow => Stands(r)
  BY <1>1
<1>o. \A t \in Threads : Shaped(v4[t]) /\ Placed(v4[t])
  BY <1>1
<1>m. \A o \in (v5 \intersect v1) \ v6 : (\E t \in Threads : Busy(t, o)) \/ \E c \in Rows : Contact(c, o)
  BY <1>1
<1>v. /\ v1 \subseteq Orgs /\ v2 \in [Orgs -> Orgs \union {Nothing}] /\ v5 \subseteq Orgs /\ v6 \subseteq Orgs /\ v7 \subseteq Rows
      /\ \A o \in Orgs : v2[o] \in v1 \union {Nothing}
  BY <1>1
<1>3. Customers!NoRow \in Customers!Row /\ Customers!Idle \in Req /\ Customers!NoRow.kind = "none" /\ Customers!NoRow.site = Nothing
  BY DEF Customers!NoRow, Customers!Idle, Customers!Row
<1>4. Customers!Idle.step = "idle" /\ Customers!Idle.new.site = Nothing /\ Shaped(Customers!Idle)
  BY DEF Customers!Idle, Customers!NoRow
\* One request changes.
<1>5. ASSUME NEW t \in Threads, NEW q \in Req, v4' = [v4 EXCEPT ![t] = q]
      PROVE  v4' \in [Threads -> Req] /\ v4'[t] = q /\ \A u \in Threads \ {t} : v4'[u] = v4[u]
  BY <1>t, <1>5
\* A row is added.
<1>6. ASSUME NEW r \in Rows, NEW new \in Customers!Row, v3[r] = Customers!NoRow, v3' = [v3 EXCEPT ![r] = new],
             v1' = v1, v7' = v7, Customers!Accepts(new),
             new.kind = "department" /\ new.site # Nothing => v3[new.site] = Customers!NoRow \/ SiteOf(new.site, new.org)
      PROVE  /\ v3' \in [Rows -> Customers!Row] /\ Rows_' /\ v3'[r] = new
             /\ \A c \in Rows, o \in Orgs : Contact(c, o) => Contact(c, o)'
             /\ \A q \in Req : Placed(q) /\ q.new.site # r => Placed(q)'
             /\ new.site # Nothing => new.site \in Rows \ {r} /\ v3'[new.site].kind = "site" /\ v3'[new.site] = v3[new.site]
  <2>1. v3' \in [Rows -> Customers!Row] /\ v3'[r] = new /\ \A q \in Rows \ {r} : v3'[q] = v3[q]
    BY <1>t, <1>6
  <2>2. \A s \in Rows : v3[s].kind = "site" => s # r /\ v3'[s] = v3[s]
    BY <1>3, <1>6, <2>1
  <2>3. new.org \in v1 /\ (new.site # Nothing => new.site \in Rows /\ v3[new.site].kind = "site")
    BY <1>6 DEF Customers!Accepts, Customers!RowsOf
  <2>4. ASSUME NEW q \in Rows, v3'[q] # Customers!NoRow PROVE Stands(q)'
    <3>1. CASE q = r
      <4>1. v3'[q] = new /\ v1' = v1 /\ v7' = v7
        BY <1>6, <2>1, <3>1
      <4>2. ASSUME new.site # Nothing
            PROVE  /\ new.site \in Rows /\ v3'[new.site].kind = "site"
                   /\ new.kind = "department" => v3'[new.site].org = new.org
        BY <1>3, <1>6, <2>2, <2>3, <4>2
      <4> QED
        BY <2>3, <4>1, <4>2
    <3>2. CASE q # r
      <4>0. v3'[q] = v3[q]
        BY <2>1, <3>2
      <4>1. v3'[q] = v3[q] /\ Stands(q)
        BY <1>r, <2>4, <4>0
      <4> QED
        BY <1>6, <2>2, <4>1
    <3> QED
      BY <3>1, <3>2
  <2>5. ASSUME NEW c \in Rows, NEW o \in Orgs, Contact(c, o) PROVE Contact(c, o)'
    <3>1. c # r
      BY <1>3, <1>6, <2>5
    <3> QED
      BY <2>1, <2>2, <2>5, <3>1
  <2>6. ASSUME NEW q \in Req, Placed(q), q.new.site # r PROVE Placed(q)'
    <3>1. q.new.site \in Rows \union {Nothing}
      BY DEF Customers!Row
    <3>2. q.new.site # Nothing => v3'[q.new.site] = v3[q.new.site]
      BY <2>1, <2>6, <3>1
    <3> QED
      BY <2>6, <3>2
  <2> QED
    BY <2>1, <2>2, <2>3, <2>4, <2>5, <2>6
\* Rows are deleted.
<1>7. ASSUME NEW gone \in SUBSET Rows, v3' = Customers!Without(gone), UNCHANGED v4, v7' \subseteq v7, v7 \ gone \subseteq v7',
             \A r \in Rows \ gone : v3[r] # Customers!NoRow => v3[r].org \in v1'
      PROVE  /\ v3' \in [Rows -> Customers!Row] /\ Rows_' /\ Own'
             /\ \A s \in Rows \ gone, o \in Orgs : SiteOf(s, o) => SiteOf(s, o)'
             /\ \A c \in Rows \ gone, o \in Orgs : Contact(c, o) /\ v3[c].site \notin gone => Contact(c, o)'
  <2>1. /\ \A r \in gone : v3'[r] = Customers!NoRow
        /\ \A r \in Rows \ gone : v3'[r] = IF v3[r].site \in gone THEN [v3[r] EXCEPT !.site = Nothing] ELSE v3[r]
    BY <1>7 DEF Customers!Without
  <2>2. \A r \in Rows : v3[r] \in Customers!Row
    BY <1>1
  <2>3. \A r \in Rows \ gone : /\ v3'[r] \in Customers!Row /\ v3'[r].kind = v3[r].kind /\ v3'[r].org = v3[r].org
                               /\ v3[r].site \in gone => v3'[r].site = Nothing
                               /\ v3[r].site \notin gone => v3'[r] = v3[r]
    BY <2>1, <2>2 DEF Customers!Row
  <2>4. v3' \in [Rows -> Customers!Row]
    <3>1. v3' = [r \in Rows |-> v3'[r]]
      BY <1>7 DEF Customers!Without
    <3>2. \A r \in Rows : v3'[r] \in Customers!Row
      BY <1>3, <2>1, <2>3
    <3> QED
      BY <3>1, <3>2
  <2>5. \A r \in Rows : v3[r] = Customers!NoRow => v3'[r] = Customers!NoRow
    BY <1>3, <2>1, <2>3
  <2>6. ASSUME NEW r \in Rows, v3'[r] # Customers!NoRow PROVE Stands(r)'
    <3>1. r \notin gone /\ v3[r] # Customers!NoRow /\ Stands(r)
      BY <1>1, <2>1, <2>5, <2>6
    <3>2. v3'[r].org \in v1' /\ v3'[r].kind = v3[r].kind /\ v3'[r].org = v3[r].org
      BY <1>7, <2>3, <3>1
    <3>3. ASSUME v3'[r].site # Nothing
          PROVE  v3'[r].site = v3[r].site /\ v3[r].site \in Rows \ gone
      BY <2>3, <3>1, <3>3
    <3>4. r \notin v7' => r \notin v7
      BY <1>7, <3>1
    <3> QED
      BY <2>3, <3>1, <3>2, <3>3, <3>4
  <2>7. ASSUME NEW s \in Rows \ gone, NEW o \in Orgs, SiteOf(s, o) PROVE SiteOf(s, o)'
    BY <2>3, <2>7
  <2>8. ASSUME NEW c \in Rows \ gone, NEW o \in Orgs, Contact(c, o), v3[c].site \notin gone PROVE Contact(c, o)'
    BY <2>3, <2>8
  <2>9. ASSUME NEW t \in Threads PROVE Shaped(v4'[t]) /\ Placed(v4[t])'
    <3>1. Shaped(v4[t]) /\ Placed(v4[t]) /\ v4'[t] = v4[t] /\ v4[t].new.site \in Rows \union {Nothing}
      BY <1>1, <1>7 DEF Customers!Row
    <3> DEFINE s == v4[t].new.site
    <3>2. ASSUME s # Nothing, v3[s] = Customers!NoRow \/ SiteOf(s, v4[t].new.org)
          PROVE  v3'[s] = Customers!NoRow \/ (s \in Rows /\ v3'[s].kind = "site" /\ v3'[s].org = v4[t].new.org)
      BY <2>1, <2>3, <2>5, <3>1, <3>2
    <3> QED
      BY <3>1, <3>2
  <2> QED
    BY <2>4, <2>6, <2>7, <2>8, <2>9
\* No row changes, and only the request of t.
<1>8. ASSUME NEW t \in Threads, NEW q \in Req, v4' = [v4 EXCEPT ![t] = q], UNCHANGED <<v3, v7>>, v1 \subseteq v1', Shaped(q), Placed(q)
      PROVE  /\ v4' \in [Threads -> Req] /\ v4'[t] = q /\ Rows_' /\ Own'
             /\ \A u \in Threads \ {t}, o \in Orgs : Busy(u, o) => Busy(u, o)'
             /\ \A c \in Rows, o \in Orgs : Contact(c, o) => Contact(c, o)'
  <2>1. v4' \in [Threads -> Req] /\ v4'[t] = q /\ \A u \in Threads \ {t} : v4'[u] = v4[u]
    BY <1>5, <1>8
  <2>2. Rows_'
    BY <1>r, <1>8
  <2>3. Own'
    BY <1>o, <1>8, <2>1
  <2> QED
    BY <1>8, <2>1, <2>2, <2>3
\* A request that creates a row.
<1>9. ASSUME NEW t \in Threads, NEW new \in Customers!Row, Customers!Begins(t, new),
             new.kind = "department" /\ new.site # Nothing => SiteOf(new.site, new.org)
      PROVE  Customers!Inv'
  <2> DEFINE q == [step |-> "insert", new |-> new]
  <2>1. q \in Req /\ q.step = "insert" /\ q.new = new
    OBVIOUS
  <2>2. v4' = [v4 EXCEPT ![t] = q] /\ UNCHANGED <<v1, v2, v3, v5, v6, v7>> /\ new.org \in v1 /\ v4[t] = Customers!Idle
    BY <1>9 DEF Customers!Begins
  <2> HIDE DEF q
  <2>3. Shaped(q) /\ Placed(q)
    BY <1>9, <1>v, <2>1, <2>2
  <2>4. /\ v4' \in [Threads -> Req] /\ Rows_' /\ Own'
        /\ \A u \in Threads \ {t}, o \in Orgs : Busy(u, o) => Busy(u, o)'
        /\ \A c \in Rows, o \in Orgs : Contact(c, o) => Contact(c, o)'
    BY <1>8, <2>1, <2>2, <2>3
  <2>5. \A o : ~Busy(t, o)
    <3>1. v4[t].step = "idle"
      BY <1>4, <2>2
    <3> QED
      BY <3>1
  <2>6. Made'
    <3> SUFFICES ASSUME NEW p \in (v5' \intersect v1') \ v6' PROVE (\E u \in Threads : Busy(u, p)') \/ \E c \in Rows : Contact(c, p)'
      OBVIOUS
    <3>1. p \in (v5 \intersect v1) \ v6 /\ p \in Orgs /\ v3' = v3
      BY <1>v, <2>2
    <3>2. ASSUME NEW u \in Threads, Busy(u, p) PROVE Busy(u, p)'
      <4>1. v4'[u] = v4[u]
        BY <1>5, <2>1, <2>2, <2>5, <3>2
      <4> QED
        BY <3>2, <4>1
    <3>3. ASSUME NEW c \in Rows, Contact(c, p) PROVE Contact(c, p)'
      BY <3>1, <3>3
    <3> HIDE DEF Busy, Contact
    <3> QED
      BY <1>m, <3>1, <3>2, <3>3
  <2>7. Types'
    BY <1>t, <1>v, <2>2, <2>4
  <2>8. Parents'
    BY <1>v, <2>2
  <2> QED
    BY <1>2, <2>4, <2>6, <2>7, <2>8
<1>10. ASSUME NEW t \in Threads, NEW o \in Orgs,
              Customers!CreateSite(t, o) \/ Customers!CreateTechnician(t, o) \/ Customers!UpsertBranding(t, o)
              \/ Customers!CreateSubscription(t, o)
       PROVE  Customers!Inv'
  <2>1. \A kind \in Customers!Kinds : [kind |-> kind, org |-> o, site |-> Nothing] \in Customers!Row
    BY DEF Customers!Row
  <2>2. PICK kind \in Customers!Kinds : Customers!Begins(t, [kind |-> kind, org |-> o, site |-> Nothing])
    BY <1>10 DEF Customers!CreateSite, Customers!CreateTechnician, Customers!UpsertBranding, Customers!CreateSubscription,
         Customers!Site, Customers!Technician, Customers!TenantBranding, Customers!TenantSubscription, Customers!Kinds, Customers!Single
  <2> DEFINE new == [kind |-> kind, org |-> o, site |-> Nothing]
  <2>3. new \in Customers!Row /\ new.site = Nothing /\ Customers!Begins(t, new)
    BY <2>1, <2>2
  <2> HIDE DEF new
  <2> QED
    BY <1>9, <2>3
<1>11. ASSUME NEW t \in Threads, NEW o \in Orgs, NEW s \in Rows \union {Nothing},
              Customers!CreateDepartment(t, o, s) \/ Customers!CreateContact(t, o, s)
       PROVE  Customers!Inv'
  <2>1. Customers!Department(o, s) \in Customers!Row /\ Customers!Contact(o, s) \in Customers!Row
    BY DEF Customers!Department, Customers!Contact, Customers!Row, Customers!Kinds
  <2>2. CASE Customers!CreateDepartment(t, o, s)
    <3>1. Customers!Begins(t, Customers!Department(o, s)) /\ (s # Nothing => SiteOf(s, o))
      BY <2>2 DEF Customers!CreateDepartment, Customers!IsSiteOf, Customers!RowsOf
    <3>2. Customers!Department(o, s).site = s /\ Customers!Department(o, s).org = o
      BY DEF Customers!Department
    <3> QED
      BY <1>9, <2>1, <3>1, <3>2
  <2>3. CASE Customers!CreateContact(t, o, s)
    <3>1. Customers!Begins(t, Customers!Contact(o, s))
      BY <2>3 DEF Customers!CreateContact
    <3>2. Customers!Contact(o, s).kind = "contact"
      BY DEF Customers!Contact
    <3> QED
      BY <1>9, <2>1, <3>1, <3>2
  <2> QED
    BY <1>11, <2>2, <2>3
<1>12. ASSUME NEW o \in Orgs, NEW above \in Orgs \union {Nothing},
              Customers!UpdateOrganization(o, above) \/ Customers!CreateOrganization(o, above)
       PROVE  Customers!Inv'
  <2>1. /\ UNCHANGED <<v3, v4, v7>> /\ v1 \subseteq v1' /\ v1' \subseteq Orgs /\ v5' \subseteq Orgs /\ v6' \subseteq Orgs
        /\ v2' = [v2 EXCEPT ![o] = above] /\ above \in v1 \union {Nothing}
        /\ (v5' \intersect v1') \ v6' \subseteq (v5 \intersect v1) \ v6
    BY <1>12, <1>v DEF Customers!UpdateOrganization, Customers!CreateOrganization
  <2>2. v2' \in [Orgs -> Orgs \union {Nothing}] /\ Parents'
    BY <1>v, <2>1
  <2>3. Rows_'
    BY <1>r, <2>1
  <2>4. Own'
    BY <1>o, <2>1
  <2>5. Made'
    BY <1>m, <2>1
  <2>6. Types'
    BY <1>t, <1>v, <2>1, <2>2
  <2> QED
    BY <1>2, <2>2, <2>3, <2>4, <2>5, <2>6
<1>13. ASSUME NEW o \in Orgs, Customers!DeleteOrganization(o) PROVE Customers!Inv'
  <2> DEFINE gone == {r \in Rows : v3[r].org = o}
  <2>1. /\ v3' = Customers!Without(gone) /\ UNCHANGED <<v4, v5, v6>> /\ v1' = v1 \ {o}
        /\ v7' = {r \in v7 : v3[r].org # o}
        /\ v2' = [c \in Orgs |-> IF c = o \/ v2[c] = o THEN Nothing ELSE v2[c]]
    BY <1>13 DEF Customers!DeleteOrganization
  <2>2. v7' \subseteq v7 /\ v7 \ gone \subseteq v7' /\ gone \in SUBSET Rows
    BY <1>v, <2>1
  <2>3. \A r \in Rows \ gone : v3[r] # Customers!NoRow => v3[r].org \in v1'
    BY <1>r, <2>1
  <2>4. \A r \in Rows : r \in gone <=> v3[r].org = o
    OBVIOUS
  <2> HIDE DEF gone
  <2>5. /\ v3' \in [Rows -> Customers!Row] /\ Rows_' /\ Own'
        /\ \A c \in Rows \ gone, p \in Orgs : Contact(c, p) /\ v3[c].site \notin gone => Contact(c, p)'
    BY <1>7, <2>1, <2>2, <2>3
  <2>6. Parents' /\ v2' \in [Orgs -> Orgs \union {Nothing}]
    BY <1>v, <2>1
  <2>7. Made'
    <3> SUFFICES ASSUME NEW p \in (v5' \intersect v1') \ v6' PROVE (\E t \in Threads : Busy(t, p)') \/ \E c \in Rows : Contact(c, p)'
      OBVIOUS
    <3>1. p \in (v5 \intersect v1) \ v6 /\ p # o /\ p \in Orgs
      BY <1>v, <2>1
    <3>2. CASE \E t \in Threads : Busy(t, p)
      BY <2>1, <3>2
    <3>3. ASSUME NEW c \in Rows, Contact(c, p) PROVE Contact(c, p)'
      BY <2>4, <2>5, <3>1, <3>3
    <3> QED
      BY <1>m, <3>1, <3>2, <3>3
  <2>8. Types'
    BY <1>t, <1>v, <2>1, <2>2, <2>5, <2>6
  <2> QED
    BY <1>2, <2>5, <2>6, <2>7, <2>8
<1>14. ASSUME NEW r \in Rows, Customers!Delete(r) PROVE Customers!Inv'
  <2>1. /\ v3' = Customers!Without({r}) /\ UNCHANGED <<v1, v2, v4, v5>> /\ v7' = v7 \ {r} /\ v6' = v6 \union {v3[r].org}
        /\ v3[r] # Customers!NoRow
    BY <1>3, <1>14 DEF Customers!Delete
  <2>2. v3[r].org \in v1 /\ \A q \in Rows \ {r} : v3[q] # Customers!NoRow => v3[q].org \in v1'
    BY <1>r, <2>1
  <2>3. /\ v3' \in [Rows -> Customers!Row] /\ Rows_' /\ Own'
        /\ \A c \in Rows \ {r}, p \in Orgs : Contact(c, p) /\ v3[c].site \notin {r} => Contact(c, p)'
    <3>1. {r} \in SUBSET Rows /\ v7' \subseteq v7 /\ v7 \ {r} \subseteq v7'
      BY <2>1
    <3> QED
      BY <1>7, <2>1, <2>2, <3>1
  <2>4. Made'
    <3> SUFFICES ASSUME NEW p \in (v5' \intersect v1') \ v6' PROVE (\E t \in Threads : Busy(t, p)') \/ \E c \in Rows : Contact(c, p)'
      OBVIOUS
    <3>1. p \in (v5 \intersect v1) \ v6 /\ p # v3[r].org /\ p \in Orgs
      BY <1>v, <2>1
    <3>2. CASE \E t \in Threads : Busy(t, p)
      BY <2>1, <3>2
    <3>3. ASSUME NEW c \in Rows, Contact(c, p) PROVE Contact(c, p)'
      <4>1. c \in Rows \ {r} /\ v3[c].site \notin {r}
        BY <3>1, <3>3
      <4> QED
        BY <2>3, <3>1, <3>3, <4>1
    <3> QED
      BY <1>m, <3>1, <3>2, <3>3
  <2>5. Types'
    <3>1. v4' \in [Threads -> Req] /\ v6' \subseteq Orgs /\ v7' \subseteq Rows
      BY <1>t, <1>v, <2>1, <2>2
    <3> QED
      BY <1>v, <2>1, <2>3, <3>1
  <2>6. Parents'
    BY <1>v, <2>1
  <2> QED
    BY <1>2, <2>3, <2>4, <2>5, <2>6
<1>15. ASSUME NEW r \in Rows, NEW s \in Rows \union {Nothing}, Customers!Update(r, s) PROVE Customers!Inv'
  <2> DEFINE new == [v3[r] EXCEPT !.site = s]
  <2>1. /\ v3[r].kind \in {"department", "contact"} /\ (s # Nothing => s \in Rows /\ v3[s].kind = "site")
        /\ v3' = [v3 EXCEPT ![r] = new] /\ v7' = v7 \union {r} /\ v6' = v6 \union {v3[r].org}
        /\ UNCHANGED <<v1, v2, v4, v5>>
    BY <1>15 DEF Customers!Update, Customers!RowsOf
  <2>2. new \in Customers!Row /\ new.site = s /\ new.kind = v3[r].kind /\ new.org = v3[r].org
    BY <1>t DEF Customers!Row
  <2> HIDE DEF new
  <2>3. v3' \in [Rows -> Customers!Row] /\ v3'[r] = new /\ \A q \in Rows \ {r} : v3'[q] = v3[q]
    BY <1>t, <2>1, <2>2
  <2>4. \A q \in Rows : v3[q].kind = "site" \/ v3[q] = Customers!NoRow => q # r /\ v3'[q] = v3[q]
    BY <1>3, <2>1, <2>3
  <2>5. v3[r] # Customers!NoRow /\ v3[r].org \in v1
    BY <1>r, <2>4
  <2>6. ASSUME NEW q \in Rows, v3'[q] # Customers!NoRow PROVE Stands(q)'
    <3>1. CASE q = r
      BY <2>1, <2>2, <2>3, <2>4, <2>5, <3>1
    <3>2. CASE q # r
      <4>1. v3'[q] = v3[q] /\ Stands(q)
        BY <1>r, <2>3, <2>6, <3>2
      <4> QED
        BY <2>1, <2>4, <4>1
    <3> QED
      BY <3>1, <3>2
  <2>7. ASSUME NEW t \in Threads PROVE Shaped(v4'[t]) /\ Placed(v4[t])'
    <3>1. Shaped(v4[t]) /\ Placed(v4[t]) /\ v4'[t] = v4[t] /\ v4[t].new.site \in Rows \union {Nothing}
      BY <1>o, <1>t, <2>1
    <3> QED
      BY <2>4, <3>1
  <2>8. Made'
    <3> SUFFICES ASSUME NEW p \in (v5' \intersect v1') \ v6' PROVE (\E t \in Threads : Busy(t, p)') \/ \E c \in Rows : Contact(c, p)'
      OBVIOUS
    <3>1. p \in (v5 \intersect v1) \ v6 /\ p # v3[r].org
      BY <2>1
    <3>2. CASE \E t \in Threads : Busy(t, p)
      BY <2>1, <3>2
    <3>3. ASSUME NEW c \in Rows, Contact(c, p) PROVE Contact(c, p)'
      <4>1. c # r /\ v3'[c] = v3[c]
        BY <2>3, <3>1, <3>3
      <4> QED
        BY <2>4, <3>3, <4>1
    <3> QED
      BY <1>m, <3>1, <3>2, <3>3
  <2>9. Types'
    BY <1>t, <1>v, <2>1, <2>3, <2>5
  <2>10. Parents'
    BY <1>v, <2>1
  <2> QED
    BY <1>2, <2>6, <2>7, <2>8, <2>9, <2>10
\* An identifier that no request holds.
<1>16. ASSUME NEW r \in Rows, ~Customers!Held(r) PROVE \A u \in Threads : v4[u].new.site # r
  BY <1>4, <1>16 DEF Customers!Held
\* A request inserts its row, and goes on with another or none.
<1>17. ASSUME NEW t \in Threads, NEW r \in Rows, ~Customers!Held(r), NEW new \in Customers!Row, NEW q \in Req,
              Customers!Accepts(new), v3[r] = Customers!NoRow, v3' = [v3 EXCEPT ![r] = new], v4' = [v4 EXCEPT ![t] = q],
              UNCHANGED <<v1, v2, v5, v6, v7>>,
              new.kind = "department" /\ new.site # Nothing => v3[new.site] = Customers!NoRow \/ SiteOf(new.site, new.org),
              Shaped(q), Placed(q)',
              \A o \in Orgs : Busy(t, o) => Busy(t, o)' \/ Contact(r, o)'
       PROVE  Customers!Inv'
  <2>1. /\ v3' \in [Rows -> Customers!Row] /\ Rows_'
        /\ \A c \in Rows, o \in Orgs : Contact(c, o) => Contact(c, o)'
        /\ \A x \in Req : Placed(x) /\ x.new.site # r => Placed(x)'
    BY <1>6, <1>17
  <2>2. v4' \in [Threads -> Req] /\ v4'[t] = q /\ \A u \in Threads \ {t} : v4'[u] = v4[u]
    BY <1>5, <1>17
  <2>3. ASSUME NEW u \in Threads PROVE Shaped(v4'[u]) /\ Placed(v4[u])'
    <3>1. CASE u = t
      BY <1>17, <2>2, <3>1
    <3>2. CASE u # t
      <4>0. v4'[u] = v4[u] /\ v4[u] \in Req /\ v4[u].new.site # r
        BY <1>t, <1>16, <1>17, <2>2, <3>2
      <4>1. v4'[u] = v4[u] /\ v4[u] \in Req /\ Shaped(v4[u]) /\ Placed(v4[u]) /\ v4[u].new.site # r
        BY <1>o, <4>0
      <4> DEFINE x == v4[u]
      <4>2. x \in Req /\ Placed(x) /\ x.new.site # r /\ v4'[u] = x
        BY <4>1
      <4> HIDE DEF x
      <4>3. Placed(v4[u])'
        BY <2>1, <4>2
      <4> QED
        BY <4>1, <4>3
    <3> QED
      BY <3>1, <3>2
  <2>4. Made'
    <3> SUFFICES ASSUME NEW p \in (v5' \intersect v1') \ v6' PROVE (\E u \in Threads : Busy(u, p)') \/ \E c \in Rows : Contact(c, p)'
      OBVIOUS
    <3>1. p \in (v5 \intersect v1) \ v6 /\ p \in Orgs
      BY <1>v, <1>17
    <3>2. ASSUME NEW u \in Threads, Busy(u, p), u # t PROVE Busy(u, p)'
      BY <2>2, <3>2
    <3>3. ASSUME Busy(t, p) PROVE Busy(t, p)' \/ Contact(r, p)'
      BY <1>17, <3>1, <3>3
    <3> HIDE DEF Busy, Contact
    <3>4. ASSUME NEW c \in Rows, Contact(c, p) PROVE Contact(c, p)'
      <4>1. \A o \in Orgs : Contact(c, o) => Contact(c, o)'
        BY <2>1
      <4> QED
        BY <3>1, <3>4, <4>1
    <3>5. ASSUME NEW u \in Threads, Busy(u, p) PROVE (\E x \in Threads : Busy(x, p)') \/ \E c \in Rows : Contact(c, p)'
      BY <3>2, <3>3, <3>5
    <3> QED
      BY <1>m, <3>1, <3>4, <3>5
  <2>5. Types'
    BY <1>v, <1>17, <2>1, <2>2
  <2>6. Parents'
    BY <1>v, <1>17
  <2> QED
    BY <1>2, <2>1, <2>3, <2>4, <2>5, <2>6
<1>18. ASSUME NEW t \in Threads, NEW r \in Rows, ~Customers!Held(r), Customers!Insert(t, r) PROVE Customers!Inv'
  <2> DEFINE new == v4[t].new
  <2>1. /\ v4[t].step = "insert" /\ new \in Customers!Row /\ Customers!Accepts(new) /\ v3[r] = Customers!NoRow
        /\ v3' = [v3 EXCEPT ![r] = new] /\ v4' = [v4 EXCEPT ![t] = Customers!Idle] /\ UNCHANGED <<v1, v2, v5, v6, v7>>
    BY <1>t, <1>18 DEF Customers!Insert
  <2>2. new.kind = "department" /\ new.site # Nothing => v3[new.site] = Customers!NoRow \/ SiteOf(new.site, new.org)
    BY <1>o
  <2>3. \A o \in Orgs : ~Busy(t, o)
    BY <2>1
  <2> HIDE DEF new
  <2> QED
    BY <1>3, <1>4, <1>17, <1>18, <2>1, <2>2, <2>3
<1>19. ASSUME NEW t \in Threads, NEW r \in Rows, ~Customers!Held(r), Customers!WizardSite(t, r) PROVE Customers!Inv'
  <2>1. PICK new \in Customers!Row : new = v4[t].new
    BY <1>t
  <2>2. /\ v4[t].step = "wizard site" /\ Customers!Accepts(new) /\ v3[r] = Customers!NoRow
        /\ v3' = [v3 EXCEPT ![r] = new] /\ UNCHANGED <<v1, v2, v5, v6, v7>>
        /\ v4' = [v4 EXCEPT ![t] = [step |-> "wizard contact", new |-> [[new EXCEPT !.kind = "contact"] EXCEPT !.site = r]]]
    BY <1>19, <2>1 DEF Customers!WizardSite
  <2>3. new.kind = "site" /\ new.site = Nothing /\ new.org # Nothing
    BY <1>o, <2>1, <2>2
  <2> DEFINE q == [step |-> "wizard contact", new |-> [[new EXCEPT !.kind = "contact"] EXCEPT !.site = r]]
  <2>4. q \in Req /\ q.step = "wizard contact" /\ q.new.kind = "contact" /\ q.new.site = r /\ q.new.org = new.org
    BY <2>1 DEF Customers!Row, Customers!Kinds
  <2>5. v4' = [v4 EXCEPT ![t] = q]
    BY <2>2
  <2> HIDE DEF q
  <2>6. v3'[r] = new /\ v4'[t] = q
    BY <1>t, <2>2, <2>4, <2>5
  <2>7. Shaped(q) /\ Placed(q)'
    <3>1. Shaped(q)
      BY <1>3, <2>3, <2>4
    <3>2. v3'[r].kind = "site" /\ v3'[r].org = q.new.org
      BY <2>3, <2>4, <2>6
    <3>3. Placed(q)'
      BY <2>4, <3>2
    <3> QED
      BY <3>1, <3>3
  <2>8. \A o \in Orgs : Busy(t, o) => Busy(t, o)'
    BY <2>1, <2>4, <2>6
  <2>9. new.kind # "department"
    BY <2>3
  <2> QED
    BY <1>17, <1>19, <2>2, <2>4, <2>5, <2>7, <2>8, <2>9
<1>20. ASSUME NEW t \in Threads, NEW r \in Rows, ~Customers!Held(r), Customers!WizardContact(t, r) PROVE Customers!Inv'
  <2> DEFINE new == v4[t].new
  <2>1. /\ v4[t].step = "wizard contact" /\ new \in Customers!Row /\ Customers!Accepts(new) /\ v3[r] = Customers!NoRow
        /\ v3' = [v3 EXCEPT ![r] = new] /\ v4' = [v4 EXCEPT ![t] = Customers!Idle] /\ UNCHANGED <<v1, v2, v5, v6, v7>>
    BY <1>t, <1>20 DEF Customers!WizardContact
  <2>2. new.kind = "contact" /\ new.site # Nothing /\ (v3[new.site] = Customers!NoRow \/ SiteOf(new.site, new.org))
    BY <1>o, <2>1
  <2>3. \A o \in Orgs : Busy(t, o) => o = new.org
    OBVIOUS
  <2> HIDE DEF new
  <2>4. new.site \in Rows /\ v3[new.site].kind = "site"
    BY <2>1, <2>2 DEF Customers!Accepts, Customers!RowsOf
  <2>5. v3'[r] = new /\ new.site # r /\ v3'[new.site] = v3[new.site] /\ SiteOf(new.site, new.org)
    BY <1>3, <1>t, <2>1, <2>2, <2>4
  <2>6. v3'[r].kind = "contact" /\ v3'[r].org = new.org /\ v3'[r].site = new.site /\ new.site \in Rows
        /\ v3'[new.site].kind = "site" /\ v3'[new.site].org = new.org
    BY <2>2, <2>4, <2>5
  <2>7. ASSUME NEW o \in Orgs, Busy(t, o) PROVE Contact(r, o)'
    <3>1. o = new.org
      BY <2>3, <2>7
    <3> QED
      BY <2>6, <3>1
  <2>8. new.kind # "department"
    BY <2>2
  <2> QED
    BY <1>3, <1>4, <1>17, <1>20, <2>1, <2>7, <2>8
<1>21. ASSUME NEW t \in Threads, NEW o \in Orgs, Customers!WizardOrganization(t, o) PROVE Customers!Inv'
  <2> DEFINE q == [step |-> "wizard site", new |-> Customers!Site(o)]
  <2>1. /\ v4[t] = Customers!Idle /\ o \notin v1 /\ v1' = v1 \union {o} /\ v5' = v5 \union {o} /\ v6' = v6 \ {o}
        /\ v4' = [v4 EXCEPT ![t] = q] /\ UNCHANGED <<v2, v3, v7>>
    BY <1>21 DEF Customers!WizardOrganization
  <2>2. /\ q \in Req /\ q.step = "wizard site" /\ q.new.kind = "site" /\ q.new.site = Nothing /\ q.new.org = o
    BY DEF Customers!Site, Customers!Row, Customers!Kinds
  <2> HIDE DEF q
  <2>3. Shaped(q) /\ Placed(q)
    BY <2>2
  <2>4. /\ v4' \in [Threads -> Req] /\ v4'[t] = q /\ Rows_' /\ Own'
        /\ \A u \in Threads \ {t}, p \in Orgs : Busy(u, p) => Busy(u, p)'
        /\ \A c \in Rows, p \in Orgs : Contact(c, p) => Contact(c, p)'
    BY <1>8, <2>1, <2>2, <2>3
  <2>5. \A p : ~Busy(t, p)
    <3>1. v4[t].step = "idle"
      BY <1>4, <2>1
    <3> QED
      BY <3>1
  <2>6. Busy(t, o)'
    BY <2>2, <2>4
  <2>8. Made'
    <3> SUFFICES ASSUME NEW p \in (v5' \intersect v1') \ v6' PROVE (\E u \in Threads : Busy(u, p)') \/ \E c \in Rows : Contact(c, p)'
      OBVIOUS
    <3>0. CASE p = o
      BY <2>6, <3>0
    <3>1. (p # o => p \in (v5 \intersect v1) \ v6) /\ v3' = v3
      BY <1>v, <2>1
    <3>2. ASSUME NEW u \in Threads, Busy(u, p) PROVE Busy(u, p)'
      <4>1. v4'[u] = v4[u]
        BY <1>5, <2>1, <2>2, <2>5, <3>2
      <4> QED
        BY <3>2, <4>1
    <3>3. ASSUME NEW c \in Rows, Contact(c, p) PROVE Contact(c, p)'
      BY <3>1, <3>3
    <3> HIDE DEF Busy, Contact
    <3> QED
      BY <1>m, <3>0, <3>1, <3>2, <3>3
  <2>9. Types'
    <3>1. v1' \subseteq Orgs /\ v5' \subseteq Orgs /\ v6' \subseteq Orgs
      BY <1>v, <2>1
    <3>2. v4' \in [Threads -> Req]
      BY <2>4
    <3> QED
      BY <1>t, <1>v, <2>1, <3>1, <3>2
  <2>10. Parents'
    BY <1>v, <2>1
  <2> QED
    BY <1>2, <2>4, <2>8, <2>9, <2>10
<1>22. ASSUME NEW t \in Threads, Customers!Fail(t) PROVE Customers!Inv'
  <2>1. /\ v4[t] # Customers!Idle /\ v4' = [v4 EXCEPT ![t] = Customers!Idle] /\ UNCHANGED <<v1, v2, v3, v5, v7>>
        /\ v6' = IF v4[t].step = "insert" THEN v6 ELSE v6 \union {v4[t].new.org}
    BY <1>22 DEF Customers!Fail
  <2>2. v4[t].new.org \in Orgs
    <3>1. v4[t].new.org \in Orgs \union {Nothing}
      BY <1>t DEF Customers!Row
    <3> QED
      BY <1>o, <2>1, <3>1
  <2>3. Placed(Customers!Idle)
    BY <1>4
  <2>4. /\ v4' \in [Threads -> Req] /\ Rows_' /\ Own'
        /\ \A u \in Threads \ {t}, p \in Orgs : Busy(u, p) => Busy(u, p)'
        /\ \A c \in Rows, p \in Orgs : Contact(c, p) => Contact(c, p)'
    BY <1>3, <1>4, <1>8, <2>1, <2>3
  <2>5. \A p \in (v5' \intersect v1') \ v6' : p \in ((v5 \intersect v1) \ v6) /\ p \in Orgs /\ ~Busy(t, p)
    BY <1>v, <2>1
  <2>6. Made'
    <3> SUFFICES ASSUME NEW p \in (v5' \intersect v1') \ v6' PROVE (\E u \in Threads : Busy(u, p)') \/ \E c \in Rows : Contact(c, p)'
      OBVIOUS
    <3>1. p \in (v5 \intersect v1) \ v6 /\ ~Busy(t, p) /\ v3' = v3
      BY <2>1, <2>5
    <3>2. ASSUME NEW u \in Threads, Busy(u, p) PROVE Busy(u, p)'
      <4>1. v4'[u] = v4[u]
        BY <1>3, <1>5, <2>1, <3>1, <3>2
      <4> QED
        BY <3>2, <4>1
    <3>3. ASSUME NEW c \in Rows, Contact(c, p) PROVE Contact(c, p)'
      BY <3>1, <3>3
    <3> HIDE DEF Busy, Contact
    <3> QED
      BY <1>m, <3>1, <3>2, <3>3
  <2>7. Types'
    BY <1>t, <1>v, <2>1, <2>2, <2>4
  <2>8. Parents'
    BY <1>v, <2>1
  <2> QED
    BY <1>2, <2>4, <2>6, <2>7, <2>8
<1> QED
  BY <1>10, <1>11, <1>12, <1>13, <1>14, <1>15, <1>18, <1>19, <1>20, <1>21, <1>22 DEF Customers!Next

\* However creations, patches and deletions interleave, nothing refers to a row that is gone, and a customer
\* the wizard made has a site and a contact there, unless one of its commits failed or an operator changed them.
THEOREM CustomersAreWholeCorrect == OfficeSpec => []CustomersAreWhole
<1> DEFINE I == focus = "msp" => Customers!Inv
<1>1. OfficeInit => I
  <2> SUFFICES ASSUME Customers!Init PROVE Customers!Inv
    BY DEF OfficeInit
  <2>1. /\ v1 = {} /\ v5 = {} /\ v6 = {} /\ v7 = {} /\ v2 = [o \in Orgs |-> Nothing]
        /\ v3 = [r \in Rows |-> Customers!NoRow] /\ v4 = [t \in Threads |-> Customers!Idle]
    BY DEF Customers!Init
  <2>2. Customers!NoRow \in Customers!Row
    BY DEF Customers!NoRow, Customers!Row
  <2>3. Customers!Idle \in [step : {"idle", "insert", "wizard site", "wizard contact"}, new : Customers!Row]
    BY <2>2 DEF Customers!Idle
  <2>4. Customers!TypeOK
    BY <2>1, <2>2, <2>3 DEF Customers!TypeOK
  <2>5. Customers!CustomersAreWhole
    BY <2>1 DEF Customers!CustomersAreWhole, Customers!NothingDangles
  <2>6. Customers!SitesAreOwn
    BY <2>1 DEF Customers!SitesAreOwn, Customers!Idle, Customers!NoRow
  <2> QED
    BY <2>4, <2>5, <2>6 DEF Customers!Inv
<1>2. I /\ [OfficeNext]_OfficeVars => I'
  <2> SUFFICES ASSUME Customers!Inv, [OfficeNext]_OfficeVars, focus = "msp" PROVE Customers!Inv'
    BY Focused
  <2>1. CASE Customers!Next
    BY <2>1, MspStep
  <2>2. CASE UNCHANGED slots
    <3>1. UNCHANGED <<v1, v2, v3, v4, v5, v6, v7>>
      BY <2>2 DEF slots
    <3>2. Customers!TypeOK' /\ Customers!SitesAreOwn'
      BY <3>1 DEF Customers!Inv, Customers!TypeOK, Customers!SitesAreOwn, Customers!RowsOf, Customers!IsSiteOf
    <3>3. Customers!NothingDangles' <=> Customers!NothingDangles
      BY <3>1 DEF Customers!NothingDangles, Customers!RowsOf, Customers!IsSiteOf
    <3>4. Customers!CustomersAreWhole'
      BY <3>1, <3>3 DEF Customers!Inv, Customers!CustomersAreWhole, Customers!RowsOf, Customers!IsSiteOf
    <3> QED
      BY <3>2, <3>4 DEF Customers!Inv
  <2> QED
    BY <2>1, <2>2, Focused
<1>3. I => CustomersAreWhole
  BY DEF CustomersAreWhole, Customers!Inv
<1> QED
  BY <1>1, <1>2, <1>3, PTL DEF OfficeSpec

---------------------------------------------------------------------------
(* Reports *)

\* What a pass does, and the variables its invariant is about.
ReportPass(w) == w \in [pc : {"rest", "create", "start", "build", "mail", "advance"}, job : {"due", "now", "execute"},
                        occ : 1..MaxSlots, at : 1..MaxSlots, run : {w.run}]
ReportTypes ==
  /\ v1 \in 1..MaxSlots /\ v2 \in [enabled : BOOLEAN, next : 1..(MaxSlots + 1)]
  /\ v4 = [p \in Passes |-> v4[p]] /\ \A p \in Passes : ReportPass(v4[p])
  /\ v5 \in [1..MaxSlots -> Nat] /\ v6 \in [1..MaxSlots -> Nat] /\ v7 \subseteq 1..MaxSlots

\* A pass goes on in a period: it is alone with what it took, and the others are where they were.
LEMMA ReportGoesOn ==
  ASSUME Reporting!Inv, ReportTypes, NEW p \in Passes, NEW x, ReportPass(x), v4' = [v4 EXCEPT ![p] = x],
         v4[p].pc # "rest", x.pc # "rest", x.job = v4[p].job, x.occ = v4[p].occ, x.at = v4[p].at,
         x.pc # "create", v4[p].pc \notin {"create", "mail"}, x.pc = "mail" => v4[p].pc \in {"start", "build"},
         x.pc \in {"start", "build"} => v4[p].pc \in {"start", "build"}, x.pc = "advance" => x.job = "due",
         UNCHANGED <<v1, v2, v5, v6, v7>>
  PROVE  Reporting!Inv' /\ ReportTypes'
<1>1. \A q \in Passes : v4'[q] = IF q = p THEN x ELSE v4[q]
  BY DEF ReportTypes
<1>2. ReportTypes'
  BY <1>1 DEF ReportTypes
<1>3. Reporting!OneReportPerOccurrence'
  BY DEF Reporting!Inv, Reporting!OneReportPerOccurrence, Reporting!Slots
<1>4. \A q \in Passes : Reporting!Taking(q)' <=> Reporting!Taking(q)
  BY <1>1 DEF Reporting!Taking
<1>5. Reporting!OnePass'
  BY <1>1, <1>4 DEF Reporting!Inv, Reporting!OnePass, Reporting!Slots
<1>6. Reporting!MovedOn'
  BY <1>1, <1>4 DEF Reporting!Inv, Reporting!MovedOn, Reporting!Slots
<1> QED
  BY <1>2, <1>3, <1>5, <1>6 DEF Reporting!Inv

\* A pass that took nothing from the schedule ends or begins.
LEMMA ReportAside ==
  ASSUME Reporting!Inv, ReportTypes, NEW p \in Passes, NEW x, ReportPass(x), v4' = [v4 EXCEPT ![p] = x],
         ~Reporting!Taking(p), x.pc = "rest" \/ x.job # "due", x.pc # "advance",
         UNCHANGED <<v1, v2, v5, v6, v7>>
  PROVE  Reporting!Inv' /\ ReportTypes'
<1>1. \A q \in Passes : v4'[q] = IF q = p THEN x ELSE v4[q]
  BY DEF ReportTypes
<1>2. ReportTypes'
  BY <1>1 DEF ReportTypes
<1>3. Reporting!OneReportPerOccurrence'
  BY DEF Reporting!Inv, Reporting!OneReportPerOccurrence, Reporting!Slots
<1>4. \A q \in Passes : Reporting!Taking(q)' <=> Reporting!Taking(q)
  BY <1>1 DEF Reporting!Taking
<1>5. Reporting!OnePass'
  BY <1>1, <1>4 DEF Reporting!Inv, Reporting!OnePass, Reporting!Slots
<1>6. Reporting!MovedOn'
  BY <1>1, <1>4 DEF Reporting!Inv, Reporting!MovedOn, Reporting!Slots
<1> QED
  BY <1>2, <1>3, <1>5, <1>6 DEF Reporting!Inv

\* A pass moves the schedule on, or is cut off and its occurrence exempt.
LEMMA ReportEnds ==
  ASSUME Reporting!Inv, ReportTypes, NEW p \in Passes, v4' = [v4 EXCEPT ![p] = Reporting!Rest], Reporting!Taking(p),
         UNCHANGED <<v1, v5, v6>>,
         \/ v2' = v2 /\ v7' = v7 \union {v4[p].occ}
         \/ v2' = [v2 EXCEPT !.next = v4[p].at + 1] /\ v7' = v7
  PROVE  Reporting!Inv' /\ ReportTypes'
<1>1. ReportPass(Reporting!Rest) /\ Reporting!Rest.pc = "rest"
  BY SlotsAssumption DEF ReportPass, Reporting!Rest
<1>2. \A q \in Passes : v4'[q] = IF q = p THEN Reporting!Rest ELSE v4[q]
  BY DEF ReportTypes
<1>3. /\ v4[p].occ \in 1..MaxSlots /\ v4[p].at \in 1..MaxSlots /\ v4[p].occ <= v4[p].at
      /\ 1..MaxSlots \subseteq v7 \/ (v4[p].occ = v2.next /\ \A q \in Passes \ {p} : ~Reporting!Taking(q))
  BY DEF ReportTypes, ReportPass, Reporting!Inv, Reporting!OnePass, Reporting!Slots
<1>4. v7 \subseteq v7' /\ v7' \subseteq 1..MaxSlots /\ v2' \in [enabled : BOOLEAN, next : 1..(MaxSlots + 1)]
  <2>1. v4[p].at + 1 \in 1..(MaxSlots + 1)
    BY <1>3, SlotsAssumption
  <2>2. v2 \in [enabled : BOOLEAN, next : 1..(MaxSlots + 1)] /\ v7 \subseteq 1..MaxSlots
    BY DEF ReportTypes
  <2>3. v2' = v2 \/ v2' = [v2 EXCEPT !.next = v4[p].at + 1]
    OBVIOUS
  <2>4. v2' \in [enabled : BOOLEAN, next : 1..(MaxSlots + 1)]
    BY <2>1, <2>2, <2>3
  <2> QED
    BY <1>3, <2>2, <2>4
<1>5. ReportTypes'
  BY <1>1, <1>2, <1>4 DEF ReportTypes
<1>6. Reporting!OneReportPerOccurrence'
  BY <1>4 DEF Reporting!Inv, Reporting!OneReportPerOccurrence, Reporting!Slots
<1>7. \A q \in Passes : Reporting!Taking(q)' <=> q # p /\ Reporting!Taking(q)
  BY <1>1, <1>2 DEF Reporting!Taking
<1>8. Reporting!OnePass'
  BY <1>1, <1>2, <1>3, <1>4, <1>7 DEF Reporting!Inv, Reporting!OnePass, Reporting!Slots
<1>9. Reporting!MovedOn'
  <2> SUFFICES ASSUME NEW o \in 1..MaxSlots, o \notin v7', v6[o] # 0
               PROVE  o < v2'.next
    BY DEF Reporting!MovedOn, Reporting!Slots
  <2>1. o \notin v7 /\ v4[p].occ = v2.next /\ \A q \in Passes \ {p} : ~Reporting!Taking(q)
    BY <1>3, <1>4
  <2>2. o < v2.next \/ o = v4[p].occ
    BY <2>1 DEF Reporting!Inv, Reporting!MovedOn, Reporting!Slots
  <2>3. CASE v7' = v7 \union {v4[p].occ} /\ v2' = v2
    BY <2>2, <2>3
  <2>4. CASE v2' = [v2 EXCEPT !.next = v4[p].at + 1]
    <3>1. v2'.next = v4[p].at + 1
      BY <2>4 DEF ReportTypes
    <3>2. v2.next \in 1..(MaxSlots + 1)
      BY DEF ReportTypes
    <3> QED
      BY <1>3, <2>1, <2>2, <3>1, <3>2, SlotsAssumption
  <2> QED
    BY <2>3, <2>4
<1> QED
  BY <1>5, <1>6, <1>8, <1>9 DEF Reporting!Inv
\* A step keeps the invariant.
LEMMA ReportKeeps ==
  ASSUME Reporting!Inv, ReportTypes, Reporting!Next
  PROVE  Reporting!Inv' /\ ReportTypes'
<1> DEFINE Goal == Reporting!Inv' /\ ReportTypes'
<1>a. ReportPass(Reporting!Rest) /\ Reporting!Rest.pc = "rest" /\ Reporting!Rest.job = "due"
  BY SlotsAssumption DEF ReportPass, Reporting!Rest
<1>b. \A p \in Passes : ReportPass(v4[p])
  BY DEF ReportTypes
<1>1. ASSUME Reporting!Tick PROVE Goal
  <2>1. v1' = v1 + 1 /\ v1' \in 1..MaxSlots /\ v1 \in Nat /\ UNCHANGED <<v2, v3, v4, v5, v6, v7>>
    BY <1>1, SlotsAssumption DEF Reporting!Tick, ReportTypes
  <2>2. ReportTypes'
    BY <2>1 DEF ReportTypes
  <2>3. Reporting!OneReportPerOccurrence'
    BY <2>1, SlotsAssumption DEF Reporting!Inv, Reporting!OneReportPerOccurrence, Reporting!Slots
  <2>4. \A q \in Passes : Reporting!Taking(q)' <=> Reporting!Taking(q)
    BY <2>1 DEF Reporting!Taking
  <2>5. \A q \in Passes : v4[q].at \in Nat
    BY <1>b, SlotsAssumption DEF ReportPass
  <2>6. Reporting!OnePass'
    BY <2>1, <2>4, <2>5 DEF Reporting!Inv, Reporting!OnePass, Reporting!Slots
  <2>7. Reporting!MovedOn'
    BY <2>1, <2>4 DEF Reporting!Inv, Reporting!MovedOn, Reporting!Slots
  <2> QED
    BY <2>2, <2>3, <2>6, <2>7 DEF Reporting!Inv
<1>2. ASSUME NEW p \in Passes, Reporting!TakeDue(p) PROVE Goal
  <2> DEFINE x == [Reporting!Rest EXCEPT !.pc = "create", !.occ = v2.next, !.at = v1]
  <2>1. /\ v4[p].pc = "rest" /\ v2.next <= v1 /\ v4' = [v4 EXCEPT ![p] = x] /\ UNCHANGED <<v1, v2, v3, v5, v6>>
        /\ v7' = IF Reporting!Busy THEN 1..MaxSlots ELSE v7
    BY <1>2 DEF Reporting!TakeDue, Reporting!Due, Reporting!Slots
  <2>2. v1 \in 1..MaxSlots /\ v2.next \in 1..MaxSlots
    BY <2>1, SlotsAssumption DEF ReportTypes
  <2>3. ReportPass(x) /\ x.pc = "create" /\ x.job = "due" /\ x.occ = v2.next /\ x.at = v1
    BY <1>a, <2>2 DEF ReportPass
  <2> HIDE DEF x
  <2>4. \A q \in Passes : v4'[q] = IF q = p THEN x ELSE v4[q]
    BY <2>1 DEF ReportTypes
  <2>5. \A q \in Passes : Reporting!Taking(q)' <=> q = p \/ Reporting!Taking(q)
    BY <2>1, <2>3, <2>4 DEF Reporting!Taking
  <2>6. ReportTypes'
    BY <2>1, <2>3, <2>4 DEF ReportTypes
  <2>7. Reporting!OneReportPerOccurrence'
    BY <2>1 DEF Reporting!Inv, Reporting!OneReportPerOccurrence, Reporting!Slots
  <2>8. 1..MaxSlots \subseteq v7' \/ (v7' = v7 /\ \A q \in Passes : ~Reporting!Taking(q))
    BY <2>1 DEF Reporting!Busy, Reporting!Taking
  <2>9. v2.next \notin v7' => v6[v2.next] = 0
    <3> SUFFICES ASSUME v2.next \notin v7' PROVE v6[v2.next] = 0
      OBVIOUS
    <3>1. v7' = v7 /\ \A q \in Passes : ~Reporting!Taking(q)
      BY <2>2, <2>8
    <3>2. v6[v2.next] = 0 \/ v2.next < v2.next
      BY <2>2, <3>1 DEF Reporting!Inv, Reporting!MovedOn, Reporting!Slots
    <3> QED
      BY <2>2, <3>2
  <2>10. Reporting!OnePass'
    <3> SUFFICES ASSUME NEW q \in Passes
                 PROVE  /\ v4'[q].pc = "advance" => v4'[q].job = "due"
                        /\ Reporting!Taking(q)' =>
                             /\ v4'[q].occ <= v4'[q].at /\ v4'[q].at <= v1'
                             /\ 1..MaxSlots \subseteq v7' \/ (v4'[q].occ = v2'.next /\ \A r \in Passes \ {q} : ~Reporting!Taking(r)')
                             /\ v4'[q].occ \notin v7' =>
                                  /\ v4'[q].pc = "create" => v6'[v4'[q].occ] = 0
                                  /\ v4'[q].pc \in {"start", "build", "mail"} => v6'[v4'[q].occ] = 1 /\ v5'[v4'[q].occ] = 0
      BY DEF Reporting!OnePass, Reporting!Slots
    <3>1. CASE q = p
      BY <2>1, <2>2, <2>3, <2>4, <2>5, <2>8, <2>9, <3>1
    <3>2. CASE q # p
      <4>1. v4'[q] = v4[q] /\ (Reporting!Taking(q)' <=> Reporting!Taking(q))
        BY <2>4, <2>5, <3>2
      <4>2. CASE ~Reporting!Taking(q)
        BY <4>1, <4>2 DEF Reporting!Inv, Reporting!OnePass
      <4>3. CASE Reporting!Taking(q)
        <5>1. 1..MaxSlots \subseteq v7'
          BY <2>8, <4>3
        <5>2. v4[q].occ \in 1..MaxSlots
          BY <1>b DEF ReportPass
        <5> QED
          BY <2>1, <4>1, <4>3, <5>1, <5>2 DEF Reporting!Inv, Reporting!OnePass
      <4> QED
        BY <4>2, <4>3
    <3> QED
      BY <3>1, <3>2
  <2>11. Reporting!MovedOn'
    BY <2>1, <2>4, <2>5, <2>8 DEF Reporting!Inv, Reporting!MovedOn, Reporting!Slots
  <2> QED
    BY <2>6, <2>7, <2>10, <2>11 DEF Reporting!Inv
<1>3. ASSUME NEW p \in Passes, Reporting!SendNow(p) \/ \E r \in 1..Len(v3) : Reporting!Execute(p, r) PROVE Goal
  <2>1. PICK x : ReportPass(x) /\ x.job # "due" /\ x.pc # "advance" /\ v4' = [v4 EXCEPT ![p] = x]
    <3>1. CASE Reporting!SendNow(p)
      <4> DEFINE x == [Reporting!Rest EXCEPT !.pc = "create", !.job = "now"]
      <4>1. ReportPass(x) /\ x.job = "now" /\ x.pc = "create"
        BY <1>a DEF ReportPass
      <4>2. v4' = [v4 EXCEPT ![p] = x]
        BY <3>1 DEF Reporting!SendNow
      <4> HIDE DEF x
      <4> QED
        BY <4>1, <4>2
    <3>2. ASSUME NEW r, Reporting!Execute(p, r)
          PROVE  \E x : ReportPass(x) /\ x.job # "due" /\ x.pc # "advance" /\ v4' = [v4 EXCEPT ![p] = x]
      <4> DEFINE x == [Reporting!Rest EXCEPT !.pc = "start", !.job = "execute", !.run = r]
      <4>1. ReportPass(x) /\ x.job = "execute" /\ x.pc = "start"
        BY <1>a DEF ReportPass
      <4>2. v4' = [v4 EXCEPT ![p] = x]
        BY <3>2 DEF Reporting!Execute
      <4> HIDE DEF x
      <4> QED
        BY <4>1, <4>2
    <3> QED
      BY <1>3, <3>1, <3>2
  <2>2. ~Reporting!Taking(p) /\ UNCHANGED <<v1, v2, v5, v6, v7>>
    BY <1>3 DEF Reporting!SendNow, Reporting!Execute, Reporting!Taking
  <2> QED
    BY <2>1, <2>2, ReportAside
<1>4. ASSUME NEW p \in Passes, Reporting!CreateRun(p) PROVE Goal
  <2> DEFINE x == [v4[p] EXCEPT !.pc = "start", !.run = Len(v3) + 1]
  <2>1. /\ v4[p].pc = "create" /\ v4' = [v4 EXCEPT ![p] = x] /\ UNCHANGED <<v1, v2, v5, v7>>
        /\ v6' = IF v4[p].job = "due" THEN [v6 EXCEPT ![v4[p].occ] = v6[v4[p].occ] + 1] ELSE v6
    BY <1>4 DEF Reporting!CreateRun
  <2>2. ReportPass(x) /\ x.pc = "start" /\ x.job = v4[p].job /\ x.occ = v4[p].occ /\ x.at = v4[p].at
    BY <1>b DEF ReportPass
  <2> HIDE DEF x
  <2>3. CASE v4[p].job # "due"
    <3>1. v6' = v6 /\ ~Reporting!Taking(p)
      BY <2>1, <2>3 DEF Reporting!Taking
    <3> QED
      BY <2>1, <2>2, <2>3, <3>1, ReportAside
  <2>4. CASE v4[p].job = "due"
    <3>1. \A q \in Passes : v4'[q] = IF q = p THEN x ELSE v4[q]
      BY <2>1 DEF ReportTypes
    <3>2. /\ v4[p].occ \in 1..MaxSlots /\ v4[p].occ <= v4[p].at /\ v4[p].at <= v1
          /\ 1..MaxSlots \subseteq v7 \/ (v4[p].occ = v2.next /\ \A q \in Passes \ {p} : ~Reporting!Taking(q))
          /\ v4[p].occ \notin v7 => v6[v4[p].occ] = 0
      BY <1>b, <2>1, <2>4 DEF ReportPass, Reporting!Inv, Reporting!OnePass, Reporting!Slots, Reporting!Taking
    <3>3. v6' \in [1..MaxSlots -> Nat] /\ \A o \in 1..MaxSlots : v6'[o] = IF o = v4[p].occ THEN v6[o] + 1 ELSE v6[o]
      BY <2>1, <2>4, <3>2 DEF ReportTypes
    <3>4. ReportTypes'
      BY <2>1, <2>2, <3>1, <3>3 DEF ReportTypes
    <3>5. v5[v4[p].occ] \in Nat /\ (v4[p].occ \notin v7 => v5[v4[p].occ] <= 0)
      BY <3>2 DEF ReportTypes, Reporting!Inv, Reporting!OneReportPerOccurrence, Reporting!Slots
    <3>6. Reporting!OneReportPerOccurrence'
      <4> SUFFICES ASSUME NEW o \in 1..MaxSlots, o \notin v7
                   PROVE  v6'[o] <= 1 /\ v5[o] <= v6'[o] /\ (v6'[o] > 0 => o <= v1)
        BY <2>1 DEF Reporting!OneReportPerOccurrence, Reporting!Slots
      <4>1. CASE o = v4[p].occ
        <5>1. v6'[o] = 1 /\ v5[o] = 0
          BY <3>2, <3>3, <3>5, <4>1
        <5>2. v4[p].at \in Nat /\ v1 \in Nat /\ o \in Nat
          BY <1>b, SlotsAssumption DEF ReportPass, ReportTypes
        <5> QED
          BY <3>2, <4>1, <5>1, <5>2
      <4>2. CASE o # v4[p].occ
        BY <3>3, <4>2 DEF Reporting!Inv, Reporting!OneReportPerOccurrence, Reporting!Slots
      <4> QED
        BY <4>1, <4>2
    <3>7. \A q \in Passes : Reporting!Taking(q)' <=> Reporting!Taking(q)
      BY <2>1, <2>2, <2>4, <3>1 DEF Reporting!Taking
    <3>8. Reporting!OnePass'
      <4> SUFFICES ASSUME NEW q \in Passes
                   PROVE  /\ v4'[q].pc = "advance" => v4'[q].job = "due"
                          /\ Reporting!Taking(q) =>
                               /\ v4'[q].occ <= v4'[q].at /\ v4'[q].at <= v1
                               /\ 1..MaxSlots \subseteq v7 \/ (v4'[q].occ = v2.next /\ \A r \in Passes \ {q} : ~Reporting!Taking(r))
                               /\ v4'[q].occ \notin v7 =>
                                    /\ v4'[q].pc = "create" => v6'[v4'[q].occ] = 0
                                    /\ v4'[q].pc \in {"start", "build", "mail"} => v6'[v4'[q].occ] = 1 /\ v5[v4'[q].occ] = 0
        BY <2>1, <3>7 DEF Reporting!OnePass, Reporting!Slots
      <4>1. CASE q = p
        BY <2>2, <3>1, <3>2, <3>3, <3>5, <4>1
      <4>2. CASE q # p
        <5>1. v4'[q] = v4[q] /\ v4[q].occ \in 1..MaxSlots
          BY <1>b, <3>1, <4>2 DEF ReportPass
        <5>2. Reporting!Taking(q) => 1..MaxSlots \subseteq v7
          BY <3>2, <4>2
        <5> QED
          BY <5>1, <5>2 DEF Reporting!Inv, Reporting!OnePass
      <4> QED
        BY <4>1, <4>2
    <3>9. Reporting!MovedOn'
      BY <2>1, <2>2, <2>4, <3>1, <3>3, <3>7 DEF Reporting!Inv, Reporting!MovedOn, Reporting!Slots, Reporting!Taking
    <3> QED
      BY <3>4, <3>6, <3>8, <3>9 DEF Reporting!Inv
  <2> QED
    BY <2>3, <2>4
<1>5. ASSUME NEW p \in Passes, Reporting!StartRun(p) PROVE Goal
  <2> DEFINE x == [v4[p] EXCEPT !.pc = "build"]
  <2>1. v4[p].pc = "start" /\ v4' = [v4 EXCEPT ![p] = x] /\ UNCHANGED <<v1, v2, v5, v6, v7>>
    BY <1>5 DEF Reporting!StartRun
  <2>2. ReportPass(x) /\ x.pc = "build" /\ x.job = v4[p].job /\ x.occ = v4[p].occ /\ x.at = v4[p].at
    BY <1>b DEF ReportPass
  <2> HIDE DEF x
  <2> QED
    BY <2>1, <2>2, ReportGoesOn
<1>6. ASSUME NEW p \in Passes, NEW ok \in BOOLEAN, Reporting!EndRun(p, ok) PROVE Goal
  <2>1. /\ v4[p].pc = "build" /\ UNCHANGED <<v1, v2, v5, v6, v7>>
        /\ v4' = [v4 EXCEPT ![p] = CASE v4[p].job = "execute" -> Reporting!Rest
                                     [] v4[p].job = "due" /\ ~ok -> [v4[p] EXCEPT !.pc = "advance"]
                                     [] v4[p].job = "now" /\ ~ok -> Reporting!Rest
                                     [] OTHER -> [v4[p] EXCEPT !.pc = "mail"]]
    BY <1>6 DEF Reporting!EndRun
  <2>2. \A pc \in {"advance", "mail"} :
          LET x == [v4[p] EXCEPT !.pc = pc]
          IN  ReportPass(x) /\ x.pc = pc /\ x.job = v4[p].job /\ x.occ = v4[p].occ /\ x.at = v4[p].at
    BY <1>b DEF ReportPass
  <2>3. \/ v4[p].job # "due" /\ v4' = [v4 EXCEPT ![p] = Reporting!Rest]
        \/ v4[p].job = "due" /\ v4' = [v4 EXCEPT ![p] = [v4[p] EXCEPT !.pc = "advance"]]
        \/ v4' = [v4 EXCEPT ![p] = [v4[p] EXCEPT !.pc = "mail"]]
    BY <1>b, <2>1 DEF ReportPass
  <2>4. CASE v4[p].job # "due" /\ v4' = [v4 EXCEPT ![p] = Reporting!Rest]
    <3>1. ~Reporting!Taking(p)
      BY <2>4 DEF Reporting!Taking
    <3> QED
      BY <1>a, <2>1, <2>4, <3>1, ReportAside
  <2>5. CASE v4[p].job = "due" /\ v4' = [v4 EXCEPT ![p] = [v4[p] EXCEPT !.pc = "advance"]]
    BY <2>1, <2>2, <2>5, ReportGoesOn
  <2>6. CASE v4' = [v4 EXCEPT ![p] = [v4[p] EXCEPT !.pc = "mail"]]
    BY <2>1, <2>2, <2>6, ReportGoesOn
  <2> QED
    BY <2>3, <2>4, <2>5, <2>6
<1>7. ASSUME NEW p \in Passes, NEW ok \in BOOLEAN, Reporting!Mail(p, ok) PROVE Goal
  <2>1. /\ v4[p].pc = "mail" /\ UNCHANGED <<v1, v2, v6, v7>>
        /\ v4' = [v4 EXCEPT ![p] = IF v4[p].job = "due" THEN [v4[p] EXCEPT !.pc = "advance"] ELSE Reporting!Rest]
        /\ v5' = v5 \/ (v4[p].job = "due" /\ v5' = [v5 EXCEPT ![v4[p].occ] = v5[v4[p].occ] + 1])
    BY <1>7 DEF Reporting!Mail, Reporting!Mailed
  <2>2. CASE v4[p].job # "due"
    <3>1. v5' = v5 /\ v4' = [v4 EXCEPT ![p] = Reporting!Rest] /\ ~Reporting!Taking(p)
      BY <2>1, <2>2 DEF Reporting!Taking
    <3> QED
      BY <1>a, <2>1, <3>1, ReportAside
  <2>3. CASE v4[p].job = "due"
    <3> DEFINE x == [v4[p] EXCEPT !.pc = "advance"]
    <3>1. ReportPass(x) /\ x.pc = "advance" /\ x.job = v4[p].job /\ x.occ = v4[p].occ /\ x.at = v4[p].at
      BY <1>b DEF ReportPass
    <3>2. v4' = [v4 EXCEPT ![p] = x]
      BY <2>1, <2>3
    <3> HIDE DEF x
    <3>3. \A q \in Passes : v4'[q] = IF q = p THEN x ELSE v4[q]
      BY <3>2 DEF ReportTypes
    <3>4. /\ v4[p].occ \in 1..MaxSlots
          /\ 1..MaxSlots \subseteq v7 \/ (v4[p].occ = v2.next /\ \A q \in Passes \ {p} : ~Reporting!Taking(q))
          /\ v4[p].occ \notin v7 => v6[v4[p].occ] = 1 /\ v5[v4[p].occ] = 0
      BY <1>b, <2>1, <2>3 DEF ReportPass, Reporting!Inv, Reporting!OnePass, Reporting!Slots, Reporting!Taking
    <3>5. v5' \in [1..MaxSlots -> Nat] /\ \A o \in 1..MaxSlots : v5'[o] = v5[o] \/ (o = v4[p].occ /\ v5'[o] = v5[o] + 1)
      <4>1. v5 \in [1..MaxSlots -> Nat]
        BY DEF ReportTypes
      <4>2. v5[v4[p].occ] + 1 \in Nat
        BY <3>4, <4>1
      <4>3. CASE v5' = v5
        BY <4>1, <4>3
      <4>4. CASE v5' = [v5 EXCEPT ![v4[p].occ] = v5[v4[p].occ] + 1]
        BY <3>4, <4>1, <4>2, <4>4
      <4> QED
        BY <2>1, <4>3, <4>4
    <3>6. ReportTypes'
      BY <2>1, <3>1, <3>2, <3>3, <3>5 DEF ReportTypes
    <3>7. Reporting!OneReportPerOccurrence'
      BY <2>1, <3>4, <3>5 DEF Reporting!Inv, Reporting!OneReportPerOccurrence, Reporting!Slots
    <3>8. \A q \in Passes : Reporting!Taking(q)' <=> Reporting!Taking(q)
      BY <2>1, <2>3, <3>1, <3>3 DEF Reporting!Taking
    <3>9. Reporting!OnePass'
      <4> SUFFICES ASSUME NEW q \in Passes
                   PROVE  /\ v4'[q].pc = "advance" => v4'[q].job = "due"
                          /\ Reporting!Taking(q) =>
                               /\ v4'[q].occ <= v4'[q].at /\ v4'[q].at <= v1
                               /\ 1..MaxSlots \subseteq v7 \/ (v4'[q].occ = v2.next /\ \A r \in Passes \ {q} : ~Reporting!Taking(r))
                               /\ v4'[q].occ \notin v7 =>
                                    /\ v4'[q].pc = "create" => v6[v4'[q].occ] = 0
                                    /\ v4'[q].pc \in {"start", "build", "mail"} => v6[v4'[q].occ] = 1 /\ v5'[v4'[q].occ] = 0
        BY <2>1, <3>8 DEF Reporting!OnePass, Reporting!Slots
      <4>1. CASE q = p
        BY <2>3, <3>1, <3>3, <4>1 DEF Reporting!Inv, Reporting!OnePass, Reporting!Slots
      <4>2. CASE q # p
        <5>1. v4'[q] = v4[q] /\ v4[q].occ \in 1..MaxSlots
          BY <1>b, <3>3, <4>2 DEF ReportPass
        <5>2. Reporting!Taking(q) => 1..MaxSlots \subseteq v7
          BY <3>4, <4>2
        <5> QED
          BY <5>1, <5>2 DEF Reporting!Inv, Reporting!OnePass
      <4> QED
        BY <4>1, <4>2
    <3>10. Reporting!MovedOn'
      BY <2>1, <3>1, <3>3, <3>8 DEF Reporting!Inv, Reporting!MovedOn, Reporting!Slots
    <3> QED
      BY <3>6, <3>7, <3>9, <3>10 DEF Reporting!Inv
  <2> QED
    BY <2>2, <2>3
<1>8. ASSUME NEW p \in Passes, Reporting!Advance(p) \/ Reporting!Fail(p) \/ Reporting!Abort(p) PROVE Goal
  <2>1. /\ v4[p].pc # "rest" /\ v4' = [v4 EXCEPT ![p] = Reporting!Rest] /\ UNCHANGED <<v1, v5, v6>>
        /\ \/ v4[p].job # "due" /\ v2' = v2 /\ v7' = v7
           \/ v4[p].job = "due" /\ v2' = v2 /\ v7' = v7 \union {v4[p].occ}
           \/ v4[p].job = "due" /\ v2' = [v2 EXCEPT !.next = v4[p].at + 1] /\ v7' = v7
    <3>1. v4[p].pc = "advance" => v4[p].job = "due"
      BY DEF Reporting!Inv, Reporting!OnePass
    <3> QED
      BY <1>8, <3>1 DEF Reporting!Advance, Reporting!Fail, Reporting!Abort
  <2>2. Reporting!Taking(p) <=> v4[p].job = "due"
    BY <2>1 DEF Reporting!Taking
  <2>3. CASE v4[p].job # "due"
    BY <1>a, <2>1, <2>2, <2>3, ReportAside
  <2>4. CASE v4[p].job = "due"
    BY <2>1, <2>2, <2>4, ReportEnds
  <2> QED
    BY <2>3, <2>4
<1>9. ASSUME NEW r, Reporting!DeleteRun(r) PROVE Goal
  <2>1. UNCHANGED <<v1, v2, v4, v5, v6, v7>>
    BY <1>9 DEF Reporting!DeleteRun
  <2>2. \A q \in Passes : Reporting!Taking(q)' <=> Reporting!Taking(q)
    BY <2>1 DEF Reporting!Taking
  <2> QED
    BY <2>1, <2>2 DEF ReportTypes, Reporting!Inv, Reporting!OneReportPerOccurrence, Reporting!OnePass, Reporting!MovedOn, Reporting!Slots
<1>10. ASSUME NEW on \in BOOLEAN, NEW next \in {v2.next, v1}, Reporting!UpdateSchedule(on, next) PROVE Goal
  <2>1. /\ v2' = [v2 EXCEPT !.enabled = on, !.next = next] /\ UNCHANGED <<v1, v4, v5, v6>>
        /\ v7' = IF next # v2.next THEN 1..MaxSlots ELSE v7
    BY <1>10 DEF Reporting!UpdateSchedule, Reporting!Slots
  <2>2. v2' \in [enabled : BOOLEAN, next : 1..(MaxSlots + 1)] /\ v2'.next = next
    <3>1. next \in 1..(MaxSlots + 1)
      BY SlotsAssumption DEF ReportTypes
    <3> QED
      BY <2>1, <3>1 DEF ReportTypes
  <2>3. v7 \subseteq v7' /\ (1..MaxSlots \subseteq v7' \/ v2'.next = v2.next)
    BY <2>1, <2>2 DEF ReportTypes
  <2>4. ReportTypes'
    BY <2>1, <2>2 DEF ReportTypes
  <2>5. Reporting!OneReportPerOccurrence'
    BY <2>1, <2>3 DEF Reporting!Inv, Reporting!OneReportPerOccurrence, Reporting!Slots
  <2>6. \A q \in Passes : Reporting!Taking(q)' <=> Reporting!Taking(q)
    BY <2>1 DEF Reporting!Taking
  <2>7. Reporting!OnePass'
    BY <2>1, <2>3, <2>6 DEF Reporting!Inv, Reporting!OnePass, Reporting!Slots
  <2>8. Reporting!MovedOn'
    BY <2>1, <2>3, <2>6 DEF Reporting!Inv, Reporting!MovedOn, Reporting!Slots
  <2> QED
    BY <2>4, <2>5, <2>7, <2>8 DEF Reporting!Inv
<1>11. Goal
  <2> HIDE DEF Goal
  <2> QED
    BY <1>1, <1>2, <1>3, <1>4, <1>5, <1>6, <1>7, <1>8, <1>9, <1>10 DEF Reporting!Next
<1> QED
  BY <1>11

\* Unless two passes overlapped, someone set the date or a pass was cut off, an occurrence of a report's
\* schedule makes one run and one e-mail, and never before its time (process_due_schedules,
\* deliver_run_email), for any number of passes, runs and periods.
THEOREM OneReportPerOccurrenceCorrect == OfficeSpec => []OneReportPerOccurrence
<1> DEFINE I == focus = "reports" => Reporting!Inv /\ ReportTypes
<1>1. OfficeInit => I
  <2> SUFFICES ASSUME Reporting!Init PROVE Reporting!Inv /\ ReportTypes
    BY DEF OfficeInit
  <2>1. ReportPass(Reporting!Rest) /\ Reporting!Rest.pc = "rest"
    BY SlotsAssumption DEF ReportPass, Reporting!Rest
  <2>2. v6 = [o \in 1..MaxSlots |-> 0] /\ v5 = [o \in 1..MaxSlots |-> 0] /\ v7 = {} /\ v4 = [p \in Passes |-> Reporting!Rest]
    BY DEF Reporting!Init, Reporting!Slots
  <2>3. v1 \in 1..MaxSlots /\ v2 \in [enabled : BOOLEAN, next : 1..(MaxSlots + 1)]
    BY SlotsAssumption DEF Reporting!Init
  <2>4. ReportTypes
    BY <2>1, <2>2, <2>3 DEF ReportTypes
  <2> QED
    BY <2>1, <2>2, <2>4 DEF Reporting!Inv, Reporting!OneReportPerOccurrence, Reporting!OnePass, Reporting!MovedOn,
       Reporting!Slots, Reporting!Taking
<1>2. I /\ [OfficeNext]_OfficeVars => I'
  <2> SUFFICES ASSUME Reporting!Inv, ReportTypes, [OfficeNext]_OfficeVars, focus = "reports"
               PROVE  Reporting!Inv' /\ ReportTypes'
    BY Focused
  <2>1. CASE UNCHANGED slots
    <3>1. UNCHANGED <<v1, v2, v4, v5, v6, v7>>
      BY <2>1 DEF slots
    <3>2. \A q \in Passes : Reporting!Taking(q)' <=> Reporting!Taking(q)
      BY <3>1 DEF Reporting!Taking
    <3> QED
      BY <3>1, <3>2 DEF ReportTypes, Reporting!Inv, Reporting!OneReportPerOccurrence, Reporting!OnePass, Reporting!MovedOn,
         Reporting!Slots
  <2> QED
    BY <2>1, Focused, ReportKeeps
<1>3. I => OneReportPerOccurrence
  BY DEF OneReportPerOccurrence, Reporting!Inv
<1> QED
  BY <1>1, <1>2, <1>3, PTL DEF OfficeSpec

---------------------------------------------------------------------------
(* Psa *)

PsaPush == [phase : {"idle", "call", "write"}, found : Nat, made : Nat, force : BOOLEAN]
PsaTypes ==
  /\ v2 = [to |-> v2.to, shows |-> v2.shows] /\ v4 \in Seq(Provider!External)
  /\ v5 \in Seq([ticket : Nat, status : Provider!External]) /\ Len(v5) <= MaxEvents
  /\ v6 \in [1..MaxEvents -> {"none", "processed", "error"}] /\ v7 \in [Pushers -> PsaPush]
  /\ v8 = [event |-> v8.event, hit |-> v8.hit] /\ v9 \in Nat /\ v10 \in BOOLEAN /\ v11 \in BOOLEAN

\* A push begins, or is cut off: what the provider and the link have stays.
LEMMA PsaPushes ==
  ASSUME Provider!Inv, PsaTypes, NEW p \in Pushers, NEW x \in PsaPush, v7' = [v7 EXCEPT ![p] = x],
         UNCHANGED <<v2, v4, v5, v6, v8, v9, v11>>, v10' \in BOOLEAN, v10 => v10',
         x.force <=> x.found # 0, x.phase # "write",
         v10' \/ (v7[p] = Provider!NoPush /\ (\A q \in Pushers : v7[q] = Provider!NoPush) /\ (x.found = 0 => v2.to = 0))
  PROVE  Provider!Inv' /\ PsaTypes'
<1>1. \A q \in Pushers : v7'[q] = IF q = p THEN x ELSE v7[q]
  BY DEF PsaTypes
<1>2. PsaTypes'
  BY DEF PsaTypes
<1>3. Provider!PushedOnce'
  BY DEF Provider!Inv, Provider!PushedOnce
<1>4. Provider!Alone'
  <2>1. v2.to \in 0..Len(v4)
        /\ \A q \in Pushers : /\ v7[q].force <=> v7[q].found # 0
                              /\ v7[q].phase = "write" => v7[q].made \in 1..Len(v4)
    BY DEF Provider!Inv, Provider!Alone
  <2>2. CASE v10'
    BY <1>1, <2>1, <2>2 DEF Provider!Alone
  <2>3. CASE ~v10'
    <3>1. v7[p] = Provider!NoPush /\ (\A q \in Pushers : v7[q] = Provider!NoPush) /\ (x.found = 0 => v2.to = 0) /\ ~v10
      BY <2>3
    <3>2. Provider!NoPush.phase = "idle"
      BY DEF Provider!NoPush
    <3>3. v2.to = 0 => Len(v4) = 0 /\ v9 = 0
      BY <3>1, <3>2 DEF Provider!Inv, Provider!Alone
    <3>4. \A q, r \in Pushers : v7'[q] # Provider!NoPush /\ v7'[r] # Provider!NoPush => q = r
      BY <1>1, <3>1
    <3>5. \A q \in Pushers : v7'[q] # Provider!NoPush /\ v7'[q].found = 0 => v2.to = 0
      BY <1>1, <3>1
    <3> QED
      BY <1>1, <2>1, <3>3, <3>4, <3>5 DEF Provider!Alone
  <2> QED
    BY <2>2, <2>3
<1>5. Provider!Told'
  BY DEF Provider!Inv, Provider!Told
<1>6. Provider!Heard'
  BY DEF Provider!Inv, Provider!Heard, Provider!Unanswered
<1> QED
  BY <1>2, <1>3, <1>4, <1>5, <1>6 DEF Provider!Inv

\* The provider makes a ticket, or none.
LEMMA PsaCalls ==
  ASSUME Provider!Inv, PsaTypes, NEW p \in Pushers, NEW reply, Provider!Call(p, reply)
  PROVE  Provider!Inv' /\ PsaTypes'
<1>1. reply \in [ok : BOOLEAN, made : BOOLEAN] /\ (reply.ok => reply.made)
  BY DEF Provider!Call, Provider!Replies
<1>2. PICK x : /\ v7' = [v7 EXCEPT ![p] = x] /\ v7[p].phase = "call"
               /\ \/ ~reply.ok /\ x = Provider!NoPush
                  \/ reply.ok /\ x = [v7[p] EXCEPT !.phase = "write", !.made = Len(v4')]
  BY <1>1 DEF Provider!Call
<1>3. /\ v4' = IF reply.made THEN Append(v4, Provider!FirstStatus) ELSE v4
      /\ v9' = IF reply.made /\ v7[p].force THEN v9 + 1 ELSE v9
      /\ v10' = (v10 \/ (reply.made /\ ~reply.ok)) /\ UNCHANGED <<v2, v5, v6, v8, v11>>
  BY DEF Provider!Call
<1>4. /\ v4' \in Seq(Provider!External) /\ Len(v4) \in Nat /\ Len(v4') = IF reply.made THEN Len(v4) + 1 ELSE Len(v4)
      /\ \A t \in 1..Len(v4) : v4'[t] = v4[t]
      /\ reply.made => v4'[Len(v4) + 1] = Provider!FirstStatus
  BY <1>3, Z3 DEF PsaTypes, Provider!External, Provider!FirstStatus
<1>5. Provider!NoPush \in PsaPush /\ ~Provider!NoPush.force /\ Provider!NoPush.found = 0 /\ Provider!NoPush.phase = "idle"
  BY DEF Provider!NoPush, PsaPush
<1>6. /\ x \in PsaPush /\ (x.force <=> x.found # 0)
      /\ IF reply.ok THEN x.phase = "write" /\ x.made = Len(v4') /\ x.found = v7[p].found ELSE x = Provider!NoPush
  <2>1. v7[p] \in PsaPush /\ (v7[p].force <=> v7[p].found # 0)
    BY DEF PsaTypes, Provider!Inv, Provider!Alone
  <2>2. Len(v4') \in Nat
    BY <1>4
  <2> QED
    BY <1>2, <1>5, <2>1, <2>2 DEF PsaPush
<1>7. \A q \in Pushers : v7'[q] = IF q = p THEN x ELSE v7[q]
  BY <1>2 DEF PsaTypes
<1>8. PsaTypes'
  BY <1>1, <1>2, <1>3, <1>4, <1>6 DEF PsaTypes
<1>9. v7[p] # Provider!NoPush /\ (v7[p].force <=> v7[p].found # 0)
  BY <1>2, <1>5 DEF Provider!Inv, Provider!Alone
<1>10. ~v10 /\ v7[p].found = 0 => v2.to = 0 /\ Len(v4) = 0 /\ v9 = 0
  <2> SUFFICES ASSUME ~v10, v7[p].found = 0 PROVE v2.to = 0 /\ Len(v4) = 0 /\ v9 = 0
    OBVIOUS
  <2>1. v2.to = 0
    BY <1>9 DEF Provider!Inv, Provider!Alone
  <2>2. \A q \in Pushers : v7[q].phase # "write"
    BY <1>2, <1>5, <1>9 DEF Provider!Inv, Provider!Alone
  <2> QED
    BY <2>1, <2>2 DEF Provider!Inv, Provider!Alone
<1>11. Provider!PushedOnce'
  BY <1>1, <1>3, <1>4, <1>9, <1>10 DEF Provider!Inv, Provider!PushedOnce, PsaTypes
<1>12. Provider!Alone'
  <2>1. /\ v2.to \in 0..Len(v4')
        /\ \A q \in Pushers : /\ v7'[q].force <=> v7'[q].found # 0
                              /\ v7'[q].phase = "write" => v7'[q].made \in 1..Len(v4')
    BY <1>1, <1>4, <1>5, <1>6, <1>7 DEF Provider!Inv, Provider!Alone
  <2>2. ~v10' => \A q, r \in Pushers : v7'[q] # Provider!NoPush /\ v7'[r] # Provider!NoPush => q = r
    BY <1>3, <1>7, <1>9 DEF Provider!Inv, Provider!Alone
  <2>3. ~v10' => \A q \in Pushers : v7'[q] # Provider!NoPush /\ v7'[q].found = 0 => v2.to = 0
    BY <1>3, <1>6, <1>7, <1>9 DEF Provider!Inv, Provider!Alone
  <2>4. ~v10' /\ v2.to = 0 => (Len(v4') = 0 /\ v9' = 0) \/ \E q \in Pushers : v7'[q].phase = "write"
    <3> SUFFICES ASSUME ~v10', v2.to = 0, ~reply.ok PROVE Len(v4') = 0 /\ v9' = 0
      BY <1>6, <1>7
    <3>1. ~reply.made /\ Len(v4') = Len(v4) /\ v9' = v9 /\ ~v10
      BY <1>1, <1>3, <1>4
    <3>2. \A q \in Pushers : v7[q].phase # "write"
      BY <1>2, <1>5, <1>9, <3>1 DEF Provider!Inv, Provider!Alone
    <3> QED
      BY <3>1, <3>2 DEF Provider!Inv, Provider!Alone
  <2> QED
    BY <1>3, <2>1, <2>2, <2>3, <2>4 DEF Provider!Alone
<1>13. Provider!Told'
  <2>1. \A e \in 1..Len(v5) : v5[e].ticket \in 1..Len(v4)
    BY DEF Provider!Inv, Provider!Told
  <2>2. \A e \in 1..Len(v5) : v5[e].ticket \in 1..Len(v4')
    BY <1>4, <2>1
  <2>3. ASSUME NEW t \in 1..Len(v4')
        PROVE  \/ v4'[t] = Provider!FirstStatus /\ \A e \in 1..Len(v5) : v5[e].ticket # t
               \/ \E e \in 1..Len(v5) : /\ v5[e].ticket = t /\ v4'[t] = v5[e].status
                                        /\ \A f \in e + 1..Len(v5) : v5[f].ticket # t
    <3>1. CASE t \in 1..Len(v4)
      <4>1. v4'[t] = v4[t]
        BY <1>4, <3>1
      <4>2. \/ v4[t] = Provider!FirstStatus /\ \A e \in 1..Len(v5) : v5[e].ticket # t
            \/ \E e \in 1..Len(v5) : /\ v5[e].ticket = t /\ v4[t] = v5[e].status
                                     /\ \A f \in e + 1..Len(v5) : v5[f].ticket # t
        BY <3>1 DEF Provider!Inv, Provider!Told
      <4> QED
        BY <4>1, <4>2
    <3>2. CASE t \notin 1..Len(v4)
      <4>1. t = Len(v4) + 1 /\ reply.made
        BY <1>1, <1>4, <3>2
      <4> QED
        BY <1>4, <2>1, <3>2, <4>1
    <3> QED
      BY <3>1, <3>2
  <2>4. v5' = v5
    BY <1>3
  <2>5. \A e \in 1..Len(v5') : v5'[e].ticket \in 1..Len(v4')
    BY <2>2, <2>4
  <2>6. ASSUME NEW t \in 1..Len(v4')
        PROVE  \/ v4'[t] = Provider!FirstStatus /\ \A e \in 1..Len(v5') : v5'[e].ticket # t
               \/ \E e \in 1..Len(v5') : /\ v5'[e].ticket = t /\ v4'[t] = v5'[e].status
                                         /\ \A f \in e + 1..Len(v5') : v5'[f].ticket # t
    BY <2>3, <2>4
  <2>7. Provider!FirstStatus' = Provider!FirstStatus
    BY DEF Provider!FirstStatus
  <2> QED
    BY <2>5, <2>6, <2>7 DEF Provider!Told
<1>14. Provider!Heard'
  BY <1>3 DEF Provider!Inv, Provider!Heard, Provider!Unanswered
<1> QED
  BY <1>8, <1>11, <1>12, <1>13, <1>14 DEF Provider!Inv
\* The commit of a push: the first link, or the one of a forced push, which has not heard of any event.
LEMMA PsaCommits ==
  ASSUME Provider!Inv, PsaTypes, NEW p \in Pushers, Provider!CommitPush(p)
  PROVE  Provider!Inv' /\ PsaTypes'
<1>1. /\ v7[p].phase = "write" /\ v7' = [v7 EXCEPT ![p] = Provider!NoPush] /\ UNCHANGED <<v4, v5, v6, v8, v9, v10>>
      /\ \/ v2' = v2 /\ v11' = v11 /\ v2.to # 0 /\ v7[p].found = 0
         \/ /\ v2' = [to |-> v7[p].made, shows |-> Provider!FirstStatus]
            /\ v11' = (v8.event # 0 \/ \E e \in 1..Len(v5) : v5[e].ticket = v7[p].made)
  BY DEF Provider!CommitPush
<1>2. Provider!NoPush \in PsaPush /\ ~Provider!NoPush.force /\ Provider!NoPush.found = 0 /\ Provider!NoPush.phase = "idle"
  BY DEF Provider!NoPush, PsaPush
<1>3. \A q \in Pushers : v7'[q] = IF q = p THEN Provider!NoPush ELSE v7[q]
  BY <1>1 DEF PsaTypes
<1>4. v7[p] # Provider!NoPush /\ v7[p].made \in 1..Len(v4)
  BY <1>1, <1>2 DEF Provider!Inv, Provider!Alone
<1>5. v2'.to \in 1..Len(v4)
  BY <1>1, <1>4 DEF Provider!Inv, Provider!Alone
<1>6. v2' = [to |-> v2'.to, shows |-> v2'.shows] /\ v11' \in BOOLEAN
  BY <1>1 DEF PsaTypes
<1>7. PsaTypes'
  BY <1>1, <1>2, <1>6 DEF PsaTypes
<1>8. Provider!PushedOnce'
  BY <1>1 DEF Provider!Inv, Provider!PushedOnce
<1>9. Provider!Alone'
  <2>1. /\ v2'.to \in 0..Len(v4)
        /\ \A q \in Pushers : /\ v7'[q].force <=> v7'[q].found # 0
                              /\ v7'[q].phase = "write" => v7'[q].made \in 1..Len(v4)
    BY <1>2, <1>3, <1>5 DEF Provider!Inv, Provider!Alone
  <2>2. ~v10 => \A q \in Pushers : v7'[q] = Provider!NoPush
    BY <1>3, <1>4 DEF Provider!Inv, Provider!Alone
  <2>3. v2'.to # 0
    BY <1>5
  <2> QED
    BY <1>1, <2>1, <2>2, <2>3 DEF Provider!Alone
<1>10. Provider!Told'
  <2>1. v4' = v4 /\ v5' = v5
    BY <1>1
  <2>2. Provider!Told
    BY DEF Provider!Inv
  <2> QED
    BY <2>1, <2>2 DEF Provider!Told
<1>11. Provider!Heard'
  <2>1. CASE v2' = v2 /\ v11' = v11
    BY <1>1, <2>1 DEF Provider!Inv, Provider!Heard, Provider!Unanswered
  <2>2. CASE /\ v2' = [to |-> v7[p].made, shows |-> Provider!FirstStatus]
             /\ v11' = (v8.event # 0 \/ \E e \in 1..Len(v5) : v5[e].ticket = v7[p].made)
    <3>1. /\ \A e \in 1..MaxEvents : e > Len(v5) => v6[e] = "none"
          /\ IF v8.event = 0 THEN v8 = Provider!NoHook ELSE v8.event \in 1..Len(v5) /\ v6[v8.event] = "none"
      BY DEF Provider!Inv, Provider!Heard, Provider!Unanswered
    <3>2. v2'.to = v7[p].made /\ v2'.shows = Provider!FirstStatus
      BY <2>2
    <3>3. v11' \/ (v8.event = 0 /\ \A e \in 1..Len(v5) : v5[e].ticket # v2'.to)
      BY <2>2, <3>2
    <3> QED
      BY <1>1, <3>1, <3>2, <3>3 DEF Provider!Heard, Provider!Unanswered
  <2> QED
    BY <1>1, <2>1, <2>2
<1> QED
  BY <1>7, <1>8, <1>9, <1>10, <1>11 DEF Provider!Inv

\* An external ticket changes, and an event tells it.
LEMMA PsaMoves ==
  ASSUME Provider!Inv, PsaTypes, NEW t \in 1..MaxMade, NEW status \in Provider!External, Provider!Moves(t, status)
  PROVE  Provider!Inv' /\ PsaTypes'
<1> DEFINE n == Len(v5) + 1
<1>1. /\ t \in 1..Len(v4) /\ Len(v5) < MaxEvents /\ v4' = [v4 EXCEPT ![t] = status]
      /\ v5' = Append(v5, [ticket |-> t, status |-> status]) /\ UNCHANGED <<v2, v6, v7, v8, v9, v10, v11>>
  BY DEF Provider!Moves
<1>2. Len(v5) \in Nat /\ Len(v4) \in Nat /\ t \in Nat /\ n \in 1..MaxEvents
  BY <1>1, ProviderAssumption DEF PsaTypes
<1>3. v4' \in Seq(Provider!External) /\ Len(v4') = Len(v4) /\ \A u \in 1..Len(v4) : v4'[u] = IF u = t THEN status ELSE v4[u]
  BY <1>1 DEF PsaTypes
<1>4. [ticket |-> t, status |-> status] \in [ticket : Nat, status : Provider!External]
  BY <1>2
<1>5. /\ v5' \in Seq([ticket : Nat, status : Provider!External]) /\ Len(v5') = n
      /\ \A e \in 1..Len(v5) : v5'[e] = v5[e]
  BY <1>1, <1>4 DEF PsaTypes
<1>6. v5'[n].ticket = t /\ v5'[n].status = status
  BY <1>1, <1>4 DEF PsaTypes
<1>7. n <= MaxEvents
  BY <1>2
<1> HIDE DEF n
<1>8. PsaTypes'
  BY <1>1, <1>3, <1>5, <1>7 DEF PsaTypes
<1>9. Provider!PushedOnce'
  BY <1>1, <1>3 DEF Provider!Inv, Provider!PushedOnce
<1>10. Provider!Alone'
  BY <1>1, <1>3 DEF Provider!Inv, Provider!Alone
<1>11. n = Len(v5) + 1
  BY DEF n
<1>12. Provider!Told'
  <2>1. \A e \in 1..n : v5'[e].ticket \in 1..Len(v4)
    BY <1>1, <1>2, <1>5, <1>6, <1>11 DEF Provider!Inv, Provider!Told
  <2>2. ASSUME NEW u \in 1..Len(v4)
        PROVE  \/ v4'[u] = Provider!FirstStatus /\ \A e \in 1..n : v5'[e].ticket # u
               \/ \E e \in 1..n : /\ v5'[e].ticket = u /\ v4'[u] = v5'[e].status
                                  /\ \A f \in e + 1..n : v5'[f].ticket # u
    <3>1. CASE u = t
      <4>1. v4'[u] = v5'[n].status /\ v5'[n].ticket = u /\ n \in 1..n /\ n + 1..n = {}
        BY <1>2, <1>3, <1>6, <1>11, <3>1
      <4> QED
        BY <4>1
    <3>2. CASE u # t
      <4>1. v4'[u] = v4[u]
        BY <1>3, <3>2
      <4>2. v5'[n].ticket # u
        BY <1>6, <3>2
      <4>3. CASE v4[u] = Provider!FirstStatus /\ \A e \in 1..Len(v5) : v5[e].ticket # u
        BY <1>2, <1>5, <1>11, <4>1, <4>2, <4>3
      <4>4. ASSUME NEW e \in 1..Len(v5), v5[e].ticket = u, v4[u] = v5[e].status, \A f \in e + 1..Len(v5) : v5[f].ticket # u
            PROVE  \E g \in 1..n : /\ v5'[g].ticket = u /\ v4'[u] = v5'[g].status
                                   /\ \A f \in g + 1..n : v5'[f].ticket # u
        <5>1. e \in 1..n /\ v5'[e] = v5[e]
          BY <1>2, <1>5, <1>11
        <5>2. \A f \in e + 1..n : f = n \/ (f \in e + 1..Len(v5) /\ v5'[f] = v5[f])
          BY <1>2, <1>5, <1>11
        <5>3. \A f \in e + 1..n : v5'[f].ticket # u
          BY <4>2, <4>4, <5>2
        <5> QED
          BY <4>1, <4>4, <5>1, <5>3
      <4> QED
        BY <4>3, <4>4 DEF Provider!Inv, Provider!Told
    <3> QED
      BY <3>1, <3>2
  <2> QED
    BY <1>3, <1>5, <2>1, <2>2 DEF Provider!Told
<1>13. Provider!Heard'
  <2>1. /\ \A e \in 1..MaxEvents : e > Len(v5) => v6[e] = "none"
        /\ IF v8.event = 0 THEN v8 = Provider!NoHook ELSE v8.event \in 1..Len(v5) /\ v6[v8.event] = "none"
    BY DEF Provider!Inv, Provider!Heard, Provider!Unanswered
  <2>2. v6[n] = "none"
    BY <1>2, <1>11, <2>1
  <2>3. /\ \A e \in 1..MaxEvents : e > n => v6[e] = "none"
        /\ IF v8.event = 0 THEN v8 = Provider!NoHook ELSE v8.event \in 1..n /\ v6[v8.event] = "none"
    BY <1>2, <1>11, <2>1
  <2>4. ASSUME ~v11, v2.to # 0
        PROVE  /\ v8.event # 0 => (v8.hit <=> v5'[v8.event].ticket = v2.to)
               /\ \/ v2.shows = Provider!FirstStatus /\ \A e \in 1..n : v5'[e].ticket = v2.to => v6[e] = "none"
                  \/ \E e \in 1..n : /\ v5'[e].ticket = v2.to /\ v2.shows = v5'[e].status /\ v6[e] # "none"
                                     /\ \A f \in e + 1..n : v5'[f].ticket = v2.to => v6[f] = "none"
    <3>1. v8.event # 0 => (v8.hit <=> v5'[v8.event].ticket = v2.to)
      BY <1>5, <2>1, <2>4 DEF Provider!Inv, Provider!Heard
    <3>2. CASE v2.shows = Provider!FirstStatus /\ \A e \in 1..Len(v5) : v5[e].ticket = v2.to => v6[e] = "none"
      <4>1. ASSUME NEW e \in 1..n, v5'[e].ticket = v2.to PROVE v6[e] = "none"
        <5>1. CASE e = n
          BY <2>2, <5>1
        <5>2. CASE e # n
          <6>1. e \in 1..Len(v5) /\ v5'[e] = v5[e]
            BY <1>2, <1>5, <1>11, <5>2
          <6> QED
            BY <3>2, <4>1, <6>1
        <5> QED
          BY <5>1, <5>2
      <4> QED
        BY <3>1, <3>2, <4>1
    <3>3. ASSUME NEW e \in 1..Len(v5), v5[e].ticket = v2.to, v2.shows = v5[e].status, v6[e] # "none",
                 \A f \in e + 1..Len(v5) : v5[f].ticket = v2.to => v6[f] = "none"
          PROVE  \E g \in 1..n : /\ v5'[g].ticket = v2.to /\ v2.shows = v5'[g].status /\ v6[g] # "none"
                                 /\ \A f \in g + 1..n : v5'[f].ticket = v2.to => v6[f] = "none"
      <4>1. e \in 1..n /\ v5'[e] = v5[e]
        BY <1>2, <1>5, <1>11
      <4>2. \A f \in e + 1..n : v5'[f].ticket = v2.to => v6[f] = "none"
        BY <1>2, <1>5, <1>11, <2>2, <3>3
      <4> QED
        BY <3>3, <4>1, <4>2
    <3> QED
      BY <2>4, <3>1, <3>2, <3>3 DEF Provider!Inv, Provider!Heard, Provider!Unanswered
  <2> QED
    BY <1>1, <1>5, <2>3, <2>4 DEF Provider!Heard, Provider!Unanswered
<1> QED
  BY <1>8, <1>9, <1>10, <1>12, <1>13 DEF Provider!Inv
\* A webhook begins, or comes to nothing.
LEMMA PsaHooks ==
  ASSUME Provider!Inv, PsaTypes, (\E e \in 1..Len(v5) : Provider!Receive(e)) \/ Provider!HookLost
  PROVE  Provider!Inv' /\ PsaTypes'
<1>1. /\ UNCHANGED <<v2, v4, v5, v6, v7, v9, v10, v11>>
      /\ \/ \E e \in 1..Len(v5) : v8' = [event |-> e, hit |-> (v2.to = v5[e].ticket)] /\ v6[e] = "none"
         \/ v8' = Provider!NoHook
  BY DEF Provider!Receive, Provider!HookLost, Provider!Duplicate
<1>2. Provider!NoHook = [event |-> 0, hit |-> FALSE]
  BY DEF Provider!NoHook
<1>3. PsaTypes'
  <2>1. v8' = [event |-> v8'.event, hit |-> v8'.hit]
    BY <1>1, <1>2
  <2> QED
    BY <1>1, <2>1 DEF PsaTypes
<1>4. Provider!PushedOnce' /\ Provider!Told'
  BY <1>1 DEF Provider!Inv, Provider!PushedOnce, Provider!Told
<1>5. Provider!Alone'
  BY <1>1 DEF Provider!Inv, Provider!Alone
<1>6. Provider!Heard'
  <2>1. /\ \A e \in 1..MaxEvents : e > Len(v5) => v6[e] = "none"
        /\ v11 \/ v2.to = 0 \/
             \/ v2.shows = Provider!FirstStatus /\ \A e \in 1..Len(v5) : v5[e].ticket = v2.to => v6[e] = "none"
             \/ \E e \in 1..Len(v5) : /\ v5[e].ticket = v2.to /\ v2.shows = v5[e].status /\ v6[e] # "none"
                                      /\ \A f \in e + 1..Len(v5) : v5[f].ticket = v2.to => v6[f] = "none"
    BY DEF Provider!Inv, Provider!Heard, Provider!Unanswered
  <2>2. /\ IF v8'.event = 0 THEN v8' = Provider!NoHook ELSE v8'.event \in 1..Len(v5) /\ v6[v8'.event] = "none"
        /\ v8'.event # 0 => (v8'.hit <=> v5[v8'.event].ticket = v2.to)
    <3>1. CASE v8' = Provider!NoHook
      BY <1>2, <3>1
    <3>2. ASSUME NEW e \in 1..Len(v5), v8' = [event |-> e, hit |-> (v2.to = v5[e].ticket)], v6[e] = "none"
          PROVE  v8'.event # 0 /\ v8'.event \in 1..Len(v5) /\ v6[v8'.event] = "none" /\ (v8'.hit <=> v5[v8'.event].ticket = v2.to)
      <4>0. PICK b \in BOOLEAN : b = (v2.to = v5[e].ticket)
        OBVIOUS
      <4>1. v8'.event = e /\ v8'.hit = b /\ e # 0
        BY <3>2, <4>0
      <4> QED
        BY <3>2, <4>0, <4>1
    <3> QED
      BY <1>1, <3>1, <3>2
  <2> QED
    BY <1>1, <2>1, <2>2 DEF Provider!Heard, Provider!Unanswered
<1> QED
  BY <1>3, <1>4, <1>5, <1>6 DEF Provider!Inv

\* The commit of a webhook.
LEMMA PsaSettles ==
  ASSUME Provider!Inv, PsaTypes, NEW ok \in BOOLEAN, NEW assigned \in BOOLEAN, Provider!Settle(ok, assigned)
  PROVE  Provider!Inv' /\ PsaTypes'
<1>1. PICK h : h = v8.event
  OBVIOUS
<1>2. PICK said \in {"processed", "error"} : v6' = [v6 EXCEPT ![h] = said]
  BY <1>1 DEF Provider!Settle
<1>3. /\ h # 0 /\ v8' = Provider!NoHook /\ UNCHANGED <<v4, v5, v7, v9, v10>>
      /\ IF v8.hit /\ assigned THEN v2' = [v2 EXCEPT !.shows = v5[h].status] ELSE v2' = v2
      /\ v11' = (v11 \/ ~assigned \/ Provider!Later(h) \/ (~v8.hit /\ v2.to = v5[h].ticket))
  BY <1>1 DEF Provider!Settle
<1>4. /\ h \in 1..Len(v5) /\ v6[h] = "none" /\ \A e \in 1..MaxEvents : e > Len(v5) => v6[e] = "none"
      /\ v11 \/ v2.to = 0 \/ (v8.hit <=> v5[h].ticket = v2.to)
      /\ v11 \/ v2.to = 0 \/
           \/ v2.shows = Provider!FirstStatus /\ \A e \in 1..Len(v5) : v5[e].ticket = v2.to => v6[e] = "none"
           \/ \E e \in 1..Len(v5) : /\ v5[e].ticket = v2.to /\ v2.shows = v5[e].status /\ v6[e] # "none"
                                    /\ \A f \in e + 1..Len(v5) : v5[f].ticket = v2.to => v6[f] = "none"
  BY <1>1, <1>3 DEF Provider!Inv, Provider!Heard, Provider!Unanswered
<1>5. Len(v5) \in Nat /\ Len(v5) <= MaxEvents /\ MaxEvents \in Nat
  BY ProviderAssumption DEF PsaTypes
<1>6. \A e \in 1..Len(v5) : v6'[e] = IF e = h THEN said ELSE v6[e]
  BY <1>2, <1>5 DEF PsaTypes
<1>7. \A e \in 1..MaxEvents : e > Len(v5) => v6'[e] = "none"
  BY <1>2, <1>4, <1>5 DEF PsaTypes
<1>8. v2'.to = v2.to /\ v2' = [to |-> v2'.to, shows |-> v2'.shows]
      /\ IF v8.hit /\ assigned THEN v2'.shows = v5[h].status ELSE v2' = v2
  BY <1>3 DEF PsaTypes
<1>9. PsaTypes'
  <2>1. v6' \in [1..MaxEvents -> {"none", "processed", "error"}]
    BY <1>2 DEF PsaTypes
  <2>2. v8' = [event |-> v8'.event, hit |-> v8'.hit]
    BY <1>3 DEF Provider!NoHook
  <2>3. v11' \in BOOLEAN
    BY <1>3
  <2> QED
    BY <1>3, <1>8, <2>1, <2>2, <2>3 DEF PsaTypes
<1>10. Provider!PushedOnce' /\ Provider!Told'
  BY <1>3 DEF Provider!Inv, Provider!PushedOnce, Provider!Told
<1>11. Provider!Alone'
  BY <1>3, <1>8 DEF Provider!Inv, Provider!Alone
<1>12. Provider!Heard'
  <2>1. ASSUME ~v11', v2.to # 0
        PROVE  \/ v2'.shows = Provider!FirstStatus /\ \A e \in 1..Len(v5) : v5[e].ticket = v2.to => v6'[e] = "none"
               \/ \E e \in 1..Len(v5) : /\ v5[e].ticket = v2.to /\ v2'.shows = v5[e].status /\ v6'[e] # "none"
                                        /\ \A f \in e + 1..Len(v5) : v5[f].ticket = v2.to => v6'[f] = "none"
    <3>1. assigned /\ ~v11 /\ ~Provider!Later(h) /\ (v8.hit <=> v5[h].ticket = v2.to)
      BY <1>3, <1>4, <2>1
    <3>2. CASE v5[h].ticket = v2.to
      <4>1. v2'.shows = v5[h].status /\ v6'[h] # "none"
        BY <1>4, <1>6, <1>8, <3>1, <3>2
      <4>2. \A f \in h + 1..Len(v5) : v5[f].ticket = v2.to => v6'[f] = "none"
        BY <1>4, <1>5, <1>6, <3>1, <3>2 DEF Provider!Later
      <4> QED
        BY <1>4, <3>2, <4>1, <4>2
    <3>3. CASE v5[h].ticket # v2.to
      <4>1. v2' = v2 /\ \A e \in 1..Len(v5) : v5[e].ticket = v2.to => v6'[e] = v6[e]
        BY <1>6, <1>8, <3>1, <3>3
      <4>2. CASE v2.shows = Provider!FirstStatus /\ \A e \in 1..Len(v5) : v5[e].ticket = v2.to => v6[e] = "none"
        BY <4>1, <4>2
      <4>3. ASSUME NEW e \in 1..Len(v5), v5[e].ticket = v2.to, v2.shows = v5[e].status, v6[e] # "none",
                   \A f \in e + 1..Len(v5) : v5[f].ticket = v2.to => v6[f] = "none"
            PROVE  /\ v2'.shows = v5[e].status /\ v6'[e] # "none"
                   /\ \A f \in e + 1..Len(v5) : v5[f].ticket = v2.to => v6'[f] = "none"
        <5>1. \A f \in e + 1..Len(v5) : f \in 1..Len(v5)
          BY <1>5
        <5> QED
          BY <4>1, <4>3, <5>1
      <4> QED
        BY <1>4, <2>1, <3>1, <4>2, <4>3
    <3> QED
      BY <3>2, <3>3
  <2>2. v8'.event = 0
    BY <1>3 DEF Provider!NoHook
  <2> QED
    BY <1>3, <1>7, <1>8, <2>1, <2>2 DEF Provider!Heard, Provider!Unanswered
<1> QED
  BY <1>9, <1>10, <1>11, <1>12 DEF Provider!Inv
\* A step keeps the invariant.
LEMMA PsaKeeps ==
  ASSUME Provider!Inv, PsaTypes, Provider!Next
  PROVE  Provider!Inv' /\ PsaTypes'
<1> DEFINE Goal == Provider!Inv' /\ PsaTypes'
<1>1. ASSUME UNCHANGED <<v2, v4, v5, v6, v7, v8, v9, v10, v11>> PROVE Goal
  <2>1. PsaTypes' /\ Provider!PushedOnce' /\ Provider!Told'
    BY <1>1 DEF PsaTypes, Provider!Inv, Provider!PushedOnce, Provider!Told
  <2>2. Provider!Alone' /\ Provider!Heard'
    BY <1>1 DEF Provider!Inv, Provider!Alone, Provider!Heard, Provider!Unanswered
  <2> QED
    BY <2>1, <2>2 DEF Provider!Inv
<1>2. ASSUME \/ \E on \in BOOLEAN : Provider!UpdateConnection(on)
             \/ \E answers \in [1..Provider!Adapters[v1.provider].test -> Provider!Answers \ {"no connection"}] : Provider!Test(answers)
      PROVE  Goal
  <2>1. UNCHANGED <<v2, v4, v5, v6, v7, v8, v9, v10, v11>>
    BY <1>2 DEF Provider!UpdateConnection, Provider!Test
  <2> QED
    BY <1>1, <2>1
<1>3. ASSUME NEW p \in Pushers, NEW force \in BOOLEAN, Provider!ReadLink(p, force) PROVE Goal
  <2>1. PICK f \in BOOLEAN : f = (force /\ v2.to # 0)
    OBVIOUS
  <2> DEFINE x == [phase |-> "call", found |-> v2.to, made |-> 0, force |-> f]
  <2>2. /\ v7[p] = Provider!NoPush /\ v7' = [v7 EXCEPT ![p] = x] /\ UNCHANGED <<v2, v4, v5, v6, v8, v9, v11>>
        /\ (v2.to = 0 \/ force) /\ v10' = (v10 \/ \E q \in Pushers : v7[q] # Provider!NoPush)
    BY <1>3, <2>1 DEF Provider!ReadLink, Provider!Returns
  <2>3. v2.to \in Nat
    BY DEF Provider!Inv, Provider!Alone, PsaTypes
  <2>4. x \in PsaPush /\ x.force = f /\ x.found = v2.to /\ x.phase = "call"
    BY <2>3 DEF PsaPush
  <2> HIDE DEF x
  <2>5. (x.force <=> x.found # 0) /\ (x.found = 0 => v2.to = 0)
    BY <2>1, <2>2, <2>4
  <2>6. v10' \in BOOLEAN /\ (v10 => v10') /\ (v10' \/ \A q \in Pushers : v7[q] = Provider!NoPush)
    BY <2>2
  <2> QED
    BY <2>2, <2>4, <2>5, <2>6, PsaPushes
<1>4. ASSUME NEW p \in Pushers, Provider!PushDies(p) PROVE Goal
  <2>1. v7' = [v7 EXCEPT ![p] = Provider!NoPush] /\ v10' = TRUE /\ UNCHANGED <<v2, v4, v5, v6, v8, v9, v11>>
    BY <1>4 DEF Provider!PushDies
  <2>2. Provider!NoPush \in PsaPush /\ ~Provider!NoPush.force /\ Provider!NoPush.found = 0 /\ Provider!NoPush.phase = "idle"
    BY DEF Provider!NoPush, PsaPush
  <2> QED
    BY <2>1, <2>2, PsaPushes
<1>5. Goal
  <2> HIDE DEF Goal
  <2>1. ASSUME NEW p \in Pushers, \/ \E b \in BOOLEAN : Provider!ReadLink(p, b)
                                  \/ \E reply \in [ok : BOOLEAN, made : BOOLEAN] : Provider!Call(p, reply)
                                  \/ Provider!CommitPush(p) \/ Provider!PushDies(p)
        PROVE  Goal
    BY <1>3, <1>4, <2>1, PsaCalls, PsaCommits DEF Goal
  <2>2. CASE \E t \in 1..MaxMade, status \in Provider!External : Provider!Moves(t, status)
    BY <2>2, PsaMoves DEF Goal
  <2>3. CASE (\E e \in 1..Len(v5) : Provider!Receive(e)) \/ Provider!HookLost
    BY <2>3, PsaHooks DEF Goal
  <2>4. CASE \E ok, assigned \in BOOLEAN : Provider!Settle(ok, assigned)
    BY <2>4, PsaSettles DEF Goal
  <2> QED
    BY <1>2, <2>1, <2>2, <2>3, <2>4 DEF Provider!Next
<1> QED
  BY <1>5

\* A ticket is pushed once, and once more for each forced push (push_ticket), unless pushes overlapped or
\* one was cut off; and the link shows the status of its external ticket once every event is answered
\* (handle_webhook), except after an event out of order, a failed one or one that met a push: for
\* any number of pushes, external tickets and events.
THEOREM InStepWithProviderCorrect == OfficeSpec => []InStepWithProvider
<1> DEFINE I == focus = "psa" => Provider!Inv /\ PsaTypes
<1>1. OfficeInit => I
  <2> SUFFICES ASSUME Provider!Init PROVE Provider!Inv /\ PsaTypes
    BY DEF OfficeInit
  <2>1. /\ Provider!NoPush \in PsaPush /\ ~Provider!NoPush.force /\ Provider!NoPush.found = 0 /\ Provider!NoPush.phase = "idle"
        /\ Provider!NoHook = [event |-> 0, hit |-> FALSE]
    BY DEF Provider!NoPush, PsaPush, Provider!NoHook
  <2>2. /\ v2 = [to |-> 0, shows |-> "open"] /\ v4 = <<>> /\ v5 = <<>> /\ v6 = [e \in 1..MaxEvents |-> "none"]
        /\ v7 = [p \in Pushers |-> Provider!NoPush] /\ v8 = Provider!NoHook /\ v9 = 0 /\ v10 = FALSE /\ v11 = FALSE
    BY DEF Provider!Init
  <2>3. v2.to = 0 /\ Len(v4) = 0 /\ Len(v5) = 0 /\ v8.event = 0
    BY <2>1, <2>2
  <2>4. PsaTypes
    <3>1. 0 <= MaxEvents /\ v4 \in Seq(Provider!External) /\ v5 \in Seq([ticket : Nat, status : Provider!External])
      BY <2>2, ProviderAssumption
    <3>2. v6 \in [1..MaxEvents -> {"none", "processed", "error"}]
      BY <2>2
    <3>3. v7 \in [Pushers -> PsaPush]
      BY <2>1, <2>2
    <3>4. v2 = [to |-> v2.to, shows |-> v2.shows] /\ v8 = [event |-> v8.event, hit |-> v8.hit]
      BY <2>1, <2>2
    <3> QED
      BY <2>2, <2>3, <3>1, <3>2, <3>3, <3>4 DEF PsaTypes
  <2>5. Provider!PushedOnce /\ Provider!Told
    BY <2>2, <2>3 DEF Provider!PushedOnce, Provider!Told
  <2>6. Provider!Alone
    BY <2>1, <2>2, <2>3 DEF Provider!Alone
  <2>7. Provider!Heard
    BY <2>1, <2>2, <2>3 DEF Provider!Heard, Provider!Unanswered
  <2> QED
    BY <2>4, <2>5, <2>6, <2>7 DEF Provider!Inv
<1>2. I /\ [OfficeNext]_OfficeVars => I'
  <2> SUFFICES ASSUME Provider!Inv, PsaTypes, [OfficeNext]_OfficeVars, focus = "psa" PROVE Provider!Inv' /\ PsaTypes'
    BY Focused
  <2>1. CASE UNCHANGED slots
    <3>1. UNCHANGED <<v2, v4, v5, v6, v7, v8, v9, v10, v11>>
      BY <2>1 DEF slots
    <3>2. PsaTypes' /\ Provider!PushedOnce' /\ Provider!Told'
      BY <3>1 DEF PsaTypes, Provider!Inv, Provider!PushedOnce, Provider!Told
    <3>3. Provider!Alone' /\ Provider!Heard'
      BY <3>1 DEF Provider!Inv, Provider!Alone, Provider!Heard, Provider!Unanswered
    <3> QED
      BY <3>2, <3>3 DEF Provider!Inv
  <2> QED
    BY <2>1, Focused, PsaKeeps
<1>3. I => InStepWithProvider
  <2> SUFFICES ASSUME Provider!Inv, PsaTypes PROVE Provider!PushedOnce /\ Provider!LinkShows
    BY DEF InStepWithProvider, Provider!InStepWithProvider
  <2>1. ASSUME v2.to # 0, ~v11, \A e \in 1..Len(v5) : v5[e].ticket = v2.to => v6[e] # "none"
        PROVE  v2.shows = v4[v2.to]
    <3>1. v2.to \in 1..Len(v4) /\ Len(v5) \in Nat
      BY <2>1 DEF Provider!Inv, Provider!Alone, PsaTypes
    <3>2. \/ v4[v2.to] = Provider!FirstStatus /\ \A e \in 1..Len(v5) : v5[e].ticket # v2.to
          \/ \E e \in 1..Len(v5) : /\ v5[e].ticket = v2.to /\ v4[v2.to] = v5[e].status
                                   /\ \A f \in e + 1..Len(v5) : v5[f].ticket # v2.to
      BY <3>1 DEF Provider!Inv, Provider!Told
    <3>3. \/ v2.shows = Provider!FirstStatus /\ \A e \in 1..Len(v5) : v5[e].ticket = v2.to => v6[e] = "none"
          \/ \E e \in 1..Len(v5) : /\ v5[e].ticket = v2.to /\ v2.shows = v5[e].status /\ v6[e] # "none"
                                   /\ \A f \in e + 1..Len(v5) : v5[f].ticket = v2.to => v6[f] = "none"
      BY <2>1 DEF Provider!Inv, Provider!Heard, Provider!Unanswered
    <3>4. CASE \E e \in 1..Len(v5) : v5[e].ticket = v2.to
      <4>1. PICK e \in 1..Len(v5) : /\ v5[e].ticket = v2.to /\ v4[v2.to] = v5[e].status
                                    /\ \A f \in e + 1..Len(v5) : v5[f].ticket # v2.to
        BY <3>2, <3>4
      <4>2. PICK g \in 1..Len(v5) : /\ v5[g].ticket = v2.to /\ v2.shows = v5[g].status /\ v6[g] # "none"
                                    /\ \A f \in g + 1..Len(v5) : v5[f].ticket = v2.to => v6[f] = "none"
        BY <2>1, <3>3, <3>4
      <4>3. ~(e < g) /\ ~(g < e)
        BY <2>1, <3>1, <4>1, <4>2
      <4>4. e = g
        BY <3>1, <4>3
      <4> QED
        BY <4>1, <4>2, <4>4
    <3>5. CASE \A e \in 1..Len(v5) : v5[e].ticket # v2.to
      BY <3>2, <3>3, <3>5
    <3> QED
      BY <3>4, <3>5
  <2> QED
    BY <2>1 DEF Provider!Inv, Provider!LinkShows
<1> QED
  BY <1>1, <1>2, <1>3, PTL DEF OfficeSpec
---------------------------------------------------------------------------
(* SignIn *)

Homes == {"home", "office"}
LoginRow == [family : Nat, generation : Nat, revoked : BOOLEAN]
LoginRequest == [pc : {"idle", "sent", "checked", "replay", "answered"}, token : Nat, seen : SUBSET Nat]
LoginWork == [busy : BOOLEAN, seen : SUBSET Nat, met : BOOLEAN]
LoginTypes ==
  /\ v1 \in Seq(LoginRow) /\ v2 \in [Homes -> Nat] /\ v3 \in [Login!Refreshes -> LoginRequest]
  /\ v4 \in [{"logout-all"} -> LoginWork] /\ v9 \subseteq Homes

\* A request is one of a browser's refreshers.
LEMMA LoginPairs ==
  /\ \A b \in Homes : \A r \in Refreshers[b] : <<b, r>> \in Login!Refreshes
  /\ \A q \in Login!Refreshes : \E b \in Homes : \E r \in Refreshers[b] : q = <<b, r>>
<1>1. \A b \in Homes : \A r \in Refreshers[b] : <<b, r>> \in Login!Refreshes
  BY DEF Login!Refreshes, Homes
<1>2. ASSUME NEW q \in Login!Refreshes PROVE \E b \in Homes : \E r \in Refreshers[b] : q = <<b, r>>
  <2>1. q[1] \in Homes /\ q[2] \in Refreshers[q[1]] /\ q = <<q[1], q[2]>>
    BY DEF Login!Refreshes, Homes
  <2> QED
    BY <2>1
<1> QED
  BY <1>1, <1>2

\* Revoking tokens changes nothing else of the table.
LEMMA LoginRevoked ==
  ASSUME LoginTypes, NEW S
  PROVE  /\ Login!Revoked(S) \in Seq(LoginRow) /\ Len(Login!Revoked(S)) = Len(v1) /\ Len(v1) \in Nat
         /\ \A t \in 1..Len(v1) : /\ Login!Revoked(S)[t].family = v1[t].family
                                  /\ Login!Revoked(S)[t].generation = v1[t].generation
                                  /\ Login!Revoked(S)[t].revoked <=> v1[t].revoked \/ t \in S
<1> DEFINE Row(t) == [v1[t] EXCEPT !.revoked = v1[t].revoked \/ t \in S]
<1>1. Len(v1) \in Nat /\ \A t \in 1..Len(v1) : v1[t] \in LoginRow
  BY DEF LoginTypes
<1>2. ASSUME NEW t \in 1..Len(v1)
      PROVE  /\ Row(t) \in LoginRow /\ Row(t).family = v1[t].family /\ Row(t).generation = v1[t].generation
             /\ Row(t).revoked <=> v1[t].revoked \/ t \in S
  <2>1. PICK b \in BOOLEAN : b = (v1[t].revoked \/ t \in S)
    OBVIOUS
  <2>2. Row(t) = [v1[t] EXCEPT !.revoked = b] /\ v1[t] \in LoginRow
    BY <1>1, <2>1
  <2> QED
    BY <2>1, <2>2 DEF LoginRow
<1>3. Login!Revoked(S) = [t \in 1..Len(v1) |-> Row(t)]
  BY DEF Login!Revoked
<1> HIDE DEF Row
<1>4. Login!Revoked(S) \in [1..Len(v1) -> LoginRow]
  BY <1>2, <1>3
<1> QED
  BY <1>1, <1>2, <1>3, <1>4, FunctionIsSeq

\* A token is issued after the others.
LEMMA LoginIssued ==
  ASSUME NEW s \in Seq(LoginRow), NEW f \in Nat, NEW g \in Nat
  PROVE  LET r == Append(s, Login!Issued(f, g))
         IN  /\ r \in Seq(LoginRow) /\ Len(r) = Len(s) + 1 /\ Len(s) \in Nat
             /\ \A t \in 1..Len(s) : r[t] = s[t]
             /\ r[Len(s) + 1].family = f /\ ~r[Len(s) + 1].revoked
<1>1. Login!Issued(f, g) \in LoginRow /\ Login!Issued(f, g).family = f /\ ~Login!Issued(f, g).revoked
  BY DEF Login!Issued, LoginRow
<1> QED
  BY <1>1

\* A request, a token and the parts of SignIn's Inv, in the slots.
LoginPc(b, r)    == v3[<<b, r>>].pc
LoginToken(b, r) == v3[<<b, r>>].token
LoginSeen(b, r)  == v3[<<b, r>>].seen
LoginNow(b)      == v2[b]
LoginIs(t)       == t \in 1..Len(v1)
LoginFamily(t)   == v1[t].family
LoginLive(t)     == LoginIs(t) /\ ~v1[t].revoked
LoginRead        == v4["logout-all"].seen
LoginAlone       == v4["logout-all"].busy /\ ~v4["logout-all"].met
LoginHolds(b, t) == t # 0 /\ (LoginNow(b) = t \/ \E r \in Refreshers[b] : LoginToken(b, r) = t)
LoginKept ==
  /\ \A t : LoginIs(t) => LoginFamily(t) >= 1 /\ LoginFamily(t) <= t
  /\ \A b \in Homes : \A r \in Refreshers[b] :
       /\ LoginPc(b, r) = "idle" => LoginToken(b, r) = 0
       /\ LoginPc(b, r) # "idle" => LoginIs(LoginToken(b, r))
       /\ \A t \in LoginSeen(b, r) :
            LoginPc(b, r) # "idle" /\ LoginIs(t) /\ LoginFamily(t) = LoginFamily(LoginToken(b, r))
  /\ \A b \in Homes : LoginNow(b) = 0 \/ LoginIs(LoginNow(b))
  /\ \A t \in LoginRead : LoginIs(t)
  /\ \A f : f \in v5 \/ f \in v6 \/ f \in v8 => LoginIs(f)
LoginOwned ==
  \A b, c \in Homes : \A t, u :
    LoginHolds(b, t) /\ LoginHolds(c, u) /\ LoginFamily(t) = LoginFamily(u) => b = c
LoginForks ==
  /\ \A b \in Homes : \A t :
       LoginHolds(b, t) /\ LoginFamily(t) \in v8 => LoginFamily(t) \in v7 \/ b \in v9
  /\ \A b \in Homes : \A r \in Refreshers[b] :
       LoginPc(b, r) = "checked" =>
         LoginLive(LoginToken(b, r)) \/ LoginFamily(LoginToken(b, r)) \in v7 \/ b \in v9
LoginOneLive ==
  \A s, t : LoginLive(s) /\ LoginLive(t) /\ LoginFamily(s) = LoginFamily(t) /\ LoginFamily(s) \notin v8 => s = t
LoginEnded ==
  \A f : (f \in v5 \/ f \in v6) /\ f \notin v7 =>
    /\ \A t : LoginLive(t) => LoginFamily(t) # f
    /\ \A b \in Homes : \A r \in Refreshers[b] : LoginPc(b, r) = "checked" => LoginFamily(LoginToken(b, r)) # f
LoginCovers ==
  LoginAlone => \A s \in LoginRead : \A t : LoginLive(t) /\ LoginFamily(s) = LoginFamily(t) => t \in LoginRead
LoginOneRequest ==
  \A b \in Homes : \A r \in Refreshers[b] :
    b \notin v9 /\ LoginPc(b, r) # "idle" =>
      /\ \A o \in Refreshers[b] : o # r => LoginPc(b, o) = "idle"
      /\ \/ LoginFamily(LoginToken(b, r)) \in v5
         \/ LoginPc(b, r) \in {"sent", "checked"} /\ LoginToken(b, r) = LoginNow(b)
         \/ LoginPc(b, r) = "answered" /\ LoginLive(LoginToken(b, r))
LoginInnocent ==
  \A b \in Homes :
    b \in v9 \/ LoginNow(b) = 0 \/ LoginLive(LoginNow(b)) \/ LoginFamily(LoginNow(b)) \in v5
      \/ \E r \in Refreshers[b] : LoginPc(b, r) = "answered"
LoginInv ==
  /\ LoginTypes /\ LoginKept /\ LoginOwned /\ LoginForks /\ LoginOneLive
  /\ LoginEnded /\ LoginCovers /\ LoginOneRequest /\ LoginInnocent

\* A family is named by a token.
LEMMA LoginNamed ==
  ASSUME LoginTypes, LoginKept, NEW t, LoginIs(t)
  PROVE  LoginIs(LoginFamily(t))
<1>1. Len(v1) \in Nat /\ t \in 1..Len(v1) /\ v1[t] \in LoginRow
  BY DEF LoginTypes, LoginIs
<1>2. v1[t].family \in Nat
  BY <1>1 DEF LoginRow
<1> QED
  BY <1>1, <1>2 DEF LoginKept, LoginIs, LoginFamily

LEMMA LoginLogin ==
  ASSUME LoginInv, NEW b \in Homes, Login!Login(b)
  PROVE  LoginInv'
<1>0. PICK n \in Nat : Len(v1) \in Nat /\ n = Len(v1) + 1
  BY DEF LoginInv, LoginTypes
<1>1. /\ Len(v1') = n /\ v1' \in Seq(LoginRow)
      /\ \A t \in 1..Len(v1) : v1'[t] = v1[t]
      /\ v1'[n].family = n /\ ~v1'[n].revoked
  BY <1>0, LoginIssued DEF LoginInv, LoginTypes, Login!Login
<1>2. /\ v2' = [v2 EXCEPT ![b] = n] /\ UNCHANGED <<v3, v4, v5, v6, v7, v8>>
      /\ v9 \subseteq v9' /\ v9' \subseteq v9 \union {b}
      /\ b \notin v9' => \A r \in Refreshers[b] : LoginPc(b, r) = "idle"
  BY <1>0, <1>1 DEF Login!Login, LoginPc
<1>3. LoginTypes'
  BY <1>1, <1>2 DEF LoginTypes, LoginInv
<1>4. LoginNow(b)' = n /\ \A c \in Homes : c # b => LoginNow(c)' = LoginNow(c)
  BY <1>2 DEF LoginInv, LoginTypes, LoginNow
<1>5. \A c, r : LoginPc(c, r)' = LoginPc(c, r) /\ LoginToken(c, r)' = LoginToken(c, r) /\ LoginSeen(c, r)' = LoginSeen(c, r)
  BY <1>2 DEF LoginPc, LoginToken, LoginSeen
<1>6. LoginRead' = LoginRead /\ (LoginAlone' <=> LoginAlone)
  BY <1>2 DEF LoginRead, LoginAlone
<1>7. \A t : LoginIs(t)' <=> LoginIs(t) \/ t = n
  BY <1>0, <1>1 DEF LoginIs
<1>8. /\ \A t : LoginIs(t) => LoginFamily(t)' = LoginFamily(t)
      /\ \A t : LoginLive(t)' <=> LoginLive(t) \/ t = n
      /\ LoginFamily(n)' = n /\ ~LoginIs(n) /\ ~LoginIs(0) /\ n # 0
  BY <1>0, <1>1, <1>7 DEF LoginIs, LoginFamily, LoginLive
<1>8a. \A t : LoginIs(t) => LoginFamily(t) # n
  BY <1>0 DEF LoginIs, LoginInv, LoginKept
<1>9. \A c, t : LoginHolds(c, t)' /\ c \in Homes => LoginHolds(c, t) \/ (c = b /\ t = n)
  BY <1>4, <1>5 DEF LoginHolds
<1>10. \A c, t : LoginHolds(c, t) /\ c \in Homes => LoginIs(t)
  BY DEF LoginInv, LoginKept, LoginHolds
<1>11. LoginKept'
  <2>1. \A t : LoginIs(t)' => LoginFamily(t)' >= 1 /\ LoginFamily(t)' <= t
    BY <1>0, <1>1, <1>7, <1>8, <1>8a DEF LoginInv, LoginKept
  <2> QED
    BY <2>1, <1>2, <1>4, <1>5, <1>6, <1>7, <1>8, <1>8a DEF LoginInv, LoginKept
<1>12. LoginOwned'
  BY <1>7, <1>8, <1>8a, <1>9, <1>10 DEF LoginInv, LoginOwned
<1>13. LoginForks'
  BY <1>2, <1>5, <1>7, <1>8, <1>8a, <1>9, <1>10 DEF LoginInv, LoginForks, LoginKept
<1>14. LoginOneLive'
  BY <1>2, <1>7, <1>8, <1>8a DEF LoginInv, LoginOneLive, LoginKept, LoginLive
<1>15. LoginEnded'
  BY <1>2, <1>5, <1>7, <1>8, <1>8a DEF LoginInv, LoginEnded, LoginKept, LoginLive
<1>16. LoginCovers'
  BY <1>6, <1>7, <1>8, <1>8a DEF LoginInv, LoginCovers, LoginKept, LoginLive
<1>17. LoginOneRequest'
  BY <1>2, <1>4, <1>5, <1>7, <1>8, <1>8a DEF LoginInv, LoginOneRequest, LoginKept
<1>18. LoginInnocent'
  BY <1>2, <1>4, <1>5, <1>7, <1>8, <1>8a DEF LoginInv, LoginInnocent, LoginKept
<1> QED
  BY <1>3, <1>11, <1>12, <1>13, <1>14, <1>15, <1>16, <1>17, <1>18 DEF LoginInv
\* What revoking tokens leaves,
LEMMA LoginRevokes ==
  ASSUME LoginTypes, NEW S, v1' = Login!Revoked(S)
  PROVE  /\ v1' \in Seq(LoginRow)
         /\ \A t : LoginIs(t)' <=> LoginIs(t)
         /\ \A t : LoginIs(t) => LoginFamily(t)' = LoginFamily(t)
         /\ \A t : LoginLive(t)' <=> LoginLive(t) /\ t \notin S
BY LoginRevoked DEF LoginIs, LoginFamily, LoginLive

\* what a request that moves on leaves,
LEMMA LoginTurns ==
  ASSUME LoginTypes, NEW b \in Homes, NEW r \in Refreshers[b], NEW q \in LoginRequest,
         v3' = [v3 EXCEPT ![<<b, r>>] = q]
  PROVE  /\ v3' \in [Login!Refreshes -> LoginRequest]
         /\ LoginPc(b, r)' = q.pc /\ LoginToken(b, r)' = q.token /\ LoginSeen(b, r)' = q.seen
         /\ \A c \in Homes : \A o \in Refreshers[c] : ~(c = b /\ o = r) =>
              LoginPc(c, o)' = LoginPc(c, o) /\ LoginToken(c, o)' = LoginToken(c, o) /\ LoginSeen(c, o)' = LoginSeen(c, o)
<1>1. <<b, r>> \in Login!Refreshes /\ v3 \in [Login!Refreshes -> LoginRequest]
  BY LoginPairs DEF LoginTypes
<1>2. v3' \in [Login!Refreshes -> LoginRequest] /\ v3'[<<b, r>>] = q
  BY <1>1
<1>3. ASSUME NEW c \in Homes, NEW o \in Refreshers[c], ~(c = b /\ o = r)
      PROVE  v3'[<<c, o>>] = v3[<<c, o>>]
  <2>1. <<c, o>> \in Login!Refreshes /\ <<c, o>> # <<b, r>>
    BY <1>3, LoginPairs
  <2> QED
    BY <1>1, <2>1
<1> QED
  BY <1>2, <1>3 DEF LoginPc, LoginToken, LoginSeen

\* and what UnderWay means.
LEMMA LoginGoing ==
  ASSUME LoginTypes
  PROVE  \A f : f \in Login!UnderWay <=>
           \E b \in Homes : \E r \in Refreshers[b] : LoginPc(b, r) = "checked" /\ LoginFamily(LoginToken(b, r)) = f
<1>1. DOMAIN v3 = Login!Refreshes
  BY DEF LoginTypes
<1> QED
  BY <1>1, LoginPairs DEF Login!UnderWay, Login!FamilyOf, LoginPc, LoginToken, LoginFamily

LEMMA LoginLogout ==
  ASSUME LoginInv, NEW b \in Homes, Login!Logout(b)
  PROVE  LoginInv'
<1>0. PICK n : n = v2[b]
  OBVIOUS
<1>1. /\ v1' = Login!Revoked({n}) /\ v2' = [v2 EXCEPT ![b] = 0] /\ UNCHANGED <<v3, v4, v6, v8, v9>> /\ n # 0
      /\ v5' = v5 \union {LoginFamily(n)}
      /\ v7' = IF LoginLive(n) /\ LoginFamily(n) \notin Login!UnderWay /\ b \notin v9 THEN v7 ELSE v7 \union {LoginFamily(n)}
  BY <1>0 DEF Login!Logout, Login!Live, Login!FamilyOf, LoginLive, LoginIs, LoginFamily
<1>2. /\ LoginTypes /\ LoginIs(n) /\ LoginHolds(b, n)
  BY <1>0, <1>1 DEF LoginInv, LoginKept, LoginNow, LoginHolds
<1>3. /\ v1' \in Seq(LoginRow)
      /\ \A t : LoginIs(t)' <=> LoginIs(t)
      /\ \A t : LoginIs(t) => LoginFamily(t)' = LoginFamily(t)
      /\ \A t : LoginLive(t)' <=> LoginLive(t) /\ t # n
  BY <1>1, <1>2, LoginRevokes
<1>4. LoginTypes'
  BY <1>1, <1>2, <1>3 DEF LoginTypes
<1>5. LoginNow(b) = n /\ LoginNow(b)' = 0 /\ \A c \in Homes : c # b => LoginNow(c)' = LoginNow(c)
  BY <1>0, <1>1, <1>2 DEF LoginTypes, LoginNow
<1>6. \A c, r : LoginPc(c, r)' = LoginPc(c, r) /\ LoginToken(c, r)' = LoginToken(c, r) /\ LoginSeen(c, r)' = LoginSeen(c, r)
  BY <1>1 DEF LoginPc, LoginToken, LoginSeen
<1>7. LoginRead' = LoginRead /\ (LoginAlone' <=> LoginAlone)
  BY <1>1 DEF LoginRead, LoginAlone
<1>8. \A c, t : LoginHolds(c, t)' /\ c \in Homes => LoginHolds(c, t) /\ LoginIs(t)
  BY <1>5, <1>6 DEF LoginHolds, LoginInv, LoginKept
<1>9. \A t : LoginLive(t) => LoginIs(t)
  BY DEF LoginLive
<1>10. LoginFamily(n) \in v7' \/ (LoginFamily(n) \notin Login!UnderWay /\ b \notin v9 /\ LoginLive(n))
  BY <1>1
<1>11. /\ LoginFamily(n) \in v5' /\ \A f : f \in v5 => f \in v5' 
       /\ \A f : f \in v5' => f \in v5 \/ f = LoginFamily(n)
       /\ \A f : f \in v7 => f \in v7'
  BY <1>1
<1>12. LoginKept'
  <2>1. LoginIs(LoginFamily(n))
    BY <1>2, LoginNamed DEF LoginInv
  <2>2. \A f : f \in v5' \/ f \in v6' \/ f \in v8' => LoginIs(f)
    BY <1>1, <1>11, <2>1 DEF LoginInv, LoginKept
  <2> QED
    BY <1>3, <1>5, <1>6, <1>7, <2>2 DEF LoginInv, LoginKept
<1>13. LoginOwned'
  BY <1>3, <1>8 DEF LoginInv, LoginOwned
<1>14. LoginForks'
  BY <1>1, <1>2, <1>3, <1>6, <1>8, <1>9, <1>10, <1>11, LoginGoing DEF LoginInv, LoginForks, LoginKept
<1>15. LoginOneLive'
  BY <1>1, <1>3, <1>9 DEF LoginInv, LoginOneLive
<1>16. LoginEnded'
  <2>1. LoginFamily(n) \in v7' \/ \A t : LoginLive(t) /\ LoginFamily(t) = LoginFamily(n) => t = n
    BY <1>2, <1>10, <1>11 DEF LoginInv, LoginOneLive, LoginForks
  <2> QED
    BY <1>1, <1>2, <1>3, <1>6, <1>9, <1>10, <1>11, <2>1, LoginGoing DEF LoginInv, LoginEnded, LoginKept
<1>17. LoginCovers'
  BY <1>3, <1>7, <1>9 DEF LoginInv, LoginCovers, LoginKept
<1>18. LoginOneRequest'
  BY <1>1, <1>2, <1>3, <1>5, <1>6, <1>11 DEF LoginInv, LoginOneRequest, LoginKept
<1>19. LoginInnocent'
  BY <1>1, <1>2, <1>3, <1>5, <1>6, <1>11 DEF LoginInv, LoginInnocent, LoginKept
<1> QED
  BY <1>4, <1>12, <1>13, <1>14, <1>15, <1>16, <1>17, <1>18, <1>19 DEF LoginInv
LEMMA LoginSend ==
  ASSUME LoginInv, NEW b \in Homes, NEW r \in Refreshers[b], Login!Send(b, r)
  PROVE  LoginInv'
<1>1. PICK q \in LoginRequest : q = [pc |-> "sent", token |-> v2[b], seen |-> {}]
  BY DEF LoginRequest, LoginInv, LoginTypes
<1>2. q.pc = "sent" /\ q.token = LoginNow(b) /\ q.seen = {}
  BY <1>1 DEF LoginNow
<1>3. /\ v3' = [v3 EXCEPT ![<<b, r>>] = q] /\ UNCHANGED <<v1, v2, v4, v5, v6, v7, v8>>
      /\ LoginPc(b, r) = "idle" /\ LoginNow(b) # 0
      /\ v9' = IF \E o \in Refreshers[b] \ {r} : v3[<<b, o>>].pc # "idle" THEN v9 \union {b} ELSE v9
  BY <1>1 DEF Login!Send, LoginPc, LoginNow
<1>4. /\ v3' \in [Login!Refreshes -> LoginRequest]
      /\ LoginPc(b, r)' = "sent" /\ LoginToken(b, r)' = LoginNow(b) /\ LoginSeen(b, r)' = {}
      /\ \A c \in Homes : \A o \in Refreshers[c] : ~(c = b /\ o = r) =>
           LoginPc(c, o)' = LoginPc(c, o) /\ LoginToken(c, o)' = LoginToken(c, o) /\ LoginSeen(c, o)' = LoginSeen(c, o)
  BY <1>2, <1>3, LoginTurns DEF LoginInv
<1>5. /\ v9 \subseteq v9' /\ v9' \subseteq v9 \union {b}
      /\ b \in v9' \/ \A o \in Refreshers[b] : o # r => LoginPc(b, o) = "idle"
  BY <1>3 DEF LoginPc
<1>6. LoginTypes'
  BY <1>3, <1>4, <1>5 DEF LoginTypes, LoginInv
<1>7. /\ \A t : LoginIs(t)' <=> LoginIs(t)
      /\ \A t : LoginFamily(t)' = LoginFamily(t)
      /\ \A t : LoginLive(t)' <=> LoginLive(t)
      /\ \A c : LoginNow(c)' = LoginNow(c)
      /\ LoginRead' = LoginRead /\ (LoginAlone' <=> LoginAlone)
  BY <1>3 DEF LoginIs, LoginFamily, LoginLive, LoginNow, LoginRead, LoginAlone
<1>8. \A c, t : LoginHolds(c, t)' /\ c \in Homes => LoginHolds(c, t)
  BY <1>4, <1>7 DEF LoginHolds
<1>9. LoginKept'
  BY <1>3, <1>4, <1>7 DEF LoginInv, LoginKept
<1>10. LoginOwned'
  BY <1>7, <1>8 DEF LoginInv, LoginOwned
<1>11. LoginForks'
  BY <1>3, <1>4, <1>5, <1>7, <1>8 DEF LoginInv, LoginForks
<1>12. LoginOneLive'
  BY <1>3, <1>7 DEF LoginInv, LoginOneLive
<1>13. LoginEnded'
  BY <1>3, <1>4, <1>7 DEF LoginInv, LoginEnded
<1>14. LoginCovers'
  BY <1>7 DEF LoginInv, LoginCovers
<1>15. LoginOneRequest'
  BY <1>3, <1>4, <1>5, <1>7 DEF LoginInv, LoginOneRequest
<1>16. LoginInnocent'
  BY <1>3, <1>4, <1>5, <1>7 DEF LoginInv, LoginInnocent
<1> QED
  BY <1>6, <1>9, <1>10, <1>11, <1>12, <1>13, <1>14, <1>15, <1>16 DEF LoginInv

LEMMA LoginCheck ==
  ASSUME LoginInv, NEW b \in Homes, NEW r \in Refreshers[b], Login!Check(b, r)
  PROVE  LoginInv'
<1>0. PICK k : k = LoginToken(b, r)
  OBVIOUS
<1>1. /\ v3[<<b, r>>] \in LoginRequest /\ LoginPc(b, r) = "sent" /\ LoginIs(k)
      /\ v3[<<b, r>>].token = k
  BY <1>0, LoginPairs DEF LoginInv, LoginTypes, LoginKept, Login!Check, LoginPc, LoginToken
<1>2. PICK q \in LoginRequest :
        /\ v3' = [v3 EXCEPT ![<<b, r>>] = q] /\ q.token = k
        /\ \/ LoginLive(k) /\ q.pc = "checked" /\ q.seen = v3[<<b, r>>].seen
           \/ ~LoginLive(k) /\ q.pc = "replay" /\ q.seen = Login!Live \intersect Login!Family(LoginFamily(k))
  <2>1. CASE v1[k].revoked
    <3>1. [v3[<<b, r>>] EXCEPT !.pc = "replay", !.seen = Login!Live \intersect Login!Family(LoginFamily(k))] \in LoginRequest
      <4>1. Login!Live \subseteq Nat
        BY DEF Login!Live
      <4> QED
        BY <1>1, <4>1 DEF LoginRequest
    <3> QED
      BY <1>1, <2>1, <3>1 DEF Login!Check, Login!FamilyOf, LoginFamily, LoginLive, LoginRequest
  <2>2. CASE ~v1[k].revoked
    <3>1. [v3[<<b, r>>] EXCEPT !.pc = "checked"] \in LoginRequest
      BY <1>1 DEF LoginRequest
    <3> QED
      BY <1>1, <2>2, <3>1 DEF Login!Check, LoginLive, LoginRequest
  <2> QED
    BY <2>1, <2>2
<1>3. UNCHANGED <<v1, v2, v4, v5, v6, v7, v8, v9>>
  BY DEF Login!Check
<1>4. /\ v3' \in [Login!Refreshes -> LoginRequest]
      /\ LoginPc(b, r)' = q.pc /\ LoginToken(b, r)' = k /\ LoginSeen(b, r)' = q.seen
      /\ \A c \in Homes : \A o \in Refreshers[c] : ~(c = b /\ o = r) =>
           LoginPc(c, o)' = LoginPc(c, o) /\ LoginToken(c, o)' = LoginToken(c, o) /\ LoginSeen(c, o)' = LoginSeen(c, o)
  BY <1>2, LoginTurns DEF LoginInv
<1>5. \A t \in q.seen : LoginIs(t) /\ LoginFamily(t) = LoginFamily(k)
  <2>1. \A t \in v3[<<b, r>>].seen : LoginIs(t) /\ LoginFamily(t) = LoginFamily(k)
    BY <1>0 DEF LoginInv, LoginKept, LoginSeen
  <2>2. \A t \in Login!Family(LoginFamily(k)) : LoginIs(t) /\ LoginFamily(t) = LoginFamily(k)
    BY DEF Login!Family, LoginIs, LoginFamily
  <2> QED
    BY <1>2, <2>1, <2>2
<1>6. LoginTypes'
  BY <1>3, <1>4 DEF LoginTypes, LoginInv
<1>7. /\ \A t : LoginIs(t)' <=> LoginIs(t)
      /\ \A t : LoginFamily(t)' = LoginFamily(t)
      /\ \A t : LoginLive(t)' <=> LoginLive(t)
      /\ \A c : LoginNow(c)' = LoginNow(c)
      /\ LoginRead' = LoginRead /\ (LoginAlone' <=> LoginAlone)
  BY <1>3 DEF LoginIs, LoginFamily, LoginLive, LoginNow, LoginRead, LoginAlone
<1>8. \A c, t : LoginHolds(c, t)' /\ c \in Homes => LoginHolds(c, t)
  BY <1>0, <1>4, <1>7 DEF LoginHolds
<1>9. LoginKept'
  BY <1>1, <1>2, <1>3, <1>4, <1>5, <1>7 DEF LoginInv, LoginKept
<1>10. LoginOwned'
  BY <1>7, <1>8 DEF LoginInv, LoginOwned
<1>11. LoginForks'
  BY <1>2, <1>3, <1>4, <1>7, <1>8 DEF LoginInv, LoginForks
<1>12. LoginOneLive'
  BY <1>3, <1>7 DEF LoginInv, LoginOneLive
<1>13. LoginEnded'
  BY <1>2, <1>3, <1>4, <1>7 DEF LoginInv, LoginEnded
<1>14. LoginCovers'
  BY <1>7 DEF LoginInv, LoginCovers
<1>15. LoginOneRequest'
  <2>1. \/ b \in v9 \/ LoginFamily(k) \in v5
        \/ k = LoginNow(b) /\ \A o \in Refreshers[b] : o # r => LoginPc(b, o) = "idle"
    BY <1>0, <1>1 DEF LoginInv, LoginOneRequest
  <2>2. b \in v9 \/ LoginFamily(k) \in v5 \/ (q.pc = "checked" /\ k = LoginNow(b))
    <3>1. k # 0
      BY <1>1 DEF LoginIs, LoginInv, LoginTypes
    <3>2. b \in v9 \/ LoginFamily(k) \in v5 \/ LoginLive(k)
      BY <1>1, <2>1, <3>1 DEF LoginInv, LoginInnocent
    <3>3. LoginLive(k) => q.pc = "checked"
      BY <1>2
    <3> QED
      BY <2>1, <3>2, <3>3
  <2> QED
    BY <1>0, <1>1, <1>2, <1>3, <1>4, <1>7, <2>2 DEF LoginInv, LoginOneRequest
<1>16. LoginInnocent'
  BY <1>1, <1>2, <1>3, <1>4, <1>7 DEF LoginInv, LoginInnocent
<1> QED
  BY <1>6, <1>9, <1>10, <1>11, <1>12, <1>13, <1>14, <1>15, <1>16 DEF LoginInv

LEMMA LoginRevokeFamily ==
  ASSUME LoginInv, NEW b \in Homes, NEW r \in Refreshers[b], Login!RevokeFamily(b, r)
  PROVE  LoginInv'
<1>0. PICK k, g, S : k = LoginToken(b, r) /\ g = LoginFamily(k) /\ S = LoginSeen(b, r)
  OBVIOUS
<1>1. /\ LoginPc(b, r) = "replay" /\ LoginIs(k) /\ LoginIs(g) /\ LoginHolds(b, k)
      /\ \A t \in S : LoginIs(t) /\ LoginFamily(t) = g
  <2>1. LoginPc(b, r) = "replay"
    BY DEF Login!RevokeFamily, LoginPc
  <2>2. LoginIs(k) /\ \A t \in S : LoginIs(t) /\ LoginFamily(t) = g
    BY <1>0, <2>1 DEF LoginInv, LoginKept
  <2>3. k # 0
    BY <2>2 DEF LoginIs, LoginInv, LoginTypes
  <2> QED
    BY <1>0, <2>1, <2>2, <2>3, LoginNamed DEF LoginInv, LoginHolds
<1>2. /\ v1' = Login!Revoked(S) /\ UNCHANGED <<v2, v4, v5, v8, v9>>
      /\ v3' = [v3 EXCEPT ![<<b, r>>] = Login!Idle]
      /\ v6' = v6 \union {g}
      /\ v7' = IF g \in Login!UnderWay \/ ~(Login!Live \intersect Login!Family(g) \subseteq S)
               THEN v7 \union {g} ELSE v7
  BY <1>0 DEF Login!RevokeFamily, Login!FamilyOf, LoginToken, LoginFamily, LoginSeen
<1>3. Login!Idle \in LoginRequest /\ Login!Idle.pc = "idle" /\ Login!Idle.token = 0 /\ Login!Idle.seen = {}
  BY DEF Login!Idle, LoginRequest
<1>4. /\ v3' \in [Login!Refreshes -> LoginRequest]
      /\ LoginPc(b, r)' = "idle" /\ LoginToken(b, r)' = 0 /\ LoginSeen(b, r)' = {}
      /\ \A c \in Homes : \A o \in Refreshers[c] : ~(c = b /\ o = r) =>
           LoginPc(c, o)' = LoginPc(c, o) /\ LoginToken(c, o)' = LoginToken(c, o) /\ LoginSeen(c, o)' = LoginSeen(c, o)
  BY <1>2, <1>3, LoginTurns DEF LoginInv
<1>5. /\ v1' \in Seq(LoginRow)
      /\ \A t : LoginIs(t)' <=> LoginIs(t)
      /\ \A t : LoginIs(t) => LoginFamily(t)' = LoginFamily(t)
      /\ \A t : LoginLive(t)' <=> LoginLive(t) /\ t \notin S
  BY <1>2, LoginRevokes DEF LoginInv
<1>6. LoginTypes'
  BY <1>2, <1>4, <1>5 DEF LoginTypes, LoginInv
<1>7. /\ \A c : LoginNow(c)' = LoginNow(c)
      /\ LoginRead' = LoginRead /\ (LoginAlone' <=> LoginAlone)
      /\ \A t : LoginLive(t) => LoginIs(t)
  BY <1>2 DEF LoginNow, LoginRead, LoginAlone, LoginLive
<1>8. \A c, t : LoginHolds(c, t)' /\ c \in Homes => LoginHolds(c, t) /\ LoginIs(t)
  BY <1>4, <1>7 DEF LoginHolds, LoginInv, LoginKept
<1>9. /\ \A f : f \in v6' <=> f \in v6 \/ f = g
      /\ \A f : f \in v7 => f \in v7'
      /\ g \in v7' \/ (g \notin Login!UnderWay /\ \A t : LoginLive(t) /\ LoginFamily(t) = g => t \in S)
  <2>1. \A t : LoginLive(t) /\ LoginFamily(t) = g => t \in Login!Live \intersect Login!Family(g)
    BY DEF LoginLive, LoginIs, LoginFamily, Login!Live, Login!Family
  <2>2. CASE g \in Login!UnderWay \/ ~(Login!Live \intersect Login!Family(g) \subseteq S)
    <3>1. v7' = v7 \union {g}
      BY <1>2, <2>2
    <3> QED
      BY <1>2, <3>1
  <2>3. CASE ~(g \in Login!UnderWay \/ ~(Login!Live \intersect Login!Family(g) \subseteq S))
    <3>1. v7' = v7
      BY <1>2, <2>3
    <3> QED
      BY <1>2, <2>1, <2>3, <3>1
  <2> QED
    BY <2>2, <2>3
<1>10. \A c \in Homes : \A t : LoginHolds(c, t) /\ LoginFamily(t) = g => c = b
  BY <1>0, <1>1 DEF LoginInv, LoginOwned
<1>11. LoginKept'
  BY <1>1, <1>2, <1>4, <1>5, <1>7, <1>9 DEF LoginInv, LoginKept
<1>12. LoginOwned'
  BY <1>5, <1>8 DEF LoginInv, LoginOwned
<1>13. LoginForks'
  <2>1. ASSUME NEW c \in Homes, NEW t, LoginHolds(c, t)', LoginFamily(t)' \in v8'
        PROVE  LoginFamily(t)' \in v7' \/ c \in v9'
    BY <1>2, <1>5, <1>8, <1>9, <2>1 DEF LoginInv, LoginForks
  <2>2. ASSUME NEW c \in Homes, NEW o \in Refreshers[c], LoginPc(c, o)' = "checked"
        PROVE  \/ LoginLive(LoginToken(c, o))' \/ LoginFamily(LoginToken(c, o))' \in v7' \/ c \in v9'
    <3>1. LoginPc(c, o) = "checked" /\ LoginToken(c, o)' = LoginToken(c, o) /\ LoginIs(LoginToken(c, o))
      BY <1>4, <2>2 DEF LoginInv, LoginKept
    <3>2. LoginFamily(LoginToken(c, o)) \in Login!UnderWay
      BY <3>1, LoginGoing DEF LoginInv
    <3> QED
      BY <1>1, <1>2, <1>5, <1>9, <3>1, <3>2 DEF LoginInv, LoginForks
  <2> QED
    BY <2>1, <2>2 DEF LoginForks
<1>14. LoginOneLive'
  BY <1>2, <1>5, <1>7 DEF LoginInv, LoginOneLive
<1>15. LoginEnded'
  <2>1. ASSUME NEW f, f \in v5' \/ f \in v6', f \notin v7'
        PROVE  /\ \A t : LoginLive(t) /\ t \notin S => LoginFamily(t) # f
               /\ \A c \in Homes : \A o \in Refreshers[c] : LoginPc(c, o) = "checked" => LoginFamily(LoginToken(c, o)) # f
    <3>1. CASE f = g
      BY <1>9, <2>1, <3>1, LoginGoing DEF LoginInv
    <3>2. CASE f # g
      BY <1>2, <1>9, <2>1, <3>2 DEF LoginInv, LoginEnded
    <3> QED
      BY <3>1, <3>2
  <2> QED
    BY <1>4, <1>5, <1>7, <2>1 DEF LoginInv, LoginEnded, LoginKept
<1>16. LoginCovers'
  BY <1>5, <1>7 DEF LoginInv, LoginCovers, LoginKept
<1>17. LoginOneRequest'
  <2>1. ASSUME NEW c \in Homes, NEW o \in Refreshers[c], c \notin v9', LoginPc(c, o)' # "idle"
        PROVE  /\ \A x \in Refreshers[c] : x # o => LoginPc(c, x)' = "idle"
               /\ \/ LoginFamily(LoginToken(c, o))' \in v5'
                  \/ LoginPc(c, o)' \in {"sent", "checked"} /\ LoginToken(c, o)' = LoginNow(c)'
                  \/ LoginPc(c, o)' = "answered" /\ LoginLive(LoginToken(c, o))'
    <3>1. LoginPc(c, o) # "idle" /\ ~(c = b /\ o = r) /\ LoginPc(c, o)' = LoginPc(c, o)
          /\ LoginToken(c, o)' = LoginToken(c, o) /\ LoginIs(LoginToken(c, o)) /\ c \notin v9
      BY <1>2, <1>4, <2>1 DEF LoginInv, LoginKept
    <3>2. c # b
      BY <1>1, <3>1 DEF LoginInv, LoginOneRequest
    <3>3. LoginToken(c, o) \notin S
      <4>1. LoginHolds(c, LoginToken(c, o))
        <5>1. LoginToken(c, o) # 0
          BY <3>1 DEF LoginIs, LoginInv, LoginTypes
        <5> QED
          BY <5>1 DEF LoginHolds
      <4> QED
        BY <1>1, <1>10, <3>2, <4>1
    <3> QED
      BY <1>2, <1>4, <1>5, <1>7, <3>1, <3>2, <3>3 DEF LoginInv, LoginOneRequest
  <2> QED
    BY <2>1 DEF LoginOneRequest
<1>18. LoginInnocent'
  <2>1. ASSUME NEW c \in Homes
        PROVE  c \in v9' \/ LoginNow(c)' = 0 \/ LoginLive(LoginNow(c))' \/ LoginFamily(LoginNow(c))' \in v5'
                 \/ \E o \in Refreshers[c] : LoginPc(c, o)' = "answered"
    <3>1. \/ c \in v9 \/ LoginNow(c) = 0 \/ LoginLive(LoginNow(c)) \/ LoginFamily(LoginNow(c)) \in v5
          \/ \E o \in Refreshers[c] : LoginPc(c, o)' = "answered"
      BY <1>1, <1>4 DEF LoginInv, LoginInnocent
    <3>2. CASE LoginNow(c) \in S /\ LoginNow(c) # 0
      <4>1. c = b
        BY <1>1, <1>10, <3>2 DEF LoginHolds
      <4>2. b \in v9 \/ g \in v5
        BY <1>0, <1>1 DEF LoginInv, LoginOneRequest
      <4> QED
        BY <1>1, <1>2, <1>5, <1>7, <3>2, <4>1, <4>2
    <3>3. CASE ~(LoginNow(c) \in S /\ LoginNow(c) # 0)
      BY <1>2, <1>5, <1>7, <3>1, <3>3 DEF LoginInv, LoginKept
    <3> QED
      BY <3>2, <3>3
  <2> QED
    BY <2>1 DEF LoginInnocent
<1> QED
  BY <1>6, <1>11, <1>12, <1>13, <1>14, <1>15, <1>16, <1>17, <1>18 DEF LoginInv
LEMMA LoginRotate ==
  ASSUME LoginInv, NEW b \in Homes, NEW r \in Refreshers[b], Login!Rotate(b, r)
  PROVE  LoginInv'
<1>0. PICK k, g, n : /\ n \in Nat /\ k = LoginToken(b, r) /\ g = LoginFamily(k)
                             /\ Len(v1) \in Nat /\ n = Len(v1) + 1
  BY DEF LoginInv, LoginTypes
<1>1. LoginPc(b, r) = "checked" /\ LoginIs(k) /\ LoginHolds(b, k) /\ k # n /\ ~LoginIs(n) /\ ~LoginIs(0) /\ n # 0
  <2>1. LoginPc(b, r) = "checked"
    BY DEF Login!Rotate, LoginPc
  <2>2. LoginIs(k)
    BY <1>0, <2>1 DEF LoginInv, LoginKept
  <2>3. k # n /\ ~LoginIs(n) /\ ~LoginIs(0) /\ k # 0 /\ n # 0
    BY <1>0, <2>2 DEF LoginIs
  <2> QED
    BY <1>0, <2>1, <2>2, <2>3 DEF LoginHolds
<1>2. /\ v1' = Append(Login!Revoked({k}), Login!Issued(g, v1[k].generation + 1))
      /\ v3' = [v3 EXCEPT ![<<b, r>>] = [pc |-> "answered", token |-> Len(v1'), seen |-> {}]]
      /\ v8' = IF v1[k].revoked THEN v8 \union {g} ELSE v8
      /\ v4' = [w \in {"logout-all"} |-> [v4[w] EXCEPT !.met = v4[w].busy]]
      /\ UNCHANGED <<v2, v5, v6, v7, v9>>
  BY <1>0 DEF Login!Rotate, Login!FamilyOf, LoginToken, LoginFamily
<1>3. /\ v1' \in Seq(LoginRow) /\ Len(v1') = n
      /\ \A t : LoginIs(t)' <=> LoginIs(t) \/ t = n
      /\ \A t : LoginIs(t) => LoginFamily(t)' = LoginFamily(t)
      /\ \A t : LoginLive(t)' <=> (LoginLive(t) /\ t # k) \/ t = n
      /\ LoginFamily(n)' = g
  <2>1. v1[k].family \in Nat /\ v1[k].generation + 1 \in Nat /\ g = v1[k].family
    <3>1. v1[k] \in LoginRow
      BY <1>1 DEF LoginIs, LoginInv, LoginTypes
    <3> QED
      BY <1>0, <3>1 DEF LoginRow, LoginFamily
  <2>2. PICK s : s = Login!Revoked({k})
    OBVIOUS
  <2>3. /\ s \in Seq(LoginRow) /\ Len(s) = Len(v1)
        /\ \A t \in 1..Len(v1) : s[t].family = v1[t].family /\ (s[t].revoked <=> v1[t].revoked \/ t = k)
    BY <2>2, LoginRevoked DEF LoginInv
  <2>4. /\ v1' \in Seq(LoginRow) /\ Len(v1') = Len(s) + 1
        /\ \A t \in 1..Len(s) : v1'[t] = s[t]
        /\ v1'[Len(s) + 1].family = g /\ ~v1'[Len(s) + 1].revoked
    BY <1>2, <2>1, <2>2, <2>3, LoginIssued
  <2>5. \A t : LoginIs(t)' <=> LoginIs(t) \/ t = n
    BY <1>0, <2>3, <2>4 DEF LoginIs
  <2>6. v1'[n].family = g /\ ~v1'[n].revoked
    BY <1>0, <2>3, <2>4
  <2>7. \A t \in 1..Len(v1) : v1'[t].family = v1[t].family /\ (v1'[t].revoked <=> v1[t].revoked \/ t = k)
    BY <2>3, <2>4
  <2> QED
    BY <1>0, <1>1, <2>3, <2>4, <2>5, <2>6, <2>7 DEF LoginIs, LoginFamily, LoginLive
<1>4. /\ v3' \in [Login!Refreshes -> LoginRequest]
      /\ LoginPc(b, r)' = "answered" /\ LoginToken(b, r)' = n /\ LoginSeen(b, r)' = {}
      /\ \A c \in Homes : \A o \in Refreshers[c] : ~(c = b /\ o = r) =>
           LoginPc(c, o)' = LoginPc(c, o) /\ LoginToken(c, o)' = LoginToken(c, o) /\ LoginSeen(c, o)' = LoginSeen(c, o)
  <2>1. PICK q : q = [pc |-> "answered", token |-> n, seen |-> {}]
    OBVIOUS
  <2>2. q \in LoginRequest /\ q.pc = "answered" /\ q.token = n /\ q.seen = {}
    BY <1>0, <2>1 DEF LoginRequest
  <2>3. v3' = [v3 EXCEPT ![<<b, r>>] = q]
    BY <1>2, <1>3, <2>1
  <2> QED
    BY <2>2, <2>3, LoginTurns DEF LoginInv
<1>5. v4' \in [{"logout-all"} -> LoginWork] /\ LoginRead' = LoginRead /\ ~LoginAlone'
  <2>1. PICK a \in LoginWork : a = v4["logout-all"]
    BY DEF LoginInv, LoginTypes
  <2>2. [a EXCEPT !.met = a.busy] \in LoginWork /\ v4'["logout-all"] = [a EXCEPT !.met = a.busy]
    BY <1>2, <2>1 DEF LoginWork
  <2> QED
    BY <1>2, <2>1, <2>2 DEF LoginWork, LoginRead, LoginAlone
<1>6. LoginTypes'
  BY <1>2, <1>3, <1>4, <1>5 DEF LoginTypes, LoginInv
<1>7. /\ \A c : LoginNow(c)' = LoginNow(c)
      /\ \A t : LoginLive(t) => LoginIs(t)
  BY <1>2 DEF LoginNow, LoginLive
<1>8. \A c, t : LoginHolds(c, t)' /\ c \in Homes => (LoginHolds(c, t) /\ LoginIs(t)) \/ (c = b /\ t = n)
  <2>1. \A c \in Homes : \A t : LoginHolds(c, t) => LoginIs(t)
    BY DEF LoginHolds, LoginInv, LoginKept
  <2> QED
    BY <1>4, <1>7, <2>1 DEF LoginHolds
<1>9. \A c \in Homes : \A t : LoginHolds(c, t) /\ LoginFamily(t) = g => c = b
  BY <1>0, <1>1 DEF LoginInv, LoginOwned
<1>10. g \in v8' => g \in v7 \/ b \in v9
  <2>1. CASE LoginLive(k)
    <3>1. v8' = v8
      BY <1>2, <2>1 DEF LoginLive
    <3> QED
      BY <1>0, <1>1, <3>1 DEF LoginInv, LoginForks
  <2>2. CASE ~LoginLive(k)
    BY <1>0, <1>1, <2>2 DEF LoginInv, LoginForks
  <2> QED
    BY <2>1, <2>2
<1>11. \A f : f \in v8' => f \in v8 \/ f = g
  BY <1>2
<1>12. LoginIs(g) /\ LoginIs(g)' /\ g >= 1 /\ g <= n
  <2>1. LoginIs(g)
    BY <1>0, <1>1, LoginNamed DEF LoginInv
  <2> QED
    BY <1>0, <1>3, <2>1 DEF LoginIs
<1>13. LoginKept'
  <2>1. \A t : LoginIs(t)' => LoginFamily(t)' >= 1 /\ LoginFamily(t)' <= t
    BY <1>3, <1>12 DEF LoginInv, LoginKept
  <2> QED
    BY <1>2, <1>3, <1>4, <1>5, <1>7, <1>11, <1>12, <2>1 DEF LoginInv, LoginKept
<1>14. LoginOwned'
  <2>1. \A c \in Homes : \A t : LoginHolds(c, t)' /\ LoginFamily(t)' = g => c = b
    BY <1>3, <1>8, <1>9
  <2> QED
    BY <1>3, <1>8, <2>1 DEF LoginInv, LoginOwned
<1>15. LoginForks'
  <2>1. ASSUME NEW c \in Homes, NEW t, LoginHolds(c, t)', LoginFamily(t)' \in v8'
        PROVE  LoginFamily(t)' \in v7' \/ c \in v9'
    <3>1. CASE t = n
      BY <1>1, <1>2, <1>3, <1>8, <1>10, <2>1, <3>1 DEF LoginInv
    <3>2. CASE t # n
      <4>1. LoginHolds(c, t) /\ LoginFamily(t)' = LoginFamily(t)
        BY <1>3, <1>8, <2>1, <3>2
      <4>2. CASE LoginFamily(t) = g
        BY <1>2, <1>9, <1>10, <2>1, <4>1, <4>2
      <4>3. CASE LoginFamily(t) # g
        BY <1>2, <1>11, <2>1, <4>1, <4>3 DEF LoginInv, LoginForks
      <4> QED
        BY <4>2, <4>3
    <3> QED
      BY <3>1, <3>2
  <2>2. ASSUME NEW c \in Homes, NEW o \in Refreshers[c], LoginPc(c, o)' = "checked"
        PROVE  \/ LoginLive(LoginToken(c, o))' \/ LoginFamily(LoginToken(c, o))' \in v7' \/ c \in v9'
    <3>1. /\ ~(c = b /\ o = r) /\ LoginPc(c, o) = "checked" /\ LoginToken(c, o)' = LoginToken(c, o)
          /\ LoginIs(LoginToken(c, o))
      BY <1>4, <2>2 DEF LoginInv, LoginKept
    <3>2. CASE LoginToken(c, o) = k
      <4>1. LoginHolds(c, k)
        BY <1>1, <3>2 DEF LoginHolds
      <4>2. c = b /\ o # r
        BY <1>0, <1>9, <3>1, <4>1
      <4> QED
        BY <1>1, <1>2, <3>1, <4>2 DEF LoginInv, LoginOneRequest
    <3>3. CASE LoginToken(c, o) # k
      BY <1>2, <1>3, <3>1, <3>3 DEF LoginInv, LoginForks
    <3> QED
      BY <3>2, <3>3
  <2> QED
    BY <2>1, <2>2 DEF LoginForks
<1>16. LoginOneLive'
  <2>1. \A t : LoginLive(t)' /\ LoginFamily(t)' = g /\ g \notin v8' => t = n
    <3>1. g \notin v8' => LoginLive(k) /\ g \notin v8
      <4>1. CASE LoginLive(k)
        BY <1>2, <4>1 DEF LoginLive
      <4>2. CASE ~LoginLive(k)
        BY <1>1, <1>2, <4>2 DEF LoginLive
      <4> QED
        BY <4>1, <4>2
    <3> QED
      BY <1>0, <1>3, <1>7, <3>1 DEF LoginInv, LoginOneLive
  <2>2. \A f : f \in v8 => f \in v8'
    BY <1>2
  <2> QED
    BY <1>3, <1>7, <2>1, <2>2 DEF LoginInv, LoginOneLive
<1>17. LoginEnded'
  <2>1. g \in v7 \/ (g \notin v5 /\ g \notin v6)
    BY <1>0, <1>1 DEF LoginInv, LoginEnded
  <2> QED
    BY <1>2, <1>3, <1>4, <1>7, <2>1 DEF LoginInv, LoginEnded, LoginKept
<1>18. LoginCovers'
  BY <1>5 DEF LoginCovers
<1>19. LoginOneRequest'
  <2>1. ASSUME NEW c \in Homes, NEW o \in Refreshers[c], c \notin v9', LoginPc(c, o)' # "idle"
        PROVE  /\ \A x \in Refreshers[c] : x # o => LoginPc(c, x)' = "idle"
               /\ \/ LoginFamily(LoginToken(c, o))' \in v5'
                  \/ LoginPc(c, o)' \in {"sent", "checked"} /\ LoginToken(c, o)' = LoginNow(c)'
                  \/ LoginPc(c, o)' = "answered" /\ LoginLive(LoginToken(c, o))'
    <3>1. CASE c = b /\ o = r
      BY <1>1, <1>2, <1>3, <1>4, <2>1, <3>1 DEF LoginInv, LoginOneRequest
    <3>2. CASE ~(c = b /\ o = r)
      <4>1. LoginPc(c, o) # "idle" /\ LoginPc(c, o)' = LoginPc(c, o)
            /\ LoginToken(c, o)' = LoginToken(c, o) /\ LoginIs(LoginToken(c, o)) /\ c \notin v9
        BY <1>2, <1>4, <2>1, <3>2 DEF LoginInv, LoginKept
      <4>2. c # b
        BY <1>1, <3>2, <4>1 DEF LoginInv, LoginOneRequest
      <4>3. LoginToken(c, o) # k
        <5>1. LoginHolds(c, LoginToken(c, o))
          BY <1>1, <4>1 DEF LoginHolds
        <5> QED
          BY <1>0, <1>9, <4>2, <5>1
      <4> QED
        BY <1>2, <1>3, <1>4, <1>7, <4>1, <4>2, <4>3 DEF LoginInv, LoginOneRequest
    <3> QED
      BY <3>1, <3>2
  <2> QED
    BY <2>1 DEF LoginOneRequest
<1>20. LoginInnocent'
  <2>1. ASSUME NEW c \in Homes
        PROVE  c \in v9' \/ LoginNow(c)' = 0 \/ LoginLive(LoginNow(c))' \/ LoginFamily(LoginNow(c))' \in v5'
                 \/ \E o \in Refreshers[c] : LoginPc(c, o)' = "answered"
    <3>1. CASE c = b
      BY <1>4, <3>1
    <3>2. CASE c # b
      <4>1. LoginNow(c) = 0 \/ LoginNow(c) # k
        <5>1. LoginNow(c) # 0 => LoginHolds(c, LoginNow(c))
          BY DEF LoginHolds
        <5> QED
          BY <1>0, <1>9, <3>2, <5>1
      <4> QED
        BY <1>1, <1>2, <1>3, <1>4, <1>7, <3>2, <4>1 DEF LoginInv, LoginInnocent, LoginKept
    <3> QED
      BY <3>1, <3>2
  <2> QED
    BY <2>1 DEF LoginInnocent
<1> QED
  BY <1>6, <1>13, <1>14, <1>15, <1>16, <1>17, <1>18, <1>19, <1>20 DEF LoginInv
LEMMA LoginAnswer ==
  ASSUME LoginInv, NEW b \in Homes, NEW r \in Refreshers[b], Login!Answer(b, r) \/ Login!Lose(b, r)
  PROVE  LoginInv'
<1>0. PICK k : k = LoginToken(b, r)
  OBVIOUS
<1>1. /\ v3' = [v3 EXCEPT ![<<b, r>>] = Login!Idle] /\ UNCHANGED <<v1, v4, v5, v6, v7, v8>>
      /\ \/ LoginPc(b, r) = "answered" /\ v2' = [v2 EXCEPT ![b] = k] /\ v9' = v9
         \/ LoginPc(b, r) = "answered" /\ v2' = v2 /\ v9' = v9 \union {b}
         \/ LoginPc(b, r) = "sent" /\ v2' = v2 /\ v9' = v9
  BY <1>0 DEF Login!Answer, Login!Lose, LoginPc, LoginToken
<1>2. LoginPc(b, r) # "idle" /\ LoginIs(k) /\ LoginHolds(b, k) /\ k \in Nat /\ ~LoginIs(0)
  <2>1. LoginPc(b, r) # "idle" /\ LoginIs(k)
    BY <1>0, <1>1 DEF LoginInv, LoginKept
  <2>2. k \in Nat /\ k # 0 /\ ~LoginIs(0)
    BY <2>1 DEF LoginIs, LoginInv, LoginTypes
  <2> QED
    BY <1>0, <2>1, <2>2 DEF LoginHolds
<1>3. Login!Idle \in LoginRequest /\ Login!Idle.pc = "idle" /\ Login!Idle.token = 0 /\ Login!Idle.seen = {}
  BY DEF Login!Idle, LoginRequest
<1>4. /\ v3' \in [Login!Refreshes -> LoginRequest]
      /\ LoginPc(b, r)' = "idle" /\ LoginToken(b, r)' = 0 /\ LoginSeen(b, r)' = {}
      /\ \A c \in Homes : \A o \in Refreshers[c] : ~(c = b /\ o = r) =>
           LoginPc(c, o)' = LoginPc(c, o) /\ LoginToken(c, o)' = LoginToken(c, o) /\ LoginSeen(c, o)' = LoginSeen(c, o)
  BY <1>1, <1>3, LoginTurns DEF LoginInv
<1>5. /\ \A c \in Homes : c # b => LoginNow(c)' = LoginNow(c) /\ (c \in v9' <=> c \in v9)
      /\ LoginNow(b)' = k \/ LoginNow(b)' = LoginNow(b)
      /\ \A c : c \in v9 => c \in v9'
  BY <1>1 DEF LoginNow, LoginInv, LoginTypes
<1>6. LoginTypes'
  BY <1>1, <1>2, <1>4 DEF LoginTypes, LoginInv
<1>7. /\ \A t : LoginIs(t)' <=> LoginIs(t)
      /\ \A t : LoginFamily(t)' = LoginFamily(t)
      /\ \A t : LoginLive(t)' <=> LoginLive(t)
      /\ LoginRead' = LoginRead /\ (LoginAlone' <=> LoginAlone)
  BY <1>1 DEF LoginIs, LoginFamily, LoginLive, LoginRead, LoginAlone
<1>8. \A c, t : LoginHolds(c, t)' /\ c \in Homes => LoginHolds(c, t)
  BY <1>2, <1>4, <1>5 DEF LoginHolds
<1>9. LoginKept'
  BY <1>1, <1>2, <1>4, <1>5, <1>7 DEF LoginInv, LoginKept
<1>10. LoginOwned'
  BY <1>7, <1>8 DEF LoginInv, LoginOwned
<1>11. LoginForks'
  BY <1>1, <1>4, <1>5, <1>7, <1>8 DEF LoginInv, LoginForks
<1>12. LoginOneLive'
  BY <1>1, <1>7 DEF LoginInv, LoginOneLive
<1>13. LoginEnded'
  BY <1>1, <1>4, <1>7 DEF LoginInv, LoginEnded
<1>14. LoginCovers'
  BY <1>7 DEF LoginInv, LoginCovers
<1>15. \A o \in Refreshers[b] : b \in v9' \/ LoginPc(b, o)' = "idle"
  BY <1>2, <1>4, <1>5 DEF LoginInv, LoginOneRequest
<1>16. LoginOneRequest'
  BY <1>1, <1>4, <1>5, <1>7, <1>15 DEF LoginInv, LoginOneRequest
<1>17. LoginInnocent'
  <2>1. b \in v9' \/ LoginNow(b)' = 0 \/ LoginLive(LoginNow(b))' \/ LoginFamily(LoginNow(b))' \in v5'
    <3>1. CASE LoginPc(b, r) = "answered" /\ v2' = [v2 EXCEPT ![b] = k] /\ v9' = v9
      <4>1. LoginNow(b)' = k
        BY <3>1 DEF LoginNow, LoginInv, LoginTypes
      <4>2. b \in v9 \/ LoginFamily(k) \in v5 \/ LoginLive(k)
        BY <1>0, <3>1 DEF LoginInv, LoginOneRequest
      <4> QED
        BY <1>1, <1>5, <1>7, <4>1, <4>2
    <3>2. CASE LoginPc(b, r) = "sent" /\ v2' = v2 /\ v9' = v9
      <4>1. LoginNow(b)' = LoginNow(b)
        BY <3>2 DEF LoginNow
      <4>2. b \in v9 \/ \A o \in Refreshers[b] : LoginPc(b, o) # "answered"
        BY <1>2, <3>2 DEF LoginInv, LoginOneRequest
      <4> QED
        BY <1>1, <1>5, <1>7, <4>1, <4>2 DEF LoginInv, LoginInnocent
    <3> QED
      BY <1>1, <3>1, <3>2
  <2> QED
    BY <1>1, <1>4, <1>5, <1>7, <2>1 DEF LoginInv, LoginInnocent
<1> QED
  BY <1>6, <1>9, <1>10, <1>11, <1>12, <1>13, <1>14, <1>16, <1>17 DEF LoginInv

LEMMA LoginReadTokens ==
  ASSUME LoginInv, Login!ReadTokens("logout-all")
  PROVE  LoginInv'
<1>1. v4' = [v4 EXCEPT !["logout-all"] = [busy |-> TRUE, seen |-> Login!Live, met |-> FALSE]]
      /\ UNCHANGED <<v1, v2, v3, v5, v6, v7, v8, v9>>
  BY DEF Login!ReadTokens
<1>2. v4' \in [{"logout-all"} -> LoginWork] /\ LoginRead' = Login!Live
  <2>1. [busy |-> TRUE, seen |-> Login!Live, met |-> FALSE] \in LoginWork
    BY DEF LoginWork, Login!Live
  <2> QED
    BY <1>1, <2>1 DEF LoginRead, LoginInv, LoginTypes
<1>3. \A t : t \in LoginRead' <=> LoginLive(t)
  BY <1>2 DEF LoginLive, LoginIs, Login!Live
<1>4. /\ \A t : LoginIs(t)' <=> LoginIs(t)
      /\ \A t : LoginFamily(t)' = LoginFamily(t)
      /\ \A t : LoginLive(t)' <=> LoginLive(t)
      /\ \A c : LoginNow(c)' = LoginNow(c)
      /\ \A c, r : LoginPc(c, r)' = LoginPc(c, r) /\ LoginToken(c, r)' = LoginToken(c, r) /\ LoginSeen(c, r)' = LoginSeen(c, r)
      /\ \A t : LoginLive(t) => LoginIs(t)
  BY <1>1 DEF LoginIs, LoginFamily, LoginLive, LoginNow, LoginPc, LoginToken, LoginSeen
<1>5. LoginTypes'
  BY <1>1, <1>2 DEF LoginTypes, LoginInv
<1>6. \A c, t : LoginHolds(c, t)' <=> LoginHolds(c, t)
  BY <1>4 DEF LoginHolds
<1>7. LoginKept'
  BY <1>1, <1>3, <1>4 DEF LoginInv, LoginKept
<1>8. LoginOwned' /\ LoginForks'
  BY <1>1, <1>4, <1>6 DEF LoginInv, LoginOwned, LoginForks
<1>9. LoginOneLive' /\ LoginEnded'
  BY <1>1, <1>4 DEF LoginInv, LoginOneLive, LoginEnded
<1>10. LoginCovers'
  BY <1>3, <1>4 DEF LoginCovers
<1>11. LoginOneRequest' /\ LoginInnocent'
  BY <1>1, <1>4 DEF LoginInv, LoginOneRequest, LoginInnocent
<1> QED
  BY <1>5, <1>7, <1>8, <1>9, <1>10, <1>11 DEF LoginInv

LEMMA LoginRevokeAll ==
  ASSUME LoginInv, Login!RevokeAll("logout-all")
  PROVE  LoginInv'
<1>0. PICK S : S = LoginRead
  OBVIOUS
<1>1. /\ v1' = Login!Revoked(S) /\ UNCHANGED <<v2, v3, v6, v8, v9>>
      /\ v4' = [v4 EXCEPT !["logout-all"] = Login!Resting]
      /\ v5' = v5 \union {LoginFamily(t) : t \in S}
      /\ v7' = IF v4["logout-all"].met THEN v7 \union {LoginFamily(t) : t \in 1..Len(v1)} ELSE v7 \union Login!UnderWay
      /\ v4["logout-all"].busy
  BY <1>0 DEF Login!RevokeAll, Login!FamilyOf, LoginFamily, LoginRead
<1>2. v4' \in [{"logout-all"} -> LoginWork] /\ LoginRead' = {} /\ ~LoginAlone'
  <2>1. Login!Resting \in LoginWork /\ Login!Resting.seen = {} /\ ~Login!Resting.busy
    BY DEF LoginWork, Login!Resting
  <2> QED
    BY <1>1, <2>1 DEF LoginRead, LoginAlone, LoginInv, LoginTypes
<1>3. /\ v1' \in Seq(LoginRow)
      /\ \A t : LoginIs(t)' <=> LoginIs(t)
      /\ \A t : LoginIs(t) => LoginFamily(t)' = LoginFamily(t)
      /\ \A t : LoginLive(t)' <=> LoginLive(t) /\ t \notin S
  BY <1>1, LoginRevokes DEF LoginInv
<1>4. /\ \A c : LoginNow(c)' = LoginNow(c)
      /\ \A c, r : LoginPc(c, r)' = LoginPc(c, r) /\ LoginToken(c, r)' = LoginToken(c, r) /\ LoginSeen(c, r)' = LoginSeen(c, r)
      /\ \A t : LoginLive(t) => LoginIs(t)
  BY <1>1 DEF LoginLive, LoginNow, LoginPc, LoginToken, LoginSeen
<1>5. LoginTypes'
  BY <1>1, <1>2, <1>3 DEF LoginTypes, LoginInv
<1>6. \A c, t : LoginHolds(c, t)' <=> LoginHolds(c, t)
  BY <1>4 DEF LoginHolds
<1>7. /\ \A f : f \in v5' <=> f \in v5 \/ \E t \in S : LoginFamily(t) = f
      /\ \A t \in S : LoginIs(t) /\ LoginIs(LoginFamily(t))
  BY <1>0, <1>1, LoginNamed DEF LoginInv, LoginKept
<1>8. /\ \A f : f \in v7 => f \in v7'
      /\ \A f : f \in Login!UnderWay => f \in v7'
      /\ LoginAlone \/ \A t : LoginIs(t) => LoginFamily(t) \in v7'
  <2>1. \A f : f \in Login!UnderWay => \E t \in 1..Len(v1) : f = LoginFamily(t)
    BY LoginGoing DEF LoginInv, LoginKept, LoginIs
  <2>2. CASE v4["logout-all"].met
    <3>1. v7' = v7 \union {LoginFamily(t) : t \in 1..Len(v1)}
      BY <1>1, <2>2
    <3> QED
      BY <2>1, <3>1 DEF LoginIs
  <2>3. CASE ~v4["logout-all"].met
    <3>1. v7' = v7 \union Login!UnderWay
      BY <1>1, <2>3
    <3> QED
      BY <1>1, <2>3, <3>1 DEF LoginAlone
  <2> QED
    BY <2>2, <2>3
<1>9. LoginKept'
  BY <1>1, <1>2, <1>3, <1>4, <1>7 DEF LoginInv, LoginKept
<1>10. \A c \in Homes : \A t : LoginHolds(c, t) => LoginIs(t)
  BY DEF LoginInv, LoginKept, LoginHolds
<1>11. LoginOwned'
  BY <1>3, <1>6, <1>10 DEF LoginInv, LoginOwned
<1>12. LoginForks'
  <2>1. ASSUME NEW c \in Homes, NEW t, LoginHolds(c, t)', LoginFamily(t)' \in v8'
        PROVE  LoginFamily(t)' \in v7' \/ c \in v9'
    BY <1>1, <1>3, <1>6, <1>8, <1>10, <2>1 DEF LoginInv, LoginForks
  <2>2. ASSUME NEW c \in Homes, NEW o \in Refreshers[c], LoginPc(c, o)' = "checked"
        PROVE  \/ LoginLive(LoginToken(c, o))' \/ LoginFamily(LoginToken(c, o))' \in v7' \/ c \in v9'
    <3>1. LoginPc(c, o) = "checked" /\ LoginToken(c, o)' = LoginToken(c, o) /\ LoginIs(LoginToken(c, o))
      BY <1>4, <2>2 DEF LoginInv, LoginKept
    <3>2. LoginFamily(LoginToken(c, o)) \in Login!UnderWay
      BY <3>1, LoginGoing DEF LoginInv
    <3> QED
      BY <1>3, <1>8, <3>1, <3>2
  <2> QED
    BY <2>1, <2>2 DEF LoginForks
<1>13. LoginOneLive'
  BY <1>1, <1>3, <1>4 DEF LoginInv, LoginOneLive
<1>14. LoginEnded'
  <2>1. ASSUME NEW f, f \in v5' \/ f \in v6', f \notin v7'
        PROVE  /\ \A t : LoginLive(t) /\ t \notin S => LoginFamily(t) # f
               /\ \A c \in Homes : \A o \in Refreshers[c] : LoginPc(c, o) = "checked" => LoginFamily(LoginToken(c, o)) # f
    <3>1. f \notin Login!UnderWay /\ f \notin v7
      BY <1>8, <2>1
    <3>2. CASE f \in v5 \/ f \in v6
      BY <3>1, <3>2, LoginGoing DEF LoginInv, LoginEnded
    <3>3. CASE \E t \in S : LoginFamily(t) = f
      <4>1. LoginAlone
        BY <1>7, <1>8, <2>1, <3>3
      <4> QED
        BY <1>0, <3>1, <3>3, <4>1, LoginGoing DEF LoginInv, LoginCovers
    <3> QED
      BY <1>1, <1>7, <2>1, <3>2, <3>3
  <2> QED
    BY <1>3, <1>4, <2>1 DEF LoginInv, LoginEnded, LoginKept
<1>15. LoginCovers'
  BY <1>2 DEF LoginCovers
<1>16. LoginOneRequest'
  <2>1. ASSUME NEW c \in Homes, NEW o \in Refreshers[c], c \notin v9', LoginPc(c, o)' # "idle"
        PROVE  /\ \A x \in Refreshers[c] : x # o => LoginPc(c, x)' = "idle"
               /\ \/ LoginFamily(LoginToken(c, o))' \in v5'
                  \/ LoginPc(c, o)' \in {"sent", "checked"} /\ LoginToken(c, o)' = LoginNow(c)'
                  \/ LoginPc(c, o)' = "answered" /\ LoginLive(LoginToken(c, o))'
    BY <1>1, <1>3, <1>4, <1>7, <2>1 DEF LoginInv, LoginOneRequest, LoginKept
  <2> QED
    BY <2>1 DEF LoginOneRequest
<1>17. LoginInnocent'
  BY <1>1, <1>3, <1>4, <1>7 DEF LoginInv, LoginInnocent, LoginKept
<1> QED
  BY <1>5, <1>9, <1>11, <1>12, <1>13, <1>14, <1>15, <1>16, <1>17 DEF LoginInv
LEMMA SignInKeeps ==
  ASSUME LoginInv, Login!Next
  PROVE  LoginInv'
<1>1. CASE \E b \in {"home", "office"} : Login!Login(b) \/ Login!Logout(b)
  BY <1>1, LoginLogin, LoginLogout DEF Homes
<1>2. CASE \E b \in {"home", "office"} : \E r \in Refreshers[b] : Login!Refreshing(b, r)
  <2>1. PICK b \in Homes : \E r \in Refreshers[b] : Login!Refreshing(b, r)
    BY <1>2 DEF Homes
  <2>2. PICK r \in Refreshers[b] : Login!Refreshing(b, r)
    BY <2>1
  <2> QED
    BY <2>2, LoginSend, LoginCheck, LoginRevokeFamily, LoginRotate, LoginAnswer DEF Login!Refreshing
<1>3. CASE \E w \in {"logout-all"} : Login!ReadTokens(w) \/ Login!RevokeAll(w)
  BY <1>3, LoginReadTokens, LoginRevokeAll
<1> QED
  BY <1>1, <1>2, <1>3 DEF Login!Next

LEMMA LoginStarts ==
  ASSUME Login!Init
  PROVE  LoginInv
<1>1. /\ v1 = <<>> /\ v2 = [b \in Homes |-> 0] /\ v3 = [q \in Login!Refreshes |-> Login!Idle]
      /\ v4 = [w \in {"logout-all"} |-> Login!Resting] /\ v5 = {} /\ v6 = {} /\ v8 = {} /\ v9 = {}
  BY DEF Login!Init, Homes
<1>2. /\ Login!Idle \in LoginRequest /\ Login!Idle.pc = "idle" /\ Login!Idle.token = 0 /\ Login!Idle.seen = {}
      /\ Login!Resting \in LoginWork /\ Login!Resting.seen = {} /\ ~Login!Resting.busy
  BY DEF Login!Idle, LoginRequest, Login!Resting, LoginWork
<1>3. LoginTypes
  BY <1>1, <1>2 DEF LoginTypes
<1>4. /\ \A t : ~LoginIs(t) /\ ~LoginLive(t)
      /\ \A b \in Homes : LoginNow(b) = 0
      /\ \A b \in Homes : \A r \in Refreshers[b] :
           LoginPc(b, r) = "idle" /\ LoginToken(b, r) = 0 /\ LoginSeen(b, r) = {}
      /\ LoginRead = {} /\ ~LoginAlone
  BY <1>1, <1>2, LoginPairs
     DEF LoginIs, LoginLive, LoginNow, LoginPc, LoginToken, LoginSeen, LoginRead, LoginAlone
<1>5. \A b, t : ~(b \in Homes /\ LoginHolds(b, t))
  BY <1>4 DEF LoginHolds
<1>6. LoginKept /\ LoginOwned /\ LoginForks
  BY <1>1, <1>4, <1>5 DEF LoginKept, LoginOwned, LoginForks
<1>7. LoginOneLive /\ LoginEnded /\ LoginCovers /\ LoginOneRequest /\ LoginInnocent
  BY <1>1, <1>4 DEF LoginOneLive, LoginEnded, LoginCovers, LoginOneRequest, LoginInnocent
<1> QED
  BY <1>3, <1>6, <1>7 DEF LoginInv

LEMMA LoginStays == ASSUME LoginInv, UNCHANGED slots PROVE LoginInv'
<1>1. UNCHANGED <<v1, v2, v3, v4, v5, v6, v7, v8, v9>>
  BY DEF slots
<1>2. /\ \A t : LoginIs(t)' <=> LoginIs(t)
      /\ \A t : LoginFamily(t)' = LoginFamily(t)
      /\ \A t : LoginLive(t)' <=> LoginLive(t)
      /\ \A c : LoginNow(c)' = LoginNow(c)
      /\ \A c, r : LoginPc(c, r)' = LoginPc(c, r) /\ LoginToken(c, r)' = LoginToken(c, r) /\ LoginSeen(c, r)' = LoginSeen(c, r)
      /\ LoginRead' = LoginRead /\ (LoginAlone' <=> LoginAlone)
  BY <1>1 DEF LoginIs, LoginFamily, LoginLive, LoginNow, LoginPc, LoginToken, LoginSeen, LoginRead, LoginAlone
<1>3. \A c, t : LoginHolds(c, t)' <=> LoginHolds(c, t)
  BY <1>2 DEF LoginHolds
<1>4. LoginTypes' /\ LoginKept'
  BY <1>1, <1>2 DEF LoginInv, LoginTypes, LoginKept
<1>5. LoginOwned' /\ LoginForks' /\ LoginOneLive'
  BY <1>1, <1>2, <1>3 DEF LoginInv, LoginOwned, LoginForks, LoginOneLive
<1>6. LoginEnded' /\ LoginCovers' /\ LoginOneRequest' /\ LoginInnocent'
  BY <1>1, <1>2 DEF LoginInv, LoginEnded, LoginCovers, LoginOneRequest, LoginInnocent
<1> QED
  BY <1>4, <1>5, <1>6 DEF LoginInv

\* The invariant in the slots holds of every state of the component.
LEMMA LoginHeld == OfficeSpec => [](focus = "login" => LoginInv)
<1> DEFINE I == focus = "login" => LoginInv
<1>1. OfficeInit => I
  BY LoginStarts DEF OfficeInit
<1>2. I /\ [OfficeNext]_OfficeVars => I'
  BY Focused, SignInKeeps, LoginStays
<1> QED
  BY <1>1, <1>2, PTL DEF OfficeSpec

\* which is SignIn's Inv.
LEMMA LoginMeans == ASSUME LoginInv PROVE Login!Inv
<1> USE DEF LoginInv, Homes
<1>1. Login!Kept
  <2>1. \A t \in 1..Len(v1) : v1[t].family \in 1..t
    <3> SUFFICES ASSUME NEW t \in 1..Len(v1) PROVE v1[t].family \in 1..t
      OBVIOUS
    <3>1. v1[t] \in LoginRow /\ Len(v1) \in Nat
      BY DEF LoginTypes
    <3>2. v1[t].family \in Nat
      BY <3>1 DEF LoginRow
    <3>3. LoginFamily(t) >= 1 /\ LoginFamily(t) <= t
      BY DEF LoginKept, LoginIs
    <3> QED
      BY <3>1, <3>2, <3>3 DEF LoginFamily
  <2>2. ASSUME NEW b \in Homes, NEW r \in Refreshers[b]
        PROVE  LET q == v3[<<b, r>>] IN
               /\ IF q.pc = "idle" THEN q = Login!Idle ELSE q.token \in 1..Len(v1)
               /\ \A t \in q.seen : t \in 1..Len(v1) /\ Login!FamilyOf(t) = Login!FamilyOf(q.token)
    <3>1. v3[<<b, r>>] \in LoginRequest
      BY LoginPairs DEF LoginTypes
    <3>2. LoginPc(b, r) = "idle" => LoginToken(b, r) = 0 /\ LoginSeen(b, r) = {}
      BY DEF LoginKept
    <3>3. LoginPc(b, r) = "idle" => v3[<<b, r>>] = Login!Idle
      BY <3>1, <3>2 DEF LoginPc, LoginToken, LoginSeen, Login!Idle, LoginRequest
    <3>4. LoginPc(b, r) # "idle" => LoginToken(b, r) \in 1..Len(v1)
      BY DEF LoginKept, LoginIs
    <3>5. \A t \in LoginSeen(b, r) : t \in 1..Len(v1) /\ v1[t].family = v1[LoginToken(b, r)].family
      BY DEF LoginKept, LoginIs, LoginFamily
    <3> QED
      BY <3>3, <3>4, <3>5 DEF LoginPc, LoginToken, LoginSeen, Login!FamilyOf
  <2>3. \A b \in Homes : v2[b] \in 0..Len(v1)
    <3>1. \A b \in Homes : v2[b] = 0 \/ v2[b] \in 1..Len(v1)
      BY DEF LoginKept, LoginIs, LoginNow
    <3> QED
      BY <3>1 DEF LoginTypes
  <2>4. \A w \in {"logout-all"} : v4[w].seen \subseteq 1..Len(v1)
    BY DEF LoginKept, LoginIs, LoginRead
  <2>5. v5 \union v6 \union v8 \subseteq 1..Len(v1)
    BY DEF LoginKept, LoginIs
  <2> QED
    BY <2>1, <2>2, <2>3, <2>4, <2>5 DEF Login!Kept
<1>2. \A b \in Homes : \A t : Login!Holds(b, t) <=> LoginHolds(b, t)
  BY DEF Login!Holds, LoginHolds, LoginNow, LoginToken
<1>3. Login!Owned
  BY <1>2 DEF Login!Owned, LoginOwned, LoginFamily, Login!FamilyOf
<1>4. Login!Forks
  <2>1. \A b \in Homes, t \in 1..Len(v1) :
          Login!Holds(b, t) /\ Login!FamilyOf(t) \in v8 => Login!FamilyOf(t) \in v7 \/ b \in v9
    BY <1>2 DEF LoginForks, LoginFamily, Login!FamilyOf
  <2>2. \A b \in Homes : \A r \in Refreshers[b] :
          v3[<<b, r>>].pc = "checked" /\ v1[v3[<<b, r>>].token].revoked =>
            Login!FamilyOf(v3[<<b, r>>].token) \in v7 \/ b \in v9
    BY DEF LoginForks, LoginFamily, LoginLive, LoginPc, LoginToken, Login!FamilyOf
  <2> QED
    BY <2>1, <2>2 DEF Login!Forks
<1>5. Login!OneLive
  BY DEF LoginOneLive, LoginLive, LoginIs, LoginFamily, Login!OneLive, Login!Live, Login!FamilyOf
<1>6. Login!Ended
  <2>1. \A t \in Login!Live : LoginLive(t)
    BY DEF LoginLive, LoginIs, Login!Live
  <2> QED
    BY <2>1, LoginGoing DEF LoginEnded, LoginFamily, Login!Ended, Login!FamilyOf
<1>7. Login!Read
  BY DEF LoginCovers, LoginAlone, LoginRead, LoginLive, LoginIs, LoginFamily, Login!Read, Login!Live, Login!FamilyOf
<1>8. Login!OneRequest
  BY DEF LoginOneRequest, LoginPc, LoginToken, LoginNow, LoginLive, LoginIs, LoginFamily,
         Login!OneRequest, Login!Live, Login!FamilyOf
<1>9. Login!InnocentStaysSignedIn
  BY DEF LoginInnocent, LoginPc, LoginNow, LoginLive, LoginIs, LoginFamily,
         Login!InnocentStaysSignedIn, Login!Live, Login!FamilyOf
<1> QED
  BY <1>1, <1>3, <1>4, <1>5, <1>6, <1>7, <1>8, <1>9 DEF Login!Inv

\* A family of refresh tokens has at most one live token, since a rotation revokes the one it replaces
\* (refresh_access_token, rotate_to), unless two requests rotated the same token; and a session that was
\* ended, by its user (logout), for a replay (revoke_family) or because the password was reset
\* (revoke_all_for_user), has none again, unless a refresh of it was under way at that moment: for any
\* number of tokens and any order of the requests.
THEOREM OneLiveUntilEndedCorrect == OfficeSpec => []OneLiveUntilEnded
<1>1. ASSUME LoginInv  PROVE Login!OneLivePerFamily
  <2> SUFFICES ASSUME NEW f \in 1..Len(v1), f \notin v8
               PROVE  Login!Cardinality(Login!Live \intersect Login!Family(f)) <= 1
    BY DEF Login!OneLivePerFamily
  <2>1. \A s, t \in Login!Live \intersect Login!Family(f) : s = t
    BY <1>1 DEF LoginInv, LoginOneLive, LoginLive, LoginIs, LoginFamily, Login!Live, Login!Family
  <2>2. \A S : Login!Cardinality(S) = Reset_!Cardinality(S)
    BY DEF Login!Cardinality, Reset_!Cardinality
  <2> QED
    BY <2>1, <2>2, ResetCardinality
<1>2. ASSUME LoginInv  PROVE Login!EndedStaysEnded
  <2> SUFFICES ASSUME NEW f \in v5 \union v6, f \notin v7
               PROVE  Login!Live \intersect Login!Family(f) = {}
    BY DEF Login!EndedStaysEnded
  <2> QED
    BY <1>2 DEF LoginInv, LoginEnded, LoginLive, LoginIs, LoginFamily, Login!Live, Login!Family
<1>3. (focus = "login" => LoginInv) => OneLiveUntilEnded
  BY <1>1, <1>2 DEF OneLiveUntilEnded, Login!OneLiveUntilEnded
<1> QED
  BY <1>3, LoginHeld, PTL

\* The token in the cookie of a browser that lost no answer and overlapped no requests is live, or
\* somebody ended that session, or its successor is on the way: what another browser of the user does
\* never signs it out (refresh_access_token): for any number of tokens.
THEOREM InnocentStaysSignedInCorrect == OfficeSpec => []InnocentStaysSignedIn
<1>1. (focus = "login" => LoginInv) => InnocentStaysSignedIn
  <2> SUFFICES ASSUME LoginInv, NEW b \in Homes
               PROVE  b \in v9 \/ v2[b] = 0 \/ v2[b] \in Login!Live \/ Login!FamilyOf(v2[b]) \in v5
                        \/ \E r \in Refreshers[b] : v3[<<b, r>>].pc = "answered"
    BY DEF InnocentStaysSignedIn, Login!InnocentStaysSignedIn, Homes
  <2> QED
    BY DEF LoginInv, LoginInnocent, LoginNow, LoginLive, LoginIs, LoginFamily, LoginPc, Login!Live, Login!FamilyOf
<1> QED
  BY <1>1, LoginHeld, PTL

---------------------------------------------------------------------------
(* Subscription *)

\* A column that is not written keeps its value.
LEMMA BillingColumn ==
  ASSUME NEW s \in Billing!SubStatus, NEW a \in Billing!SubStatus
  PROVE  /\ Billing!Column(s, a) \in Billing!SubStatus \union {Billing!AsRead}
         /\ Billing!Write(s, Billing!Column(s, a)) = a
BY DEF Billing!Column, Billing!Write, Billing!AsRead, Billing!SubStatus

LEMMA BillingWrite ==
  ASSUME NEW s \in Billing!SubStatus, NEW a \in Billing!SubStatus \union {Billing!AsRead}
  PROVE  Billing!Write(s, a) \in Billing!SubStatus
BY DEF Billing!Write, Billing!AsRead, Billing!SubStatus

\* A snapshot says whether access is paid, whatever the row says.
LEMMA BillingApplied ==
  ASSUME NEW e \in Billing!Event, NEW s \in Billing!SubStatus
  PROVE  /\ Billing!Applied(e, s) \in Billing!SubStatus
         /\ e.kind \in {"upsert", "deleted"} /\ (e.kind = "deleted" => e.status = "canceled")
              => (Billing!Applied(e, s) \in {"active", "trialing"} <=> e.status = "active") /\ Billing!Applied(e, s) # "absent"
<1>1. e.status \in {"active", "past_due", "canceled"} /\ e.kind \in Billing!Kinds
  BY DEF Billing!Event
<1>2. /\ Billing!StatusMap["active"] = "active" /\ Billing!StatusMap["past_due"] = "past_due"
      /\ Billing!StatusMap["canceled"] = "cancelled"
  BY DEF Billing!StatusMap
<1> QED
  BY <1>1, <1>2 DEF Billing!Applied, Billing!Kinds, Billing!SubStatus

\* A webhook that is being handled has an event.
LEMMA BillingBusy ==
  ASSUME Billing!TypeOK, v6.busy
  PROVE  v6 \in [busy : {TRUE}, event : 1..MaxStripeEvents, matched : BOOLEAN, met : BOOLEAN,
                  status : Billing!SubStatus \union {Billing!AsRead}]
<1>1. v6 # Billing!NoWebhook
  BY DEF Billing!NoWebhook
<1> QED
  BY <1>1 DEF Billing!TypeOK, Billing!Webhook

\* Stripe tells a change: the last of its events is a snapshot.
LEMMA BillingSends ==
  ASSUME Billing!Inv, NEW new \in {"active", "past_due", "canceled"}, NEW es \in Seq(Billing!Event),
         Len(es) \in {1, 2}, es[Len(es)].kind \in {"upsert", "deleted"}, es[Len(es)].status = new,
         es[Len(es)].kind = "deleted" => new = "canceled", Billing!Sends(new, es)
  PROVE  Billing!Inv'
<1> USE StripeAssumption
<1>1. /\ v1' = new /\ v2' = v2 \o es /\ UNCHANGED <<v3, v4, v5, v6, v7, v8>> /\ Len(v2) + Len(es) <= MaxStripeEvents
  BY DEF Billing!Sends
<1>2. v2 \in Seq(Billing!Event) /\ Len(v2) \in Nat /\ Len(es) \in Nat /\ Len(es) > 0
  <2>1. v2 \in Seq(Billing!Event)
    BY DEF Billing!Inv, Billing!TypeOK
  <2>2. Len(v2) \in Nat
    BY <2>1, LenProperties
  <2>3. Len(es) \in Nat /\ Len(es) > 0
    BY SMT
  <2> QED
    BY <2>1, <2>2, <2>3
<1>3. /\ v2' \in Seq(Billing!Event) /\ Len(v2') = Len(v2) + Len(es)
      /\ \A i \in 1..Len(v2) : v2'[i] = v2[i]
      /\ v2'[Len(v2')] = es[Len(es)]
  <2>1. v2' \in Seq(Billing!Event) /\ Len(v2') = Len(v2) + Len(es)
        /\ \A i \in 1 .. Len(v2) + Len(es) : v2'[i] = IF i <= Len(v2) THEN v2[i] ELSE es[i - Len(v2)]
    BY <1>1, <1>2, ConcatProperties
  <2> QED
    BY <1>2, <2>1
<1>4. Len(v2') \in Nat /\ Len(v2) < Len(v2') /\ Len(v2') <= MaxStripeEvents
  BY <1>1, <1>2, <1>3
<1>5. Billing!TypeOK'
  <2>1. v3' \subseteq 1..Len(v2')
    BY <1>1, <1>2, <1>4 DEF Billing!Inv, Billing!TypeOK
  <2> QED
    BY <1>1, <1>3, <1>4, <2>1 DEF Billing!Inv, Billing!TypeOK
<1>6. Billing!Latest'
  <2>1. v1' # "none" /\ Len(v2') # 0
    BY <1>1, <1>2, <1>4
  <2>2. /\ v2'[Len(v2')].kind \in {"upsert", "deleted"} /\ v2'[Len(v2')].status = v1'
        /\ v2'[Len(v2')].kind = "deleted" => v1' = "canceled"
    BY <1>1, <1>3
  <2>3. \A i \in 1..MaxStripeEvents : v4'[i] # "none" => i <= Len(v2')
    <3>1. \A i \in 1..MaxStripeEvents : v4[i] # "none" => i <= Len(v2)
      BY DEF Billing!Inv, Billing!Latest
    <3> QED
      BY <1>1, <1>2, <1>4, <3>1
  <2> QED
    BY <2>1, <2>2, <2>3 DEF Billing!Latest
<1>7. Billing!Handled'
  <2>1. ASSUME v6.busy PROVE v6.event \in 1..Len(v2)
    <3>1. v6.event \in 1..MaxStripeEvents /\ v6.event <= Len(v2)
      BY <2>1, BillingBusy DEF Billing!Inv, Billing!Handled
    <3> QED
      BY <1>2, <3>1
  <2>2. v6.busy => v2'[v6.event] = v2[v6.event] /\ v6.event <= Len(v2')
    BY <1>2, <1>3, <1>4, <2>1
  <2> QED
    BY <1>1, <2>2 DEF Billing!Inv, Billing!Handled
<1>8. Billing!Activating'
  BY <1>1 DEF Billing!Inv, Billing!Activating
<1>9. Billing!Followed'
  <2>1. v4[Len(v2')] = "none"
    <3>1. Len(v2') \in 1..MaxStripeEvents /\ ~(Len(v2') <= Len(v2))
      BY <1>2, <1>4
    <3> QED
      BY <3>1 DEF Billing!Inv, Billing!Latest, Billing!TypeOK
  <2> QED
    BY <1>1, <2>1 DEF Billing!Followed
<1> QED
  BY <1>5, <1>6, <1>7, <1>8, <1>9 DEF Billing!Inv

LEMMA BillingStripe ==
  ASSUME Billing!Inv, Billing!Stripe
  PROVE  Billing!Inv'
<1>1. \A k \in Billing!Kinds : \A s \in {"active", "past_due", "canceled"} :
        Billing!Told(k, s) \in Billing!Event /\ Billing!Told(k, s).kind = k /\ Billing!Told(k, s).status = s
  BY DEF Billing!Told, Billing!Event
<1>2. ASSUME NEW k \in Billing!Kinds, NEW l \in {"upsert", "deleted"}, NEW new \in {"active", "past_due", "canceled"},
             l = "deleted" => new = "canceled",
             Billing!Sends(new, <<Billing!Told(k, new), Billing!Told(l, new)>>) \/ Billing!Sends(new, <<Billing!Told(l, new)>>)
      PROVE  Billing!Inv'
  <2>1. PICK x \in Billing!Event, y \in Billing!Event :
          x = Billing!Told(k, new) /\ y = Billing!Told(l, new) /\ y.kind = l /\ y.status = new
    BY <1>1 DEF Billing!Kinds
  <2>2. CASE Billing!Sends(new, <<x, y>>)
    <3>1. <<x, y>> \in Seq(Billing!Event) /\ Len(<<x, y>>) = 2 /\ <<x, y>>[2] = y
      OBVIOUS
    <3> QED
      BY <1>2, <2>1, <2>2, <3>1, BillingSends
  <2>3. CASE Billing!Sends(new, <<y>>)
    <3>1. <<y>> \in Seq(Billing!Event) /\ Len(<<y>>) = 1 /\ <<y>>[1] = y
      OBVIOUS
    <3> QED
      BY <1>2, <2>1, <2>3, <3>1, BillingSends
  <2> QED
    BY <1>2, <2>1, <2>2, <2>3
<1>3. {"checkout", "payment_failed", "paid", "deleted"} \subseteq Billing!Kinds
  BY DEF Billing!Kinds
<1> QED
  BY <1>2, <1>3 DEF Billing!Stripe, Billing!Checkout, Billing!PaymentFails, Billing!InvoicePaid, Billing!Cancellation

\* What is at hand about the webhook being handled.
LEMMA BillingHandling ==
  ASSUME Billing!Inv, v6.busy
  PROVE  /\ v6.event \in 1..Len(v2) /\ v6.event \in 1..MaxStripeEvents /\ v2[v6.event] \in Billing!Event
         /\ v6.matched \in BOOLEAN /\ v6.met \in BOOLEAN /\ v6.status \in Billing!SubStatus \union {Billing!AsRead}
         /\ v4[v6.event] # "processed"
         /\ v6.matched /\ ~v6.met => v5.status # "absent"
              /\ v6.status = Billing!Column(v5.status, Billing!Applied(v2[v6.event], v5.status))
<1>1. /\ v6 \in [busy : {TRUE}, event : 1..MaxStripeEvents, matched : BOOLEAN, met : BOOLEAN,
                 status : Billing!SubStatus \union {Billing!AsRead}]
      /\ v2 \in Seq(Billing!Event) /\ Len(v2) \in Nat
  <2>1. Billing!TypeOK
    BY DEF Billing!Inv
  <2>2. v2 \in Seq(Billing!Event) /\ Len(v2) \in Nat
    BY <2>1 DEF Billing!TypeOK
  <2> QED
    BY <2>1, <2>2, BillingBusy
<1>2. v6.event \in 1..MaxStripeEvents
  BY <1>1
<1>3. v6.event <= Len(v2)
  BY DEF Billing!Inv, Billing!Handled
<1>4. v6.event \in 1..Len(v2)
  BY <1>1, <1>2, <1>3
<1> QED
  BY <1>1, <1>2, <1>4 DEF Billing!Inv, Billing!Handled

LEMMA BillingReceive ==
  ASSUME Billing!Inv, NEW i \in 1..Len(v2), Billing!Receive(i) \/ Billing!AnswerDuplicate(i)
  PROVE  Billing!Inv'
<1> USE StripeAssumption
<1>1. v2 \in Seq(Billing!Event) /\ Len(v2) \in Nat /\ Len(v2) <= MaxStripeEvents /\ v2[i] \in Billing!Event /\ i \in 1..MaxStripeEvents
      /\ v5 \in Billing!Sub /\ v5.status \in Billing!SubStatus
  BY DEF Billing!Inv, Billing!TypeOK, Billing!Sub
<1>2. CASE Billing!Receive(i)
  <2> DEFINE now == Billing!Applied(v2[i], v5.status)
             w == [busy |-> TRUE, event |-> i, matched |-> Billing!Matched(v2[i]), met |-> FALSE,
                   status |-> IF Billing!Matched(v2[i]) THEN Billing!Column(v5.status, now) ELSE Billing!AsRead]
  <2>1. v6' = w /\ UNCHANGED <<v1, v2, v3, v4, v5, v7, v8>> /\ v4[i] # "processed"
    BY <1>2 DEF Billing!Receive, Billing!Duplicate
  <2>2. Billing!Column(v5.status, now) \in Billing!SubStatus \union {Billing!AsRead}
    BY <1>1, BillingApplied, BillingColumn
  <2>3. Billing!Matched(v2[i]) \in BOOLEAN /\ (Billing!Matched(v2[i]) => v5.status # "absent")
    BY <1>1 DEF Billing!Matched, Billing!Sub
  <2>4. /\ w.busy /\ w.event = i /\ (w.matched <=> Billing!Matched(v2[i]))
        /\ w.matched => w.status = Billing!Column(v5.status, now)
        /\ w \in Billing!Webhook
    BY <1>1, <2>2, <2>3 DEF Billing!Webhook
  <2> HIDE DEF w
  <2>5. Billing!TypeOK'
    BY <2>1, <2>4 DEF Billing!Inv, Billing!TypeOK
  <2>6. Billing!Handled'
    BY <1>1, <2>1, <2>3, <2>4 DEF Billing!Inv, Billing!Handled
  <2>7. Billing!Latest' /\ Billing!Activating' /\ Billing!Followed'
    BY <2>1 DEF Billing!Inv, Billing!Latest, Billing!Activating, Billing!Followed, Billing!Paid
  <2> QED
    BY <2>5, <2>6, <2>7 DEF Billing!Inv
<1>3. CASE Billing!AnswerDuplicate(i)
  <2>1. v3' = v3 \union {i} /\ UNCHANGED <<v1, v2, v4, v5, v6, v7, v8>> /\ v4[i] = "processed"
    BY <1>3 DEF Billing!AnswerDuplicate, Billing!Duplicate
  <2>2. Billing!TypeOK' /\ Billing!Handled'
    BY <2>1 DEF Billing!Inv, Billing!TypeOK, Billing!Handled
  <2>3. Billing!Latest' /\ Billing!Activating' /\ Billing!Followed'
    BY <2>1 DEF Billing!Inv, Billing!Latest, Billing!Activating, Billing!Followed, Billing!Paid
  <2> QED
    BY <2>2, <2>3 DEF Billing!Inv
<1> QED
  BY <1>2, <1>3

\* What both last commits write.
LEMMA BillingWritten ==
  ASSUME Billing!Inv, v6.busy
  PROVE  /\ Billing!WrittenSub \in Billing!Sub /\ Billing!WrittenSub.status = Billing!Write(v5.status, v6.status)
         /\ v6.matched /\ ~v6.met =>
              Billing!WrittenSub.status = Billing!Applied(v2[v6.event], v5.status)
<1>1. v5 \in Billing!Sub /\ v5.status \in Billing!SubStatus
  BY DEF Billing!Inv, Billing!TypeOK, Billing!Sub
<1>2. Billing!Write(v5.status, v6.status) \in Billing!SubStatus
  BY <1>1, BillingHandling, BillingWrite
<1>3. Billing!WrittenSub = [v5 EXCEPT !.status = Billing!Write(v5.status, v6.status), !.linked = Billing!WrittenSub.linked]
      /\ Billing!WrittenSub.linked \in BOOLEAN
  BY <1>1 DEF Billing!WrittenSub, Billing!Sub
<1>4. Billing!WrittenSub \in Billing!Sub /\ Billing!WrittenSub.status = Billing!Write(v5.status, v6.status)
  BY <1>1, <1>2, <1>3 DEF Billing!Sub
<1> QED
  BY <1>1, <1>4, BillingHandling, BillingApplied, BillingColumn

LEMMA BillingProcessed ==
  ASSUME Billing!Inv, NEW answered \in BOOLEAN, Billing!Processed(answered)
  PROVE  Billing!Inv'
<1> USE StripeAssumption
<1>0. PICK e : e = v6.event
  OBVIOUS
<1>1. /\ v6.busy /\ v5' = Billing!WrittenSub /\ v4' = [v4 EXCEPT ![e] = "processed"]
      /\ v3' = (IF answered THEN v3 \union {e} ELSE v3) /\ v6' = Billing!NoWebhook
      /\ v8' = (Billing!OutOfOrder \/ ~v6.matched \/ (v8 /\ ~Billing!Snapshot)) /\ UNCHANGED <<v1, v2, v7>>
  BY <1>0 DEF Billing!Processed
<1>2. /\ e \in 1..Len(v2) /\ e \in 1..MaxStripeEvents /\ v2[e] \in Billing!Event /\ Len(v2) \in Nat
      /\ v4 \in [1..MaxStripeEvents -> {"none", "failed", "processed"}] /\ v3 \subseteq 1..Len(v2)
  <2>1. v2 \in Seq(Billing!Event) /\ v4 \in [1..MaxStripeEvents -> {"none", "failed", "processed"}] /\ v3 \subseteq 1..Len(v2)
    BY DEF Billing!Inv, Billing!TypeOK
  <2> QED
    BY <1>0, <1>1, <2>1, BillingHandling
<1>3. /\ v4' \in [1..MaxStripeEvents -> {"none", "failed", "processed"}] /\ v4'[e] = "processed"
      /\ \A i \in 1..MaxStripeEvents : i # e => v4'[i] = v4[i]
  BY <1>1, <1>2
<1>4. Billing!TypeOK'
  <2>1. v5' \in Billing!Sub
    BY <1>1, BillingWritten
  <2>2. v3' \subseteq 1..Len(v2') /\ v6' \in Billing!Webhook
    BY <1>1, <1>2 DEF Billing!Webhook
  <2>3. v8' \in BOOLEAN
    BY <1>1
  <2> QED
    BY <1>1, <1>3, <2>1, <2>2, <2>3 DEF Billing!Inv, Billing!TypeOK
<1>5. Billing!Latest'
  BY <1>1, <1>2, <1>3 DEF Billing!Inv, Billing!Latest
<1>6. Billing!Handled'
  <2>1. ~v6'.busy
    BY <1>1 DEF Billing!NoWebhook
  <2>2. \A i \in v3 : i \in 1..MaxStripeEvents /\ v4[i] = "processed"
    <3>1. Len(v2) <= MaxStripeEvents
      BY DEF Billing!Inv, Billing!TypeOK
    <3> QED
      BY <1>2, <3>1 DEF Billing!Inv, Billing!Handled
  <2> QED
    BY <1>1, <1>3, <2>1, <2>2 DEF Billing!Handled
<1>7. Billing!Activating'
  <2>1. v8' \/ \A t \in Threads : v7[t].todo # "activate"
    BY <1>1 DEF Billing!OutOfOrder
  <2> QED
    BY <1>1, <2>1 DEF Billing!Inv, Billing!Activating
<1>8. Billing!Followed'
  <2>1. SUFFICES ASSUME Len(v2) > 0, ~v8', v4'[Len(v2)] = "processed"
        PROVE  v5'.status # "absent" /\ (v5'.status \in {"active", "trialing"} <=> v1 = "active")
    BY <1>1 DEF Billing!Followed, Billing!Paid
  <2>2. v6.matched /\ ~v6.met /\ \A j \in e + 1 .. Len(v2) : v4[j] = "none"
    BY <1>0, <1>1, <2>1 DEF Billing!OutOfOrder
  <2>3. e = Len(v2)
    <3>1. e < Len(v2) => Len(v2) \in e + 1 .. Len(v2) /\ Len(v2) \in 1..MaxStripeEvents
      BY <1>2 DEF Billing!Inv, Billing!TypeOK
    <3> QED
      BY <1>2, <1>3, <2>1, <2>2, <3>1
  <2>4. v5'.status = Billing!Applied(v2[e], v5.status) /\ v5.status \in Billing!SubStatus
    <3>1. v5.status \in Billing!SubStatus
      BY DEF Billing!Inv, Billing!TypeOK, Billing!Sub
    <3> QED
      BY <1>0, <1>1, <2>2, <3>1, BillingWritten
  <2>5. /\ v2[e].kind \in {"upsert", "deleted"} /\ v2[e].status = v1
        /\ v2[e].kind = "deleted" => v2[e].status = "canceled"
    BY <2>1, <2>3 DEF Billing!Inv, Billing!Latest
  <2> QED
    BY <1>2, <2>4, <2>5, BillingApplied
<1> QED
  BY <1>4, <1>5, <1>6, <1>7, <1>8 DEF Billing!Inv

LEMMA BillingFailed ==
  ASSUME Billing!Inv, NEW assigned \in BOOLEAN, Billing!Failed(assigned)
  PROVE  Billing!Inv'
<1> USE StripeAssumption
<1>0. PICK e : e = v6.event
  OBVIOUS
<1>1. /\ v6.busy /\ v5' = (IF assigned THEN Billing!WrittenSub ELSE v5) /\ v4' = [v4 EXCEPT ![e] = "failed"]
      /\ v6' = Billing!NoWebhook /\ v8' = (v8 \/ Billing!OutOfOrder) /\ UNCHANGED <<v1, v2, v3, v7>>
  BY <1>0 DEF Billing!Failed
<1>2. /\ e \in 1..Len(v2) /\ e \in 1..MaxStripeEvents /\ Len(v2) \in Nat /\ Len(v2) <= MaxStripeEvents /\ v4[e] # "processed"
      /\ v4 \in [1..MaxStripeEvents -> {"none", "failed", "processed"}] /\ v3 \subseteq 1..Len(v2)
  <2>1. /\ v2 \in Seq(Billing!Event) /\ Len(v2) <= MaxStripeEvents
        /\ v4 \in [1..MaxStripeEvents -> {"none", "failed", "processed"}] /\ v3 \subseteq 1..Len(v2)
    BY DEF Billing!Inv, Billing!TypeOK
  <2> QED
    BY <1>0, <1>1, <2>1, BillingHandling
<1>3. /\ v4' \in [1..MaxStripeEvents -> {"none", "failed", "processed"}] /\ v4'[e] = "failed"
      /\ \A i \in 1..MaxStripeEvents : i # e => v4'[i] = v4[i]
  BY <1>1, <1>2
<1>4. Billing!TypeOK'
  <2>1. v5' \in Billing!Sub
    BY <1>1, BillingWritten DEF Billing!Inv, Billing!TypeOK
  <2>2. v6' \in Billing!Webhook /\ v8' \in BOOLEAN
    BY <1>1 DEF Billing!Webhook
  <2> QED
    BY <1>1, <1>3, <2>1, <2>2 DEF Billing!Inv, Billing!TypeOK
<1>5. Billing!Latest'
  BY <1>1, <1>2, <1>3 DEF Billing!Inv, Billing!Latest
<1>6. Billing!Handled'
  <2>1. ~v6'.busy
    BY <1>1 DEF Billing!NoWebhook
  <2>2. \A i \in v3 : i \in 1..MaxStripeEvents /\ v4[i] = "processed" /\ i # e
    BY <1>2 DEF Billing!Inv, Billing!Handled
  <2> QED
    BY <1>1, <1>3, <2>1, <2>2 DEF Billing!Handled
<1>7. Billing!Activating'
  <2>1. v8' \/ \A t \in Threads : v7[t].todo # "activate"
    BY <1>1 DEF Billing!OutOfOrder
  <2> QED
    BY <1>1, <2>1 DEF Billing!Inv, Billing!Activating
<1>8. Billing!Followed'
  <2>1. SUFFICES ASSUME Len(v2) > 0, ~v8', v4'[Len(v2)] = "processed"
        PROVE  FALSE
    BY <1>1 DEF Billing!Followed
  <2>2. Len(v2) # e /\ Len(v2) \in e + 1 .. Len(v2) /\ Len(v2) \in 1..MaxStripeEvents
    BY <1>2, <1>3, <2>1
  <2>3. v4[Len(v2)] = "processed"
    BY <1>3, <2>1, <2>2
  <2> QED
    BY <1>0, <1>1, <2>1, <2>2, <2>3 DEF Billing!OutOfOrder
<1> QED
  BY <1>4, <1>5, <1>6, <1>7, <1>8 DEF Billing!Inv

LEMMA BillingActivate ==
  ASSUME Billing!Inv, NEW t \in Threads, NEW limit \in {1}, NEW link \in BOOLEAN, Billing!Activate(t, limit, link)
  PROVE  Billing!Inv'
<1> DEFINE w == [todo |-> "activate", insert |-> v5.status = "absent", limit |-> limit, link |-> link,
                 status |-> Billing!Column(v5.status, "active")]
<1>1. v7' = [v7 EXCEPT ![t] = w] /\ UNCHANGED <<v1, v2, v3, v4, v5, v6, v8>>
  BY DEF Billing!Activate
<1>2. /\ w \in Billing!Work /\ w.status \in {Billing!AsRead, "active"}
      /\ w.status = Billing!AsRead => v5.status = "active"
  <2>1. v5.status \in Billing!SubStatus /\ "active" \in Billing!SubStatus
    BY DEF Billing!Inv, Billing!TypeOK, Billing!Sub, Billing!SubStatus
  <2>2. /\ Billing!Column(v5.status, "active") \in {Billing!AsRead, "active"}
        /\ Billing!Column(v5.status, "active") = Billing!AsRead => v5.status = "active"
    BY DEF Billing!Column, Billing!AsRead
  <2> QED
    BY <2>1, <2>2 DEF Billing!Work
<1> HIDE DEF w
<1>3. v7' \in [Threads -> Billing!Work] /\ v7'[t] = w /\ \A u \in Threads \ {t} : v7'[u] = v7[u]
  BY <1>1, <1>2 DEF Billing!Inv, Billing!TypeOK
<1>4. Billing!TypeOK'
  BY <1>1, <1>3 DEF Billing!Inv, Billing!TypeOK
<1>5. Billing!Activating'
  BY <1>1, <1>2, <1>3 DEF Billing!Activating, Billing!Inv
<1>6. Billing!Latest' /\ Billing!Handled' /\ Billing!Followed'
  BY <1>1 DEF Billing!Inv, Billing!Latest, Billing!Handled, Billing!Followed, Billing!Paid
<1> QED
  BY <1>4, <1>5, <1>6 DEF Billing!Inv

LEMMA BillingActivated ==
  ASSUME Billing!Inv, NEW t \in Threads, Billing!CommitActivation(t)
  PROVE  Billing!Inv'
<1> USE StripeAssumption
<1>0. PICK w : w = v7[t]
  OBVIOUS
<1>1. /\ w.todo = "activate" /\ v7' = [v7 EXCEPT ![t] = Billing!Idle] /\ UNCHANGED <<v1, v2, v3, v4>>
      /\ IF w.insert /\ v5.status # "absent" THEN UNCHANGED <<v5, v6, v8>>
         ELSE /\ v5' = [status |-> Billing!Write(v5.status, w.status), limit |-> w.limit, linked |-> v5.linked \/ w.link]
              /\ v8' = (v8 \/ v1 # "active")
              /\ v6' = IF v6.busy THEN [v6 EXCEPT !.met = TRUE] ELSE v6
  BY <1>0 DEF Billing!CommitActivation
<1>2. /\ w.status \in {Billing!AsRead, "active"} /\ (w.status = Billing!AsRead /\ ~v8 => v5.status = "active")
      /\ w.limit \in {1}
  <2>1. w \in Billing!Work
    BY <1>0 DEF Billing!Inv, Billing!TypeOK
  <2> QED
    BY <1>0, <1>1, <2>1 DEF Billing!Inv, Billing!Activating, Billing!Work, Billing!Idle
<1>3. v7' \in [Threads -> Billing!Work] /\ Billing!Idle.todo = "idle"
      /\ \A u \in Threads : v7'[u] \in {v7[u], Billing!Idle}
  BY <1>1 DEF Billing!Inv, Billing!TypeOK, Billing!Work, Billing!Idle
<1>4. v5.status \in Billing!SubStatus /\ "active" \in Billing!SubStatus /\ v5 \in Billing!Sub
  BY DEF Billing!Inv, Billing!TypeOK, Billing!Sub, Billing!SubStatus
<1>6. CASE UNCHANGED <<v5, v6, v8>>
  <2>1. Billing!TypeOK'
    BY <1>1, <1>3, <1>6 DEF Billing!Inv, Billing!TypeOK
  <2>2. Billing!Latest' /\ Billing!Handled' /\ Billing!Followed'
    BY <1>1, <1>6 DEF Billing!Inv, Billing!Latest, Billing!Handled, Billing!Followed, Billing!Paid
  <2>3. Billing!Activating'
    BY <1>3, <1>6 DEF Billing!Inv, Billing!Activating
  <2> QED
    BY <2>1, <2>2, <2>3 DEF Billing!Inv
<1>7. CASE /\ v5' = [status |-> Billing!Write(v5.status, w.status), limit |-> w.limit, linked |-> v5.linked \/ w.link]
           /\ v8' = (v8 \/ v1 # "active")
           /\ v6' = IF v6.busy THEN [v6 EXCEPT !.met = TRUE] ELSE v6
  <2>1. Billing!Write(v5.status, w.status) \in Billing!SubStatus
        /\ (Billing!Write(v5.status, w.status) = "active" \/ (w.status = Billing!AsRead /\ Billing!Write(v5.status, w.status) = v5.status))
    BY <1>2, <1>4 DEF Billing!Write, Billing!SubStatus
  <2>2. v5' \in Billing!Sub /\ v5'.status = Billing!Write(v5.status, w.status)
    <3>1. (v5.linked \/ w.link) \in BOOLEAN
      OBVIOUS
    <3> QED
      BY <1>2, <1>7, <2>1, <3>1 DEF Billing!Sub
  <2>3. ~v8' => v5'.status = "active" /\ v1 = "active"
    BY <1>2, <1>7, <2>1, <2>2
  <2>4. /\ v6' \in Billing!Webhook /\ (v6'.busy <=> v6.busy)
        /\ v6.busy => v6'.event = v6.event /\ v6'.met
    <3>1. CASE v6.busy
      <4>1. v6 \in [busy : {TRUE}, event : 1..MaxStripeEvents, matched : BOOLEAN, met : BOOLEAN,
                    status : Billing!SubStatus \union {Billing!AsRead}]
        BY <3>1, BillingBusy DEF Billing!Inv
      <4>2. v6' = [v6 EXCEPT !.met = TRUE]
        BY <1>7, <3>1
      <4>3. v6' \in [busy : {TRUE}, event : 1..MaxStripeEvents, matched : BOOLEAN, met : BOOLEAN,
                     status : Billing!SubStatus \union {Billing!AsRead}]
            /\ v6'.event = v6.event /\ v6'.met
        BY <4>1, <4>2
      <4> QED
        BY <3>1, <4>3 DEF Billing!Webhook
    <3>2. CASE ~v6.busy
      BY <1>7, <3>2 DEF Billing!Inv, Billing!TypeOK
    <3> QED
      BY <3>1, <3>2
  <2>5. v8' \in BOOLEAN
    BY <1>7
  <2>6. Billing!TypeOK'
    BY <1>1, <1>3, <2>2, <2>4, <2>5 DEF Billing!Inv, Billing!TypeOK
  <2>7. Billing!Latest' /\ Billing!Handled'
    BY <1>1, <2>4 DEF Billing!Inv, Billing!Latest, Billing!Handled
  <2>8. Billing!Followed'
    BY <1>1, <2>3 DEF Billing!Followed, Billing!Paid
  \* What the other activations have read is as true of the row as it was, or the row has strayed.
  <2>9. Billing!Activating'
    BY <1>3, <2>3 DEF Billing!Inv, Billing!Activating
  <2> QED
    BY <2>6, <2>7, <2>8, <2>9 DEF Billing!Inv
<1> QED
  BY <1>1, <1>6, <1>7

LEMMA BillingDrops ==
  ASSUME Billing!Inv, Billing!WebhookLost \/ Billing!Restart \/ UNCHANGED <<v1, v2, v3, v4, v5, v6, v7, v8>>
  PROVE  Billing!Inv'
<1>1. /\ UNCHANGED <<v1, v2, v3, v4, v5, v8>> /\ v6' \in {Billing!NoWebhook, v6}
      /\ v7' \in {v7, [t \in Threads |-> Billing!Idle]}
  BY DEF Billing!WebhookLost, Billing!Restart
<1>2. Billing!TypeOK'
  <2>1. Billing!NoWebhook \in Billing!Webhook /\ Billing!Idle \in Billing!Work
    BY DEF Billing!Webhook, Billing!Work
  <2> QED
    BY <1>1, <2>1 DEF Billing!Inv, Billing!TypeOK
<1>3. Billing!Latest' /\ Billing!Followed'
  BY <1>1 DEF Billing!Inv, Billing!Latest, Billing!Followed, Billing!Paid
<1>4. Billing!Handled'
  BY <1>1 DEF Billing!Inv, Billing!Handled, Billing!NoWebhook
<1>5. Billing!Activating'
  BY <1>1 DEF Billing!Inv, Billing!Activating, Billing!Idle
<1> QED
  BY <1>2, <1>3, <1>4, <1>5 DEF Billing!Inv

LEMMA BillingStep ==
  ASSUME Billing!Inv, Billing!Next
  PROVE  Billing!Inv'
<1>1. CASE Billing!Stripe
  BY <1>1, BillingStripe
<1>2. CASE Billing!Webhooks
  BY <1>2, BillingReceive, BillingProcessed, BillingFailed, BillingDrops DEF Billing!Webhooks
<1>3. CASE Billing!Activations
  BY <1>3, BillingActivate, BillingActivated DEF Billing!Activations
<1>4. CASE Billing!Restart
  BY <1>4, BillingDrops
<1> QED
  BY <1>1, <1>2, <1>3, <1>4 DEF Billing!Next

\* Whatever Stripe sends, repeats and retries, and however handlers fail (process_webhook): once every
\* event is answered the tenant has paid access exactly if Stripe says so, unless the last ones came out of
\* order, found no row or met an activation, for any number of events and activations.
THEOREM InStepWithStripeCorrect == OfficeSpec => []InStepWithStripe
<1> DEFINE I == focus = "subscription" => Billing!Inv
<1>1. OfficeInit => I
  <2> SUFFICES ASSUME Billing!Init PROVE Billing!Inv
    BY DEF OfficeInit
  <2>1. /\ v1 = "none" /\ v2 = <<>> /\ v3 = {} /\ v4 = [i \in 1..MaxStripeEvents |-> "none"]
        /\ v5 = [status |-> "absent", limit |-> 0, linked |-> FALSE] /\ v6 = Billing!NoWebhook
        /\ v7 = [t \in Threads |-> Billing!Idle] /\ v8 = FALSE /\ Len(v2) = 0 /\ v2 \in Seq(Billing!Event)
    BY DEF Billing!Init
  <2>2. Billing!TypeOK
    <3>1. v5 \in Billing!Sub
      BY <2>1 DEF Billing!Sub, Billing!SubStatus
    <3>2. v6 \in Billing!Webhook /\ v7 \in [Threads -> Billing!Work]
      BY <2>1 DEF Billing!Webhook, Billing!Work
    <3> QED
      <4>1. v4 \in [1..MaxStripeEvents -> {"none", "failed", "processed"}] /\ v1 \in {"none", "active", "past_due", "canceled"}
        BY <2>1
      <4>2. Len(v2) <= MaxStripeEvents /\ v3 \subseteq 1..Len(v2)
        BY <2>1, StripeAssumption
      <4> QED
        BY <2>1, <3>1, <3>2, <4>1, <4>2 DEF Billing!TypeOK
  <2>3. Billing!Latest /\ Billing!Handled /\ Billing!Activating /\ Billing!Followed
    BY <2>1 DEF Billing!Latest, Billing!Handled, Billing!Activating, Billing!Followed, Billing!NoWebhook, Billing!Idle
  <2> QED
    BY <2>2, <2>3 DEF Billing!Inv
<1>2. I /\ [OfficeNext]_OfficeVars => I'
  <2> SUFFICES ASSUME Billing!Inv, [OfficeNext]_OfficeVars, focus = "subscription" PROVE Billing!Inv'
    BY Focused
  <2>1. CASE UNCHANGED slots
    BY <2>1, BillingDrops DEF slots
  <2> QED
    BY <2>1, Focused, BillingStep
<1>3. I => InStepWithStripe
  <2> SUFFICES ASSUME Billing!Inv, v1 # "none", v3 = 1..Len(v2), ~v8
               PROVE  Billing!Paid <=> v1 = "active"
    BY DEF InStepWithStripe, Billing!InStepWithStripe
  <2>1. Len(v2) \in Nat /\ Len(v2) # 0
    BY DEF Billing!Inv, Billing!Latest, Billing!TypeOK
  <2>2. v4[Len(v2)] = "processed"
    BY <2>1 DEF Billing!Inv, Billing!Handled
  <2> QED
    BY <2>1, <2>2 DEF Billing!Inv, Billing!Followed
<1> QED
  BY <1>1, <1>2, <1>3, PTL DEF OfficeSpec
---------------------------------------------------------------------------
(* Licences *)

LicenceRows == IsFiniteSet(Licence!Assignments) /\ Licence!Seats = Cardinality(Licence!Assignments)

\* The seats in use after one was assigned.
LEMMA LicenceAssigned ==
  ASSUME LicenceRows, v2 \in [Licence!Holders -> Nat], NEW h \in Licence!Holders, v2' = [v2 EXCEPT ![h] = @ + 1]
  PROVE  LicenceRows' /\ Licence!Seats \in Nat /\ Licence!Seats' = Licence!Seats + 1
<1> DEFINE row == <<h, v2[h] + 1>>
<1>1. Licence!Assignments' = Licence!Assignments \union {row} /\ row \notin Licence!Assignments
  <2>1. \A a \in Licence!Holders : v2'[a] = IF a = h THEN v2[h] + 1 ELSE v2[a]
    OBVIOUS
  <2>2. v2[h] \in Nat /\ 1..(v2[h] + 1) = (1..v2[h]) \union {v2[h] + 1}
    OBVIOUS
  <2>3. \A a, n : <<a, n>> \in Licence!Assignments <=> a \in Licence!Holders /\ n \in 1..v2[a]
    BY DEF Licence!Assignments
  <2>4. \A a, n : <<a, n>> \in Licence!Assignments' <=> a \in Licence!Holders /\ n \in 1..v2'[a]
    BY DEF Licence!Assignments, Licence!Holders
  <2>5. ASSUME NEW r \in Licence!Assignments PROVE \E a, n : r = <<a, n>>
    BY DEF Licence!Assignments
  <2>6. ASSUME NEW r \in Licence!Assignments' PROVE \E a, n : r = <<a, n>>
    BY DEF Licence!Assignments
  <2>7. row \notin Licence!Assignments
    BY <2>2, <2>3
  <2>8. ASSUME NEW a, NEW n
        PROVE  <<a, n>> \in Licence!Assignments' <=> <<a, n>> \in Licence!Assignments \/ <<a, n>> = row
    BY <2>1, <2>2, <2>3, <2>4
  <2> QED
    BY <2>5, <2>6, <2>7, <2>8
<1>2. /\ IsFiniteSet(Licence!Assignments') /\ Cardinality(Licence!Assignments) \in Nat
      /\ Cardinality(Licence!Assignments') = Cardinality(Licence!Assignments) + 1
  BY <1>1, FS_AddElement, FS_CardinalityType DEF LicenceRows
<1>3. Licence!Seats' = Cardinality(Licence!Assignments')
  BY DEF Licence!Seats, Licence!Cardinality, Cardinality
<1> QED
  BY <1>2, <1>3 DEF LicenceRows

\* The seats in use after some rows were deleted.
LEMMA LicenceDeleted ==
  ASSUME LicenceRows, v2 \in [Licence!Holders -> Nat], v2' \in [Licence!Holders -> Nat],
         \A a \in Licence!Holders : v2'[a] <= v2[a]
  PROVE  LicenceRows' /\ Licence!Seats \in Nat /\ Licence!Seats' \in Nat /\ Licence!Seats' <= Licence!Seats
<1>1. Licence!Assignments' \subseteq Licence!Assignments
  BY DEF Licence!Assignments, Licence!Holders
<1>2. /\ IsFiniteSet(Licence!Assignments') /\ Cardinality(Licence!Assignments) \in Nat
      /\ Cardinality(Licence!Assignments') \in Nat
      /\ Cardinality(Licence!Assignments') <= Cardinality(Licence!Assignments)
  BY <1>1, FS_Subset, FS_CardinalityType DEF LicenceRows
<1>3. Licence!Seats' = Cardinality(Licence!Assignments')
  BY DEF Licence!Seats, Licence!Cardinality, Cardinality
<1> QED
  BY <1>2, <1>3 DEF LicenceRows

\* No row is added and the counter is not written, or an operator has written it.
LEMMA LicenceEdited ==
  ASSUME Licence!Inv, LicenceRows, v1' \in Licence!Pool, v2' \in [Licence!Holders -> Nat], v3' \subseteq Assets,
         v4' \in [Threads -> {Licence!Idle} \union [pc : {"assigns"}, of : Licence!Holders, read : Licence!Pool]],
         v5' \in BOOLEAN, v6' = v6, v5 => v5', \A a \in Licence!Holders : v2'[a] <= v2[a],
         ~v5' => v1'.used = v1.used /\ (v1'.total = v1.total \/ v1'.total >= v1.used),
         \A t \in Threads : v4'[t].pc = "assigns" => v4'[t].read.used < v4'[t].read.total
  PROVE  Licence!Inv' /\ LicenceRows'
<1>1. LicenceRows' /\ Licence!Seats \in Nat /\ Licence!Seats' \in Nat /\ Licence!Seats' <= Licence!Seats
  BY LicenceDeleted DEF Licence!Inv, Licence!TypeOK
<1>2. Licence!TypeOK'
  BY DEF Licence!Inv, Licence!TypeOK
<1>3. Licence!SeatsAreCounted'
  <2>1. v1.used \in Nat /\ v1'.used \in Nat /\ v1.total \in Nat /\ v1'.total \in Nat
    BY PoolAssumption DEF Licence!Inv, Licence!TypeOK, Licence!Pool
  <2> QED
    BY <1>1, <2>1 DEF Licence!Inv, Licence!SeatsAreCounted
<1> QED
  BY <1>1, <1>2, <1>3 DEF Licence!Inv

LEMMA LicenceStep ==
  ASSUME Licence!Inv, LicenceRows, Licence!Next \/ UNCHANGED slots
  PROVE  Licence!Inv' /\ LicenceRows'
<1> DEFINE Asking == [pc : {"assigns"}, of : Licence!Holders, read : Licence!Pool]
           NotAhead(r) == r.pc = "assigns" => r.read.used < r.read.total
<1>1. /\ v1 \in Licence!Pool /\ v2 \in [Licence!Holders -> Nat] /\ v3 \subseteq Assets
      /\ v4 \in [Threads -> {Licence!Idle} \union Asking] /\ v5 \in BOOLEAN /\ v6 \in BOOLEAN
      /\ \A t \in Threads : NotAhead(v4[t])
  BY DEF Licence!Inv, Licence!TypeOK
<1>2. Licence!Idle.pc = "idle" /\ \A a \in Licence!Holders : v2[a] \in Nat /\ 0 <= v2[a] /\ v2[a] <= v2[a]
  BY <1>1 DEF Licence!Idle
<1>3. v1.used \in 0..MaxSeats /\ v1.total \in 0..MaxSeats /\ MaxSeats \in Nat /\ v1.live \in BOOLEAN
  BY <1>1, PoolAssumption DEF Licence!Pool
<1>4. ASSUME NEW t \in Threads, NEW a \in Licence!Holders, Licence!Ask(t, a) PROVE Licence!Inv' /\ LicenceRows'
  <2> DEFINE r == [pc |-> "assigns", of |-> a, read |-> v1]
  <2>1. r \in Asking /\ NotAhead(r)
    BY <1>1, <1>4 DEF Licence!Ask, Licence!Free
  <2>2. v4' = [v4 EXCEPT ![t] = r] /\ UNCHANGED <<v1, v2, v3, v5, v6>>
    BY <1>4 DEF Licence!Ask
  <2> HIDE DEF r, NotAhead
  <2>3. v4' \in [Threads -> {Licence!Idle} \union Asking] /\ \A u \in Threads : NotAhead(v4'[u])
    BY <1>1, <2>1, <2>2
  <2> USE DEF NotAhead
  <2> QED
    BY <1>1, <1>2, <2>2, <2>3, LicenceEdited
<1>5. ASSUME NEW t \in Threads, Licence!Assign(t) PROVE Licence!Inv' /\ LicenceRows'
  <2>1. v4[t] \in Asking /\ v4[t].read.used < v4[t].read.total
    BY <1>1, <1>2, <1>5 DEF Licence!Assign
  <2>2. v4' = [v4 EXCEPT ![t] = Licence!Idle] /\ UNCHANGED <<v3, v5>>
    BY <1>5 DEF Licence!Assign
  <2>3. v4' \in [Threads -> {Licence!Idle} \union Asking] /\ \A u \in Threads : NotAhead(v4'[u])
    BY <1>1, <1>2, <2>2
  <2>4. CASE UNCHANGED <<v1, v2, v6>>
    BY <1>1, <1>2, <2>2, <2>3, <2>4, LicenceEdited
  <2>5. CASE /\ v1' = [v1 EXCEPT !.used = v4[t].read.used + 1]
             /\ v2' = [v2 EXCEPT ![v4[t].of] = @ + 1]
             /\ v6' = (v6 \/ v1 # v4[t].read)
    <3> DEFINE read == v4[t].read
    <3>1. read \in Licence!Pool /\ v4[t].of \in Licence!Holders
      BY <2>1
    <3>2. read.used \in 0..MaxSeats /\ read.total \in 0..MaxSeats /\ read.used + 1 <= read.total
      BY <1>3, <2>1, <3>1 DEF Licence!Pool
    <3>3. read.used + 1 \in 0..MaxSeats
      BY <1>3, <3>2
    <3>4. v1' \in Licence!Pool /\ v1'.used = read.used + 1 /\ v1'.total = v1.total
      BY <1>1, <2>5, <3>3 DEF Licence!Pool
    <3>5. v2' \in [Licence!Holders -> Nat] /\ v6' \in BOOLEAN
      BY <1>1, <2>5, <3>1
    <3>6. LicenceRows' /\ Licence!Seats \in Nat /\ Licence!Seats' = Licence!Seats + 1
      BY <1>1, <2>5, <3>1, LicenceAssigned
    <3>7. Licence!TypeOK'
      BY <1>1, <2>2, <2>3, <3>4, <3>5 DEF Licence!TypeOK
    <3>8. Licence!SeatsAreCounted'
      <4> SUFFICES ASSUME ~v5, ~v6' PROVE Licence!Seats' <= v1'.used /\ v1'.used <= v1'.total
        BY <2>2 DEF Licence!SeatsAreCounted
      <4>1. ~v6 /\ v1 = read
        BY <2>5
      <4>2. Licence!Seats <= v1.used
        BY <4>1 DEF Licence!Inv, Licence!SeatsAreCounted
      <4> QED
        BY <1>3, <3>2, <3>4, <3>6, <4>1, <4>2
    <3> QED
      BY <2>3, <3>6, <3>7, <3>8 DEF Licence!Inv
  <2> QED
    BY <1>5, <2>4, <2>5 DEF Licence!Assign
<1>6. ASSUME Licence!Patch PROVE Licence!Inv' /\ LicenceRows'
  <2>1. /\ \/ \E n \in 1..MaxSeats : v1' = [v1 EXCEPT !.total = n]
           \/ \E n \in 0..MaxSeats : v1' = [v1 EXCEPT !.used = n]
        /\ v5' = (v5 \/ v1'.used # v1.used \/ v1'.total < v1.used) /\ UNCHANGED <<v2, v3, v4, v6>>
    BY <1>6 DEF Licence!Patch
  <2>2. v1' \in Licence!Pool
    BY <1>1, <1>3, <2>1 DEF Licence!Pool
  <2>3. v1'.used \in 0..MaxSeats /\ v1'.total \in 0..MaxSeats
    BY <2>2 DEF Licence!Pool
  <2>4. v5' \in BOOLEAN /\ (v5 => v5') /\ (~v5' => v1'.used = v1.used /\ v1'.total >= v1.used)
    <3>1. v5' \in BOOLEAN /\ (v5 => v5') /\ (~v5' => v1'.used = v1.used /\ ~(v1'.total < v1.used))
      BY <1>1, <2>1, Zenon
    <3>2. ~(v1'.total < v1.used) => v1'.total >= v1.used
      BY <1>3, <2>3
    <3> QED
      BY <3>1, <3>2
  <2> QED
    BY <1>1, <1>2, <2>1, <2>2, <2>4, LicenceEdited
<1>7. ASSUME Licence!DeletePool PROVE Licence!Inv' /\ LicenceRows'
  <2>1. v1' = [v1 EXCEPT !.live = FALSE] /\ v2' = [a \in Licence!Holders |-> 0] /\ UNCHANGED <<v3, v4, v5, v6>>
    BY <1>7 DEF Licence!DeletePool
  <2>2. v1' \in Licence!Pool /\ v1'.used = v1.used /\ v1'.total = v1.total
    BY <1>1, <2>1 DEF Licence!Pool
  <2> QED
    BY <1>1, <1>2, <2>1, <2>2, LicenceEdited
<1>8. ASSUME NEW a \in Assets, Licence!DeleteAsset(a) PROVE Licence!Inv' /\ LicenceRows'
  <2>1. v2' = [v2 EXCEPT ![a] = 0] /\ v3' = v3 \ {a} /\ UNCHANGED <<v1, v4, v5, v6>>
    BY <1>8 DEF Licence!DeleteAsset
  <2>2. v2' \in [Licence!Holders -> Nat] /\ \A b \in Licence!Holders : v2'[b] <= v2[b]
    BY <1>1, <1>2, <2>1
  <2> QED
    BY <1>1, <1>2, <2>1, <2>2, LicenceEdited
<1>9. CASE UNCHANGED slots
  BY <1>1, <1>2, <1>9, LicenceEdited DEF slots
<1>10. \A a \in v3 \union {NoAsset} : a \in Licence!Holders
  BY <1>1 DEF Licence!Holders
<1> QED
  BY <1>4, <1>5, <1>6, <1>7, <1>8, <1>9, <1>10 DEF Licence!Next

\* However seats are assigned, released with their assets and bought (assign_license, delete_asset,
\* update_license): every seat in use is counted and no more are used than there are, unless an operator
\* set the counter or a total below it, or requests for a seat overlapped, for any assets and pool.
THEOREM SeatsAreCountedCorrect == OfficeSpec => []SeatsAreCounted
<1> DEFINE I == focus = "licences" => Licence!Inv /\ LicenceRows
<1>1. OfficeInit => I
  <2> SUFFICES ASSUME Licence!Init PROVE Licence!Inv /\ LicenceRows
    BY DEF OfficeInit
  <2>1. /\ v1 \in [live : {TRUE}, total : 1..MaxSeats, used : {0}] /\ v2 = [a \in Licence!Holders |-> 0]
        /\ v3 = Assets /\ v4 = [t \in Threads |-> Licence!Idle] /\ v5 = FALSE /\ v6 = FALSE
    BY DEF Licence!Init
  <2>2. Licence!Assignments = {}
    BY <2>1 DEF Licence!Assignments
  <2>3. LicenceRows /\ Licence!Seats = 0
    <3>1. IsFiniteSet(Licence!Assignments) /\ Cardinality(Licence!Assignments) = 0
      BY <2>2, FS_EmptySet
    <3>2. Licence!Seats = Cardinality(Licence!Assignments)
      BY DEF Licence!Seats, Licence!Cardinality, Cardinality
    <3> QED
      BY <3>1, <3>2 DEF LicenceRows
  <2>4. v1.used = 0 /\ v1.total \in 1..MaxSeats /\ v1 \in Licence!Pool
    <3>1. v1.used = 0 /\ v1.total \in 1..MaxSeats
      BY <2>1
    <3>2. TRUE \in BOOLEAN /\ 0 \in 0..MaxSeats /\ \A n \in 1..MaxSeats : n \in 0..MaxSeats
      BY PoolAssumption
    <3>3. v1 \in Licence!Pool
      BY <2>1, <3>2, Zenon DEF Licence!Pool
    <3> QED
      BY <3>1, <3>3
  <2>5. Licence!TypeOK
    BY <2>1, <2>4 DEF Licence!TypeOK
  <2>6. Licence!SeatsAreCounted
    BY <2>3, <2>4, PoolAssumption DEF Licence!SeatsAreCounted
  <2> QED
    BY <2>1, <2>3, <2>5, <2>6 DEF Licence!Inv, Licence!Idle
<1>2. I /\ [OfficeNext]_OfficeVars => I'
  BY Focused, LicenceStep
<1>3. I => SeatsAreCounted
  BY DEF SeatsAreCounted, Licence!Inv
<1> QED
  BY <1>1, <1>2, <1>3, PTL DEF OfficeSpec
=============================================================================
