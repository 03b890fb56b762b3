----------------------- MODULE CredentialCustodyProofs -----------------------
(***************************************************************************)
(* Proofs about CredentialCustody, for any number of connections, tokens,  *)
(* concurrent sweeps and restarts: a token whose renewal was refused is    *)
(* never again in a usable record.                                         *)
(***************************************************************************)
EXTENDS CredentialCustody, TLAPS, FiniteSetTheorems

Kinds == {"none", "pending", "renewed", "refused"}
Pairs(n) == [conn : Conns, token : 1..n]

\* What a sweep may look like once n tokens are issued.
SweepFits(e, n) ==
  /\ e.todo \subseteq Pairs(n)
  /\ e.answer \in Kinds
  /\ e.answer = "none" <=> e = Idle
  /\ e.answer # "none" => e.call \in Pairs(n)
  /\ IF e.answer = "renewed" THEN e.gift \in 1..n ELSE e.gift = 0

SweepType == [todo : SUBSET [conn : Conns, token : Nat],
              call : [conn : Nat, token : Nat], answer : Kinds, gift : Nat]

CustodyTypes ==
  /\ issued \in Nat /\ issued <= MaxTokens
  /\ record \in [Conns -> {NoFile} \cup
                          [token : 1..issued, status : {"ok", "needs-operator"}]]
  /\ grant \in [Conns -> 0..issued]
  /\ life \in [Tokens -> {"fresh", "due", "expired"}]
  /\ refused \subseteq 1..issued
  /\ sweep \in [Sweeps -> SweepType]
  /\ \A s \in Sweeps : SweepFits(sweep[s], issued)

\* The token of a sweep's list, call or answer is of the connection it stands beside.
OwnedBy(owner, e) ==
  /\ \A r \in e.todo : owner[r.token] = r.conn
  /\ e.answer # "none" => owner[e.call.token] = e.call.conn
  /\ e.answer = "renewed" => owner[e.gift] = e.call.conn

\* The hub gave every token to one connection, and no file or sweep has it for another.
Owned ==
  \E owner \in [1..issued -> Conns] :
    /\ \A c \in Conns : record[c].token # 0 => owner[record[c].token] = c
    /\ \A s \in Sweeps : OwnedBy(owner, sweep[s])

\* A token that an answer is bringing is known to nobody else yet.
Unseen(t) ==
  /\ t \notin refused
  /\ \A c \in Conns : record[c].token # t
  /\ \A s \in Sweeps : sweep[s].call.token # t /\ \A r \in sweep[s].todo : r.token # t

GiftsAreNew ==
  \A s \in Sweeps : sweep[s].answer = "renewed" =>
    /\ Unseen(sweep[s].gift)
    /\ \A z \in Sweeps \ {s} : sweep[z].gift # sweep[s].gift

CustodyInv == CustodyTypes /\ Owned /\ GiftsAreNew /\ RefusedRests

-----------------------------------------------------------------------------
(* What the operators return.                                              *)

\* A nonempty set of naturals has a least member.
LEMMA LeastOf ==
  ASSUME NEW S, S \subseteq Nat, S # {}
  PROVE  \E m \in S : \A n \in S : m <= n
<1> DEFINE R == StrictSubsetOrdering(Nat)
           T == {1..n : n \in S}
<1>1. IsWellFoundedOn(R, FiniteSubsetsOf(Nat))
  BY FS_StrictSubsetOrderingWellFounded
<1>2. T \subseteq FiniteSubsetsOf(Nat) /\ T # {}
  <2>1. \A n \in S : IsFiniteSet(1..n)
    BY FS_Interval
  <2>2. \A n \in S : 1..n \in FiniteSubsetsOf(Nat)
    BY <2>1 DEF FiniteSubsetsOf
  <2> QED BY <2>2
<1> HIDE DEF R, T
<1>3. PICK I \in T : \A J \in T : ~ (<<J, I>> \in R)
  BY <1>1, <1>2, WFMin
<1>4. PICK m \in S : I = 1..m
  BY <1>3 DEF T
<1>5. ASSUME NEW n \in S PROVE ~ (n < m)
  <2> SUFFICES ASSUME n < m PROVE FALSE
    OBVIOUS
  <2>1. 1..n \in T /\ 1..n \subseteq 1..m /\ m \in 1..m /\ m \notin 1..n
    BY DEF T
  <2>2. <<1..n, I>> \in R
    BY <2>1, <1>4 DEF R, StrictSubsetOrdering
  <2> QED BY <2>1, <2>2, <1>3
<1> QED BY <1>5

\* A sweep goes on with a part of its list, or is over.
LEMMA ContinueFits ==
  ASSUME NEW n \in Nat, NEW todo, todo \subseteq Pairs(n)
  PROVE  LET e == Continue(todo) IN
         /\ SweepFits(e, n) /\ e \in SweepType
         /\ e.todo \subseteq todo /\ e.gift = 0 /\ e.answer \in {"none", "pending"}
         /\ e.answer = "none" \/ e.call \in todo
<1> DEFINE due == {r \in todo : life[r.token] # "fresh"}
<1>1. Continue(todo) = First(due, todo)
  BY DEF Continue
<1> HIDE DEF due
<1>2. due \subseteq todo
  BY DEF due
<1>3. \A p \in Pairs(n) : p \in [conn : Nat, token : Nat] /\ p.conn \in Nat
  BY DEF Conns, Pairs
<1>4. CASE due = {}
  BY <1>1, <1>4 DEF First, Idle, SweepFits, SweepType, Kinds
<1>5. CASE due # {}
  <2> DEFINE r == CHOOSE q \in due : \A o \in due : q.conn <= o.conn
  <2>1. r \in due
    <3>1. {q.conn : q \in due} \subseteq Nat /\ {q.conn : q \in due} # {}
      BY <1>2, <1>3, <1>5
    <3>2. \E m \in {q.conn : q \in due} : \A k \in {q.conn : q \in due} : m <= k
      BY <3>1, LeastOf
    <3>3. \E q \in due : \A o \in due : q.conn <= o.conn
      BY <3>2
    <3> QED BY <3>3
  <2>2. First(due, todo) = [todo |-> {q \in todo : q.conn > r.conn}, call |-> r,
                            answer |-> "pending", gift |-> 0]
    BY <1>5 DEF First
  <2> HIDE DEF r
  <2>3. r \in todo /\ r \in Pairs(n)
    BY <2>1, <1>2
  <2>5. r \in [conn : Nat, token : Nat]
    BY <2>3, <1>3 DEF Pairs
  <2>4. {q \in todo : q.conn > r.conn} \in SUBSET [conn : Conns, token : Nat]
    BY DEF Pairs
  <2> QED BY <1>1, <2>2, <2>3, <2>4, <2>5 DEF SweepFits, SweepType, Kinds, Idle
<1> QED BY <1>4, <1>5

\* What is not recorded of an answer stays as it was.
LEMMA AnswerFits ==
  ASSUME CustodyTypes, NEW s \in Sweeps, NEW kind \in Kinds, NEW t \in Nat, Answers(s, kind, t)
  PROVE  /\ sweep' \in [Sweeps -> SweepType]
         /\ \A z \in Sweeps \ {s} : sweep'[z] = sweep[z]
         /\ sweep'[s].todo = sweep[s].todo /\ sweep'[s].call = sweep[s].call
         /\ sweep'[s].answer = kind /\ sweep'[s].gift = t
BY DEF CustodyTypes, Answers, SweepType

LEMMA ResumeFits ==
  ASSUME CustodyTypes, NEW s \in Sweeps, Resume(s)
  PROVE  /\ sweep' \in [Sweeps -> SweepType]
         /\ \A z \in Sweeps \ {s} : sweep'[z] = sweep[z]
         /\ SweepFits(sweep'[s], issued)
         /\ sweep'[s].todo \subseteq sweep[s].todo
         /\ sweep'[s].gift = 0 /\ sweep'[s].answer \in {"none", "pending"}
         /\ sweep'[s].answer = "none" \/ sweep'[s].call \in sweep[s].todo
<1>1. sweep[s].todo \subseteq Pairs(issued) /\ issued \in Nat
  BY DEF CustodyTypes, SweepFits
<1>2. sweep' = [sweep EXCEPT ![s] = Continue(sweep[s].todo)]
  BY DEF Resume
<1> DEFINE e == Continue(sweep[s].todo)
<1>3. /\ SweepFits(e, issued) /\ e \in SweepType
      /\ e.todo \subseteq sweep[s].todo /\ e.gift = 0 /\ e.answer \in {"none", "pending"}
      /\ e.answer = "none" \/ e.call \in sweep[s].todo
  BY <1>1, ContinueFits
<1> HIDE DEF e
<1>4. sweep'[s] = e /\ sweep' \in [Sweeps -> SweepType]
      /\ \A z \in Sweeps \ {s} : sweep'[z] = sweep[z]
  BY <1>2, <1>3 DEF CustodyTypes, e
<1> QED BY <1>3, <1>4

\* A sweep starts with the usable records.
LEMMA StartFits ==
  ASSUME CustodyTypes, NEW s \in Sweeps, StartSweep(s)
  PROVE  /\ sweep' \in [Sweeps -> SweepType]
         /\ \A z \in Sweeps \ {s} : sweep'[z] = sweep[z]
         /\ SweepFits(sweep'[s], issued)
         /\ sweep'[s].todo \subseteq Listed
         /\ sweep'[s].gift = 0 /\ sweep'[s].answer \in {"none", "pending"}
         /\ sweep'[s].answer = "none" \/ sweep'[s].call \in Listed
<1>1. Listed \subseteq Pairs(issued) /\ issued \in Nat
  BY DEF CustodyTypes, Listed, Pairs, NoFile
<1> DEFINE e == Continue(Listed)
<1>2. /\ SweepFits(e, issued) /\ e \in SweepType
      /\ e.todo \subseteq Listed /\ e.gift = 0 /\ e.answer \in {"none", "pending"}
      /\ e.answer = "none" \/ e.call \in Listed
  BY <1>1, ContinueFits
<1>3. sweep' = [sweep EXCEPT ![s] = e]
  BY DEF StartSweep
<1> HIDE DEF e
<1>4. sweep'[s] = e /\ sweep' \in [Sweeps -> SweepType]
      /\ \A z \in Sweeps \ {s} : sweep'[z] = sweep[z]
  BY <1>2, <1>3 DEF CustodyTypes
<1> QED BY <1>2, <1>4

-----------------------------------------------------------------------------
(* The invariant, part by part.                                            *)

LEMMA InitCustody == Init => CustodyInv
<1> SUFFICES ASSUME Init PROVE CustodyInv
  OBVIOUS
<1> USE DEF Init
<1>1. CustodyTypes
  BY CustodyAssumption DEF CustodyTypes, SweepType, SweepFits, Idle, Kinds, NoFile
<1>2. Owned
  <2> DEFINE owner == [t \in 1..issued |-> CHOOSE c \in Conns : TRUE]
  <2>1. owner \in [1..issued -> Conns]
    OBVIOUS
  <2> HIDE DEF owner
  <2>2. \A s \in Sweeps : OwnedBy(owner, sweep[s])
    BY DEF OwnedBy, Idle
  <2>3. \A c \in Conns : record[c].token = 0
    BY DEF NoFile
  <2> QED BY <2>1, <2>2, <2>3 DEF Owned
<1>3. GiftsAreNew /\ RefusedRests
  BY DEF GiftsAreNew, RefusedRests, Idle
<1> QED BY <1>1, <1>2, <1>3 DEF CustodyInv

\* More tokens issued do not spoil what a sweep has.
LEMMA FitsMore ==
  ASSUME NEW n \in Nat, NEW e, SweepFits(e, n)
  PROVE  SweepFits(e, n + 1)
BY DEF SweepFits, Pairs

LEMMA StepTypes == CustodyTypes /\ [Next]_vars => CustodyTypes'
<1> SUFFICES ASSUME CustodyTypes, [Next]_vars PROVE CustodyTypes'
  OBVIOUS
<1> DEFINE Files(n) == {NoFile} \cup [token : 1..n, status : {"ok", "needs-operator"}]
<1>0. issued \in Nat /\ record \in [Conns -> Files(issued)] /\ sweep \in [Sweeps -> SweepType]
      /\ \A s \in Sweeps : SweepFits(sweep[s], issued)
  BY DEF CustodyTypes
<1>1. ASSUME NEW c \in Conns, Provision(c) PROVE CustodyTypes'
  <2>1. issued' = issued + 1 /\ issued' <= MaxTokens /\ UNCHANGED <<life, sweep, refused>>
        /\ grant' = [grant EXCEPT ![c] = issued + 1]
        /\ record' = [record EXCEPT ![c] = Stored(issued + 1)]
    BY <1>1, <1>0, CustodyAssumption DEF Provision, Issue, applyCredentialPayload, CustodyTypes
  <2>2. Stored(issued + 1) \in Files(issued + 1) /\ Files(issued) \subseteq Files(issued + 1)
    BY <1>0 DEF Stored
  <2>3. record' \in [Conns -> Files(issued')]
    BY <2>1, <2>2, <1>0
  <2>4. \A s \in Sweeps : SweepFits(sweep'[s], issued')
    BY <2>1, <1>0, FitsMore
  <2> QED BY <2>1, <2>3, <2>4 DEF CustodyTypes
<1>2. ASSUME NEW c \in Conns, Remove(c) PROVE CustodyTypes'
  <2>1. record' \in [Conns -> Files(issued)]
    BY <1>2, <1>0 DEF Remove, applyCredentialPayload
  <2>2. grant' \in [Conns -> 0..issued]
    BY <1>2, <1>0 DEF Remove, CustodyTypes
  <2>3. UNCHANGED <<life, issued, sweep, refused>>
    BY <1>2 DEF Remove
  <2> QED BY <2>1, <2>2, <2>3 DEF CustodyTypes
<1>3. ASSUME NEW t \in Tokens, Age(t) PROVE CustodyTypes'
  BY <1>3 DEF Age, CustodyTypes
<1>4. ASSUME NEW s \in Sweeps, StartSweep(s) PROVE CustodyTypes'
  <2>1. UNCHANGED <<record, grant, life, issued, refused>>
    BY <1>4 DEF StartSweep
  <2> QED BY <1>4, <2>1, <1>0, StartFits DEF CustodyTypes
<1>5. ASSUME NEW s \in Sweeps, HubRenews(s) PROVE CustodyTypes'
  <2> DEFINE c == sweep[s].call.conn
  <2>1. c \in Conns
    BY <1>5, <1>0 DEF HubRenews, SweepFits, Pairs
  <2>2. issued' = issued + 1 /\ issued' <= MaxTokens /\ UNCHANGED <<life, record, refused>>
        /\ grant' = [grant EXCEPT ![c] = issued + 1] /\ sweep[s].answer = "pending"
        /\ Answers(s, "renewed", issued + 1)
    BY <1>5, <1>0, CustodyAssumption DEF HubRenews, Issue, CustodyTypes
  <2>3. /\ sweep' \in [Sweeps -> SweepType]
        /\ \A z \in Sweeps \ {s} : sweep'[z] = sweep[z]
        /\ sweep'[s].todo = sweep[s].todo /\ sweep'[s].call = sweep[s].call
        /\ sweep'[s].answer = "renewed" /\ sweep'[s].gift = issued + 1
    BY <2>2, <1>0, AnswerFits DEF Kinds
  <2>4. SweepFits(sweep'[s], issued + 1)
    BY <2>2, <2>3, <1>0 DEF SweepFits, Pairs, Kinds, Idle
  <2>5. \A z \in Sweeps : SweepFits(sweep'[z], issued')
    BY <2>2, <2>3, <2>4, <1>0, FitsMore
  <2>6. record' \in [Conns -> Files(issued')]
    BY <2>2, <1>0
  <2> HIDE DEF c
  <2> QED BY <2>1, <2>2, <2>3, <2>5, <2>6 DEF CustodyTypes
<1>7. ASSUME NEW s \in Sweeps, HubRefuses(s) PROVE CustodyTypes'
  <2>0. /\ sweep[s].answer # "none" /\ Answers(s, "refused", 0)
        /\ UNCHANGED <<record, grant, life, issued, refused>>
    BY <1>7 DEF HubRefuses
  <2>1. /\ sweep' \in [Sweeps -> SweepType]
        /\ \A z \in Sweeps \ {s} : sweep'[z] = sweep[z]
        /\ sweep'[s].todo = sweep[s].todo /\ sweep'[s].call = sweep[s].call
        /\ sweep'[s].answer = "refused" /\ sweep'[s].gift = 0
    BY <2>0, AnswerFits DEF Kinds
  <2>2. SweepFits(sweep'[s], issued)
    BY <2>0, <2>1, <1>0 DEF SweepFits, Kinds, Idle
  <2> QED BY <2>0, <2>1, <2>2, <1>0 DEF CustodyTypes
<1>9. ASSUME NEW s \in Sweeps, Resume(s), issued' = issued, grant' = grant, life' = life,
             record' \in [Conns -> Files(issued)], refused' \subseteq 1..issued
      PROVE  CustodyTypes'
  <2>1. sweep' \in [Sweeps -> SweepType] /\ \A z \in Sweeps : SweepFits(sweep'[z], issued)
    BY <1>9, <1>0, ResumeFits
  <2> QED BY <1>9, <2>1 DEF CustodyTypes
<1>10. ASSUME NEW s \in Sweeps, Renewed(s) PROVE CustodyTypes'
  <2>1. sweep[s].gift \in 1..issued
    BY <1>10, <1>0 DEF Renewed, SweepFits
  <2>2. Stored(sweep[s].gift) \in Files(issued)
    BY <2>1 DEF Stored
  <2>3. record' \in [Conns -> Files(issued)]
    BY <1>10, <2>2, <1>0 DEF Renewed, applyCredentialPayload
  <2> QED BY <1>9, <1>10, <2>3 DEF Renewed, CustodyTypes
<1>11. ASSUME NEW s \in Sweeps, Refused(s) PROVE CustodyTypes'
  <2> DEFINE c == sweep[s].call.conn
  <2>1. sweep[s].call \in Pairs(issued)
    BY <1>11, <1>0 DEF Refused, SweepFits
  <2>2. c \in Conns /\ sweep[s].call.token \in 1..issued
    BY <2>1 DEF Pairs
  <2> DEFINE f == IF record[c].token = 0 THEN record[c]
                  ELSE [record[c] EXCEPT !.status = "needs-operator"]
  <2>3. f \in Files(issued)
    BY <2>2, <1>0 DEF NoFile
  <2>4. record' = [record EXCEPT ![c] = f]
    BY <1>11 DEF Refused, markCredentialNeedsOperator
  <2> HIDE DEF f
  <2>5. record' \in [Conns -> Files(issued)]
    BY <2>3, <2>4, <1>0
  <2> QED BY <1>9, <1>11, <2>2, <2>5 DEF Refused, CustodyTypes
<1>12. ASSUME NEW s \in Sweeps, Failed(s) PROVE CustodyTypes'
  BY <1>9, <1>0, <1>12 DEF Failed, CustodyTypes
<1>13. CASE Restart
  <2>1. Idle \in SweepType /\ SweepFits(Idle, issued)
    BY DEF Idle, SweepType, SweepFits, Kinds
  <2> QED BY <1>13, <2>1 DEF Restart, CustodyTypes
<1>14. CASE UNCHANGED vars
  BY <1>14 DEF vars, CustodyTypes
<1> QED BY <1>1, <1>2, <1>3, <1>4, <1>5, <1>7, <1>10, <1>11, <1>12, <1>13, <1>14 DEF Next

\* A sweep that goes on, or one that starts, has nothing of another connection.
LEMMA GoesOnOwned ==
  ASSUME NEW owner, NEW todo, NEW e, \A r \in todo : owner[r.token] = r.conn,
         e.todo \subseteq todo, e.answer \in {"none", "pending"},
         e.answer = "none" \/ e.call \in todo
  PROVE  OwnedBy(owner, e)
BY DEF OwnedBy

\* The owners that are known once connection c got the next token.
Extended(owner, c) == [t \in 1..(issued + 1) |-> IF t \in 1..issued THEN owner[t] ELSE c]

LEMMA ExtendedKeeps ==
  ASSUME CustodyTypes, NEW owner \in [1..issued -> Conns], NEW c \in Conns,
         NEW e, SweepFits(e, issued), OwnedBy(owner, e)
  PROVE  OwnedBy(Extended(owner, c), e)
<1>1. \A t \in 1..issued : Extended(owner, c)[t] = owner[t]
  BY DEF Extended, CustodyTypes
<1>2. \A r \in e.todo : r.token \in 1..issued
  BY DEF SweepFits, Pairs
<1>3. e.answer # "none" => e.call.token \in 1..issued
  BY DEF SweepFits, Pairs
<1>4. e.answer = "renewed" => e.gift \in 1..issued
  BY DEF SweepFits
<1> QED BY <1>1, <1>2, <1>3, <1>4 DEF OwnedBy

LEMMA StepOwned == CustodyTypes /\ Owned /\ [Next]_vars => Owned'
<1> SUFFICES ASSUME CustodyTypes, Owned, [Next]_vars PROVE Owned'
  OBVIOUS
<1>1. PICK owner \in [1..issued -> Conns] :
        /\ \A c \in Conns : record[c].token # 0 => owner[record[c].token] = c
        /\ \A s \in Sweeps : OwnedBy(owner, sweep[s])
  BY DEF Owned
<1>2. /\ issued \in Nat /\ \A s \in Sweeps : SweepFits(sweep[s], issued)
      /\ \A c \in Conns : record[c].token \in 0..issued
  BY DEF CustodyTypes, NoFile
<1>3. ASSUME issued' = issued,
             \A c \in Conns : record'[c].token # 0 => owner[record'[c].token] = c,
             \A s \in Sweeps : OwnedBy(owner, sweep'[s])
      PROVE  Owned'
  BY <1>3 DEF Owned
<1>4. ASSUME NEW c \in Conns, Provision(c) PROVE Owned'
  <2> DEFINE o == Extended(owner, c)
  <2>1. issued' = issued + 1 /\ sweep' = sweep /\ record' = [record EXCEPT ![c] = Stored(issued + 1)]
    BY <1>4 DEF Provision, Issue, applyCredentialPayload
  <2>2. o \in [1..issued' -> Conns] /\ o[issued + 1] = c /\ \A t \in 1..issued : o[t] = owner[t]
    BY <2>1, <1>2 DEF Extended
  <2>3. \A s \in Sweeps : OwnedBy(o, sweep'[s])
    BY <2>1, <1>1, <1>2, ExtendedKeeps
  <2>4. \A d \in Conns : record'[d].token # 0 => o[record'[d].token] = d
    BY <2>1, <2>2, <1>1, <1>2 DEF Stored, CustodyTypes
  <2> HIDE DEF o
  <2> QED BY <2>2, <2>3, <2>4 DEF Owned
<1>5. ASSUME NEW s \in Sweeps, HubRenews(s) PROVE Owned'
  <2> DEFINE c == sweep[s].call.conn
             o == Extended(owner, c)
  <2>1. c \in Conns /\ sweep[s].answer = "pending" /\ sweep[s].call.token \in 1..issued
    BY <1>5, <1>2 DEF HubRenews, SweepFits, Pairs
  <2>2. issued' = issued + 1 /\ record' = record /\ Answers(s, "renewed", issued + 1)
    BY <1>5 DEF HubRenews, Issue
  <2>3. o \in [1..issued' -> Conns] /\ o[issued + 1] = c /\ \A t \in 1..issued : o[t] = owner[t]
    BY <2>1, <2>2, <1>2 DEF Extended
  <2>4. /\ \A z \in Sweeps \ {s} : sweep'[z] = sweep[z]
        /\ sweep'[s].todo = sweep[s].todo /\ sweep'[s].call = sweep[s].call
        /\ sweep'[s].answer = "renewed" /\ sweep'[s].gift = issued + 1
    BY <2>2, <1>2, AnswerFits DEF Kinds
  <2>5. \A z \in Sweeps : OwnedBy(o, sweep[z])
    BY <2>1, <1>1, <1>2, ExtendedKeeps
  <2>6. OwnedBy(o, sweep'[s])
    BY <2>1, <2>3, <2>4, <2>5 DEF OwnedBy
  <2>7. \A z \in Sweeps : OwnedBy(o, sweep'[z])
    BY <2>4, <2>5, <2>6
  <2>8. \A d \in Conns : record'[d].token # 0 => o[record'[d].token] = d
    BY <2>2, <2>3, <1>1, <1>2
  <2> HIDE DEF c, o
  <2> QED BY <2>3, <2>7, <2>8 DEF Owned
<1>6. ASSUME NEW c \in Conns, Remove(c) PROVE Owned'
  <2>1. record' = record \/ record' = [record EXCEPT ![c] = NoFile]
    BY <1>6 DEF Remove, applyCredentialPayload
  <2>2. NoFile.token = 0
    BY DEF NoFile
  <2>3. \A d \in Conns : record'[d].token = 0 \/ record'[d].token = record[d].token
    BY <2>1, <2>2 DEF CustodyTypes
  <2>4. issued' = issued /\ sweep' = sweep
    BY <1>6 DEF Remove
  <2> QED BY <1>3, <2>3, <2>4, <1>1
<1>7. ASSUME NEW t \in Tokens, Age(t) PROVE Owned'
  BY <1>3, <1>7, <1>1 DEF Age
<1>8. ASSUME NEW s \in Sweeps, StartSweep(s) PROVE Owned'
  <2>1. \A r \in Listed : owner[r.token] = r.conn
    BY <1>1 DEF Listed
  <2>2. OwnedBy(owner, sweep'[s]) /\ \A z \in Sweeps \ {s} : sweep'[z] = sweep[z]
    BY <1>8, <2>1, StartFits, GoesOnOwned
  <2> QED BY <1>3, <1>8, <2>2, <1>1 DEF StartSweep
<1>10. ASSUME NEW s \in Sweeps, HubRefuses(s) PROVE Owned'
  <2>0. sweep[s].answer # "none" /\ Answers(s, "refused", 0) /\ UNCHANGED <<record, issued>>
    BY <1>10 DEF HubRefuses
  <2>1. /\ \A z \in Sweeps \ {s} : sweep'[z] = sweep[z]
        /\ sweep'[s].todo = sweep[s].todo /\ sweep'[s].call = sweep[s].call
        /\ sweep'[s].answer = "refused"
    BY <2>0, AnswerFits DEF Kinds
  <2>2. OwnedBy(owner, sweep'[s])
    BY <2>0, <2>1, <1>1 DEF OwnedBy
  <2> QED BY <1>3, <2>0, <2>1, <2>2, <1>1
<1>12. ASSUME NEW s \in Sweeps, Resume(s), issued' = issued,
              \A c \in Conns : record'[c].token # 0 => owner[record'[c].token] = c
       PROVE  Owned'
  <2>1. \A r \in sweep[s].todo : owner[r.token] = r.conn
    BY <1>1 DEF OwnedBy
  <2>2. OwnedBy(owner, sweep'[s]) /\ \A z \in Sweeps \ {s} : sweep'[z] = sweep[z]
    BY <1>12, <2>1, ResumeFits, GoesOnOwned
  <2> QED BY <1>3, <1>12, <2>2, <1>1
<1>13. ASSUME NEW s \in Sweeps, Renewed(s) PROVE Owned'
  <2>1. owner[sweep[s].gift] = sweep[s].call.conn
    BY <1>13, <1>1 DEF Renewed, OwnedBy
  <2>2. \A c \in Conns : record'[c].token # 0 => owner[record'[c].token] = c
    BY <1>13, <2>1, <1>1 DEF Renewed, applyCredentialPayload, Stored, CustodyTypes
  <2> QED BY <1>12, <1>13, <2>2 DEF Renewed
<1>14. ASSUME NEW s \in Sweeps, Refused(s) PROVE Owned'
  <2>1. \A c \in Conns : record'[c].token = record[c].token
    BY <1>14 DEF Refused, markCredentialNeedsOperator, CustodyTypes, NoFile
  <2> QED BY <1>12, <1>14, <2>1, <1>1 DEF Refused
<1>15. ASSUME NEW s \in Sweeps, Failed(s) PROVE Owned'
  BY <1>12, <1>15, <1>1 DEF Failed
<1>16. CASE Restart
  <2>1. \A s \in Sweeps : OwnedBy(owner, sweep'[s])
    BY <1>16 DEF Restart, OwnedBy, Idle
  <2> QED BY <1>3, <1>16, <2>1, <1>1 DEF Restart
<1>17. CASE UNCHANGED vars
  BY <1>3, <1>17, <1>1 DEF vars
<1> QED BY <1>4, <1>5, <1>6, <1>7, <1>8, <1>10, <1>13, <1>14, <1>15, <1>16, <1>17 DEF Next

\* Nobody learns of a token by going on with a list.
LEMMA StepGifts == CustodyTypes /\ GiftsAreNew /\ [Next]_vars => GiftsAreNew'
<1> SUFFICES ASSUME CustodyTypes, GiftsAreNew, [Next]_vars PROVE GiftsAreNew'
  OBVIOUS
<1>1. /\ issued \in Nat /\ \A s \in Sweeps : SweepFits(sweep[s], issued)
      /\ \A c \in Conns : record[c].token \in 0..issued
      /\ refused \subseteq 1..issued
  BY DEF CustodyTypes, NoFile
<1>2. \A s \in Sweeps : /\ \A r \in sweep[s].todo : r.token \in 1..issued
                        /\ sweep[s].call.token \in 0..issued
                        /\ sweep[s].gift \in 0..issued
                        /\ sweep[s].answer = "renewed" <=> sweep[s].gift # 0
  BY <1>1 DEF SweepFits, Pairs, Idle
<1>3. \A s \in Sweeps : sweep[s].gift # 0 =>
        Unseen(sweep[s].gift) /\ \A z \in Sweeps \ {s} : sweep[z].gift # sweep[s].gift
  BY <1>2 DEF GiftsAreNew
\* What a step does to who knows a pending gift.
<1>4. ASSUME CustodyTypes',
             \A c \in Conns : \/ record'[c].token \in {0, record[c].token, issued + 1}
                              \/ \E z \in Sweeps : /\ record'[c].token = sweep[z].gift
                                                   /\ sweep'[z].gift = 0,
             \A s \in Sweeps : \/ sweep'[s].gift \in {0, sweep[s].gift}
                               \/ /\ sweep'[s].gift = issued + 1
                                  /\ UNCHANGED <<record, refused>>
                                  /\ \A z \in Sweeps \ {s} : sweep'[z] = sweep[z],
             \A s \in Sweeps : \A r \in sweep'[s].todo \cup {sweep'[s].call} :
               \/ r.token = 0
               \/ \E c \in Conns : r.token = record[c].token
               \/ \E q \in sweep[s].todo \cup {sweep[s].call} : r.token = q.token,
             \A t \in refused' \ refused : \E s \in Sweeps : t = sweep[s].call.token
      PROVE  GiftsAreNew'
  <2> SUFFICES ASSUME NEW s \in Sweeps, sweep'[s].answer = "renewed"
               PROVE  /\ Unseen(sweep[s].gift)'
                      /\ \A z \in Sweeps \ {s} : sweep'[z].gift # sweep'[s].gift
    BY DEF GiftsAreNew
  <2>1. sweep'[s].gift # 0
    BY <1>4 DEF CustodyTypes, SweepFits
  <2>2. CASE sweep'[s].gift = issued + 1
    <3>0. \A z \in Sweeps : sweep[z].gift # issued + 1
      BY <1>1, <1>2
    <3>1. UNCHANGED <<record, refused>> /\ \A z \in Sweeps \ {s} : sweep'[z] = sweep[z]
      BY <1>1, <1>2, <1>4, <2>1, <2>2, <3>0
    <3>2. \A z \in Sweeps \ {s} : sweep'[z].gift # sweep'[s].gift
      BY <3>0, <3>1, <2>2
    <3>3. \A z \in Sweeps : \A r \in sweep'[z].todo \cup {sweep'[z].call} : r.token \in 0..issued
      BY <1>1, <1>2, <1>4
    <3>4. /\ \A c \in Conns : record'[c].token \in 0..issued
          /\ refused' \subseteq 1..issued
      BY <1>1, <3>1
    <3> QED BY <1>1, <2>2, <3>2, <3>3, <3>4 DEF Unseen
  <2>3. CASE sweep'[s].gift = sweep[s].gift /\ sweep'[s].gift # issued + 1
    <3> DEFINE g == sweep[s].gift
    <3>1. g # 0 /\ Unseen(g) /\ \A z \in Sweeps \ {s} : sweep[z].gift # g
      BY <1>3, <2>1, <2>3
    <3>2. \A z \in Sweeps \ {s} : sweep'[z].gift # g
      BY <1>1, <1>2, <1>4, <2>3, <3>1
    <3>3. \A c \in Conns : record'[c].token # g
      BY <1>4, <2>1, <2>3, <3>1 DEF Unseen
    <3>4. \A z \in Sweeps : \A r \in sweep'[z].todo \cup {sweep'[z].call} : r.token # g
      BY <1>4, <3>1 DEF Unseen
    <3>5. g \notin refused'
      BY <1>4, <3>1 DEF Unseen
    <3> QED BY <2>3, <3>2, <3>3, <3>4, <3>5 DEF Unseen
  <2> QED BY <1>4, <2>1, <2>2, <2>3
<1>5. CustodyTypes'
  BY StepTypes
<1>6. ASSUME NEW c \in Conns, Provision(c) PROVE GiftsAreNew'
  <2>1. record' = [record EXCEPT ![c] = Stored(issued + 1)] /\ UNCHANGED <<sweep, refused>>
    BY <1>6 DEF Provision, applyCredentialPayload
  <2>2. \A d \in Conns : record'[d].token \in {record[d].token, issued + 1}
    BY <2>1 DEF Stored, CustodyTypes
  <2> QED BY <1>4, <1>5, <2>1, <2>2
<1>7. ASSUME NEW c \in Conns, Remove(c) PROVE GiftsAreNew'
  <2>1. record' = record \/ record' = [record EXCEPT ![c] = NoFile]
    BY <1>7 DEF Remove, applyCredentialPayload
  <2>2. NoFile.token = 0
    BY DEF NoFile
  <2>3. \A d \in Conns : record'[d].token = 0 \/ record'[d].token = record[d].token
    BY <2>1, <2>2 DEF CustodyTypes
  <2>4. UNCHANGED <<sweep, refused>>
    BY <1>7 DEF Remove
  <2> QED BY <1>4, <1>5, <2>3, <2>4
<1>8. ASSUME NEW t \in Tokens, Age(t) PROVE GiftsAreNew'
  BY <1>4, <1>5, <1>8 DEF Age
<1>9. ASSUME NEW s \in Sweeps, StartSweep(s) PROVE GiftsAreNew'
  <2>1. /\ \A z \in Sweeps \ {s} : sweep'[z] = sweep[z]
        /\ sweep'[s].todo \subseteq Listed /\ sweep'[s].gift = 0
        /\ sweep'[s] = Idle \/ sweep'[s].call \in Listed
    BY <1>9, StartFits DEF SweepFits
  <2>2. \A r \in Listed : \E c \in Conns : r.token = record[c].token
    BY DEF Listed
  <2>3. Idle.call.token = 0 /\ UNCHANGED <<record, refused>>
    BY <1>9 DEF Idle, StartSweep
  <2> QED BY <1>4, <1>5, <2>1, <2>2, <2>3
<1>10. ASSUME NEW s \in Sweeps, NEW kind \in Kinds, NEW t \in {0, issued + 1},
              Answers(s, kind, t), UNCHANGED <<record, refused>>
       PROVE  GiftsAreNew'
  <2>1. /\ \A z \in Sweeps \ {s} : sweep'[z] = sweep[z]
        /\ sweep'[s].todo = sweep[s].todo /\ sweep'[s].call = sweep[s].call
        /\ sweep'[s].gift = t
    BY <1>1, <1>10, AnswerFits
  <2> QED BY <1>4, <1>5, <1>10, <2>1
<1>11. ASSUME NEW s \in Sweeps, HubRenews(s) PROVE GiftsAreNew'
  BY <1>10, <1>11 DEF HubRenews, Kinds
<1>12. ASSUME NEW s \in Sweeps, HubRefuses(s) PROVE GiftsAreNew'
  BY <1>10, <1>12 DEF HubRefuses, Kinds
<1>14. ASSUME NEW s \in Sweeps, Resume(s),
              \A c \in Conns : record'[c].token \in {record[c].token, sweep[s].gift},
              refused' \subseteq refused \cup {sweep[s].call.token}
       PROVE  GiftsAreNew'
  <2>1. /\ \A z \in Sweeps \ {s} : sweep'[z] = sweep[z]
        /\ sweep'[s].todo \subseteq sweep[s].todo /\ sweep'[s].gift = 0
        /\ sweep'[s] = Idle \/ sweep'[s].call \in sweep[s].todo
    BY <1>14, ResumeFits DEF SweepFits
  <2>2. Idle.call.token = 0
    BY DEF Idle
  <2> QED BY <1>4, <1>5, <1>14, <2>1, <2>2
<1>15. ASSUME NEW s \in Sweeps, Renewed(s) PROVE GiftsAreNew'
  <2>1. \A c \in Conns : record'[c].token \in {record[c].token, sweep[s].gift}
    BY <1>15 DEF Renewed, applyCredentialPayload, Stored, CustodyTypes
  <2> QED BY <1>14, <1>15, <2>1 DEF Renewed
<1>16. ASSUME NEW s \in Sweeps, Refused(s) PROVE GiftsAreNew'
  <2>1. \A c \in Conns : record'[c].token = record[c].token
    BY <1>16 DEF Refused, markCredentialNeedsOperator, CustodyTypes, NoFile
  <2> QED BY <1>14, <1>16, <2>1 DEF Refused
<1>17. ASSUME NEW s \in Sweeps, Failed(s) PROVE GiftsAreNew'
  BY <1>14, <1>17 DEF Failed
<1>18. CASE Restart
  <2>1. \A s \in Sweeps : sweep'[s] = Idle
    BY <1>18 DEF Restart
  <2> QED BY <2>1 DEF GiftsAreNew, Idle
<1>19. CASE UNCHANGED vars
  BY <1>4, <1>5, <1>19 DEF vars
<1> QED BY <1>6, <1>7, <1>8, <1>9, <1>11, <1>12, <1>15, <1>16, <1>17, <1>18, <1>19 DEF Next

LEMMA StepRests ==
  CustodyTypes /\ Owned /\ GiftsAreNew /\ RefusedRests /\ [Next]_vars => RefusedRests'
<1> SUFFICES ASSUME CustodyTypes, Owned, GiftsAreNew, RefusedRests, [Next]_vars
             PROVE  RefusedRests'
  OBVIOUS
<1>1. issued \in Nat /\ refused \subseteq 1..issued
  BY DEF CustodyTypes
<1>2. ASSUME refused' = refused,
             NEW t, t \notin refused,
             \A c \in Conns : record'[c] = record[c] \/ record'[c].token = t
      PROVE  RefusedRests'
  BY <1>2 DEF RefusedRests
<1>3. ASSUME NEW c \in Conns, Provision(c) PROVE RefusedRests'
  <2>1. refused' = refused /\ record' = [record EXCEPT ![c] = Stored(issued + 1)]
    BY <1>3 DEF Provision, applyCredentialPayload
  <2>2. \A d \in Conns : record'[d] = record[d] \/ record'[d].token = issued + 1
    BY <2>1 DEF Stored, CustodyTypes
  <2>3. issued + 1 \notin refused
    BY <1>1
  <2> QED BY <1>2, <2>1, <2>2, <2>3
<1>4. ASSUME NEW c \in Conns, Remove(c) PROVE RefusedRests'
  <2>1. refused' = refused /\ (record' = record \/ record' = [record EXCEPT ![c] = NoFile])
    BY <1>4 DEF Remove, applyCredentialPayload
  <2>2. \A d \in Conns : record'[d] = record[d] \/ record'[d].token = 0
    BY <2>1 DEF NoFile, CustodyTypes
  <2>3. 0 \notin refused
    BY <1>1
  <2> QED BY <1>2, <2>1, <2>2, <2>3
<1>5. ASSUME NEW s \in Sweeps, Renewed(s) PROVE RefusedRests'
  <2>1. sweep[s].gift \notin refused
    BY <1>5 DEF Renewed, GiftsAreNew, Unseen
  <2>2. refused' = refused
        /\ record' = [record EXCEPT ![sweep[s].call.conn] = Stored(sweep[s].gift)]
    BY <1>5 DEF Renewed, applyCredentialPayload
  <2>3. \A d \in Conns : record'[d] = record[d] \/ record'[d].token = sweep[s].gift
    BY <2>2 DEF Stored, CustodyTypes
  <2> QED BY <1>2, <2>1, <2>2, <2>3
\* The refused token is of the connection that is marked, so no other record has it.
<1>6. ASSUME NEW s \in Sweeps, Refused(s) PROVE RefusedRests'
  <2> DEFINE b == sweep[s].call.conn
             t == sweep[s].call.token
  <2>1. sweep[s].answer = "refused" /\ refused' = refused \cup {t}
        /\ record' = [record EXCEPT ![b] = IF @.token = 0 THEN @
                                           ELSE [@ EXCEPT !.status = "needs-operator"]]
    BY <1>6 DEF Refused, markCredentialNeedsOperator
  <2>2. b \in Conns /\ t \in 1..issued
    BY <2>1 DEF CustodyTypes, SweepFits, Pairs
  <2>3. \A d \in Conns : record[d].token = t => d = b
    BY <2>1, <2>2 DEF Owned, OwnedBy
  <2>4. \A d \in Conns \ {b} : record'[d] = record[d]
    BY <2>1 DEF CustodyTypes
  <2>5. record'[b].token = 0 \/ record'[b].status = "needs-operator"
    BY <2>1, <2>2 DEF CustodyTypes, NoFile
  <2> HIDE DEF b, t
  <2>6. ASSUME NEW d \in Conns, record'[d].status = "ok" PROVE record'[d].token \notin refused'
    <3>1. CASE d = b
      BY <2>1, <2>2, <2>5, <2>6, <3>1, <1>1
    <3>2. CASE d # b
      BY <2>1, <2>2, <2>3, <2>4, <2>6, <3>2 DEF RefusedRests
    <3> QED BY <3>1, <3>2
  <2> QED BY <2>6 DEF RefusedRests
<1>7. CASE UNCHANGED <<record, refused>>
  BY <1>7 DEF RefusedRests
<1>8. ASSUME NEW s \in Sweeps,
             StartSweep(s) \/ HubRenews(s) \/ HubRefuses(s) \/ Failed(s)
      PROVE  RefusedRests'
  BY <1>7, <1>8 DEF StartSweep, HubRenews, HubRefuses, Failed
<1>9. ASSUME NEW t \in Tokens, Age(t) PROVE RefusedRests'
  BY <1>7, <1>9 DEF Age
<1>10. CASE Restart \/ UNCHANGED vars
  BY <1>7, <1>10 DEF Restart, vars
<1> QED BY <1>3, <1>4, <1>5, <1>6, <1>8, <1>9, <1>10 DEF Next

(***************************************************************************)
(* Every reachable state has the invariant; its parts are inductive        *)
(* together: the mark of a refusal meets the right record because a token  *)
(* is of one connection, and what a late answer stores was never refused   *)
(* because nobody but the sweep knows it.                                  *)
(***************************************************************************)
THEOREM CustodyIsInvariant == Spec => []CustodyInv
<1>1. CustodyInv /\ [Next]_vars => CustodyInv'
  BY StepTypes, StepOwned, StepGifts, StepRests DEF CustodyInv
<1> QED BY InitCustody, <1>1, PTL DEF Spec

(***************************************************************************)
(* A token that the hub answered with 401 is in no usable record, whatever *)
(* sweeps overlap, whatever is delivered and removed meanwhile and however *)
(* often the daemon restarts.                                              *)
(***************************************************************************)
THEOREM RefusalIsFinal == Spec => []RefusedRests
<1>1. CustodyInv => RefusedRests
  BY DEF CustodyInv
<1> QED BY CustodyIsInvariant, <1>1, PTL

=============================================================================
