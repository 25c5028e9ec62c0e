-------------------------- MODULE QuoteIntakeProofs --------------------------
(***************************************************************************)
(* What QuoteIntake checks on a small instance, proved for any number of   *)
(* requests, quotes, prequotes and prices and for any clocks.              *)
(*                                                                         *)
(* None of the properties is inductive alone.  IntakeInvariant adds what   *)
(* the row locks buy: the transaction that holds a request's row still     *)
(* finds what it based its work on (WorkFitsRequest), a conversion that    *)
(* holds its prequote is the only one (ConversionsAreCurrent), and no      *)
(* quote or evidence is there before its time (FreshIsEmpty and            *)
(* EvidenceIsAccepted).                                                    *)
(***************************************************************************)
EXTENDS QuoteIntake, TLAPS

USE IntakeAssumption

WorkFitsRequest ==
  \A r \in Request :
    /\ ~Free(r) => request[r] = "CREATED"
    /\ work[r].op = "QUOTE" =>
         /\ origin[r] = None
         /\ \A q \in QuotesOf(r) : quote[q] # "ACCEPTED"
    /\ work[r].op = "AUTHORIZE" =>
         /\ origin[r] # None /\ zone = "ACTIVE" /\ client = "ACTIVE"
         /\ work[r].quote \in QuotesOf(r) /\ quote[work[r].quote] = "OFFERED"

ConversionsAreCurrent ==
  /\ \A p \in converting : prequote[p] # None /\ ~Converted(p)
  /\ \A r \in Request : origin[r] # None => prequote[origin[r]] # None

FreshIsEmpty ==
  \A r \in Request : request[r] = "NONE" => origin[r] = None /\ QuotesOf(r) = {}

EvidenceIsAccepted == \A q \in evidence : quote[q] = "ACCEPTED"

IntakeInvariant ==
  /\ TypeOK
  /\ OneOpenQuote
  /\ DispatchFollowsAcceptance
  /\ ConvertedAsPromised
  /\ WorkFitsRequest
  /\ ConversionsAreCurrent
  /\ FreshIsEmpty
  /\ EvidenceIsAccepted

USE DEF Promise, Terms, Idle, Work, QuotesOf, Free, Converted, ProcessClock, outside
-----------------------------------------------------------------------------
(* The steps that leave requests, quotes, evidence and dispatches alone.    *)
Quiet ==
  \/ Tick
  \/ SwitchZone
  \/ SwitchClient
  \/ (\E price \in Price \cup {None} : ChangePlan(price))
  \/ (\E p \in Prequote : PublishPrequote(p))
  \/ (\E p \in Prequote : BeginConversion(p))
  \/ (\E p \in Prequote : AbortConversion(p))
  \/ (\E r \in Request, t \in ProcessClock : BeginQuote(r, t))
  \/ (\E q \in Quote : BeginAuthorization(q))
  \/ (\E r \in Request : Abort(r))
  \/ UNCHANGED vars

LEMMA QuietOrNot ==
  ASSUME [Next]_vars
  PROVE  \/ Quiet
         \/ (\E r \in Request : CreateRequest(r))
         \/ (\E p \in Prequote, r \in Request, q \in Quote : CommitConversion(p, r, q))
         \/ (\E r \in Request, q \in Quote : CommitQuote(r, q))
         \/ (\E q \in Quote, t \in ProcessClock : Accept(q, t))
         \/ (\E r \in Request : CommitAuthorization(r))
         \/ (\E r \in Request, t \in ProcessClock : Cancel(r, t))
BY Zenon DEF Next, Quiet

LEMMA QuietLeavesBooks ==
  ASSUME Quiet
  PROVE  UNCHANGED <<request, origin, quote, terms, evidence, dispatch>>
BY DEF Quiet, vars, Tick, SwitchZone, SwitchClient, ChangePlan, PublishPrequote, BeginConversion, AbortConversion, BeginQuote, BeginAuthorization, Abort

(* A quote in the making has a price, and an authorization its quote.        *)
LEMMA TypesKept ==
  ASSUME TypeOK, WorkFitsRequest, ConversionsAreCurrent, [Next]_vars
  PROVE  TypeOK'
<1> USE DEF TypeOK, WorkFitsRequest, ConversionsAreCurrent
<1>1. CASE UNCHANGED vars
  BY <1>1 DEF vars
<1>2. CASE Tick
  BY <1>2 DEF Tick
<1>3. CASE SwitchZone
  BY <1>3 DEF SwitchZone, ZoneShared, ClientShared, Authorizing
<1>4. CASE SwitchClient
  BY <1>4 DEF SwitchClient, ZoneShared, ClientShared, Authorizing
<1>5. CASE \E price \in Price \cup {None} : ChangePlan(price)
  BY <1>5 DEF ChangePlan
<1>6. CASE \E p \in Prequote : PublishPrequote(p)
  BY <1>6 DEF PublishPrequote
<1>7. CASE \E p \in Prequote : BeginConversion(p)
  BY <1>7 DEF BeginConversion
<1>8. CASE \E p \in Prequote : AbortConversion(p)
  BY <1>8 DEF AbortConversion
<1>9. CASE \E r \in Request, t \in ProcessClock : BeginQuote(r, t)
  BY <1>9 DEF BeginQuote, Standing
<1>10. CASE \E q \in Quote : BeginAuthorization(q)
  BY <1>10 DEF BeginAuthorization
<1>11. CASE \E r \in Request : Abort(r)
  BY <1>11 DEF Abort
<1>12. CASE \E r \in Request : CreateRequest(r)
  BY <1>12 DEF CreateRequest
<1>13. CASE \E p \in Prequote, r \in Request, q \in Quote : CommitConversion(p, r, q)
  BY <1>13 DEF CommitConversion
<1>14. CASE \E r \in Request, q \in Quote : CommitQuote(r, q)
  BY <1>14 DEF CommitQuote
<1>15. CASE \E q \in Quote, t \in ProcessClock : Accept(q, t)
  BY <1>15 DEF Accept
<1>16. CASE \E r \in Request : CommitAuthorization(r)
  BY <1>16 DEF CommitAuthorization
<1>17. CASE \E r \in Request, t \in ProcessClock : Cancel(r, t)
  BY <1>17 DEF Cancel
<1> QED BY Zenon, <1>1, <1>2, <1>3, <1>4, <1>5, <1>6, <1>7, <1>8, <1>9, <1>10, <1>11, <1>12, <1>13, <1>14, <1>15, <1>16, <1>17 DEF Next

(* A new quote replaces the OFFERED ones, and quote() found none ACCEPTED.  *)
LEMMA OneOpenQuoteKept ==
  ASSUME TypeOK, OneOpenQuote, WorkFitsRequest, FreshIsEmpty, [Next]_vars
  PROVE  OneOpenQuote'
<1> USE DEF TypeOK, WorkFitsRequest, OneOpenQuote, FreshIsEmpty
<1>1. CASE Quiet
  BY <1>1, QuietLeavesBooks
<1>2. CASE \E r \in Request : CreateRequest(r)
  BY <1>2 DEF CreateRequest
<1>3. CASE \E p \in Prequote, r \in Request, q \in Quote : CommitConversion(p, r, q)
  BY <1>3 DEF CommitConversion
<1>4. CASE \E r \in Request, q \in Quote : CommitQuote(r, q)
  BY <1>4 DEF CommitQuote
<1>5. CASE \E q \in Quote, t \in ProcessClock : Accept(q, t)
  BY <1>5 DEF Accept
<1>6. CASE \E r \in Request : CommitAuthorization(r)
  BY <1>6 DEF CommitAuthorization
<1>7. CASE \E r \in Request, t \in ProcessClock : Cancel(r, t)
  BY <1>7 DEF Cancel
<1> QED BY <1>1, <1>2, <1>3, <1>4, <1>5, <1>6, <1>7, QuietOrNot

(* Only OFFERED quotes are accepted, and only of a request that stands.     *)
LEMMA DispatchesKept ==
  ASSUME TypeOK, DispatchFollowsAcceptance, OneOpenQuote, WorkFitsRequest, FreshIsEmpty, [Next]_vars
  PROVE  DispatchFollowsAcceptance'
<1> USE DEF TypeOK, WorkFitsRequest, OneOpenQuote, FreshIsEmpty, DispatchFollowsAcceptance
<1>1. CASE Quiet
  BY <1>1, QuietLeavesBooks
<1>2. CASE \E r \in Request : CreateRequest(r)
  BY <1>2 DEF CreateRequest
<1>3. CASE \E p \in Prequote, r \in Request, q \in Quote : CommitConversion(p, r, q)
  BY <1>3 DEF CommitConversion
<1>4. CASE \E r \in Request, q \in Quote : CommitQuote(r, q)
  BY <1>4 DEF CommitQuote
<1>5. CASE \E q \in Quote, t \in ProcessClock : Accept(q, t)
  BY <1>5 DEF Accept
<1>6. CASE \E r \in Request : CommitAuthorization(r)
  BY <1>6 DEF CommitAuthorization
<1>7. CASE \E r \in Request, t \in ProcessClock : Cancel(r, t)
  BY <1>7 DEF Cancel
<1> QED BY <1>1, <1>2, <1>3, <1>4, <1>5, <1>6, <1>7, QuietOrNot

(* The prequote is not converted while its row is held, and its quote is    *)
(* not replaced.                                                            *)
LEMMA ConversionsKept ==
  ASSUME TypeOK, ConvertedAsPromised, WorkFitsRequest, ConversionsAreCurrent, FreshIsEmpty, EvidenceIsAccepted, [Next]_vars
  PROVE  ConvertedAsPromised'
<1> USE DEF TypeOK, EvidenceIsAccepted, WorkFitsRequest, ConversionsAreCurrent, ConvertedAsPromised, FreshIsEmpty
<1>1. CASE UNCHANGED vars
  BY <1>1 DEF vars
<1>2. CASE Tick
  BY <1>2 DEF Tick
<1>3. CASE SwitchZone
  BY <1>3 DEF SwitchZone, ZoneShared, ClientShared, Authorizing
<1>4. CASE SwitchClient
  BY <1>4 DEF SwitchClient, ZoneShared, ClientShared, Authorizing
<1>5. CASE \E price \in Price \cup {None} : ChangePlan(price)
  BY <1>5 DEF ChangePlan
<1>6. CASE \E p \in Prequote : PublishPrequote(p)
  BY <1>6 DEF PublishPrequote
<1>7. CASE \E p \in Prequote : BeginConversion(p)
  BY <1>7 DEF BeginConversion
<1>8. CASE \E p \in Prequote : AbortConversion(p)
  BY <1>8 DEF AbortConversion
<1>9. CASE \E r \in Request, t \in ProcessClock : BeginQuote(r, t)
  BY <1>9 DEF BeginQuote, Standing
<1>10. CASE \E q \in Quote : BeginAuthorization(q)
  BY <1>10 DEF BeginAuthorization
<1>11. CASE \E r \in Request : Abort(r)
  BY <1>11 DEF Abort
<1>12. CASE \E r \in Request : CreateRequest(r)
  BY <1>12 DEF CreateRequest
<1>13. CASE \E p \in Prequote, r \in Request, q \in Quote : CommitConversion(p, r, q)
  BY <1>13 DEF CommitConversion
<1>14. CASE \E r \in Request, q \in Quote : CommitQuote(r, q)
  BY <1>14 DEF CommitQuote
<1>15. CASE \E q \in Quote, t \in ProcessClock : Accept(q, t)
  BY <1>15 DEF Accept
<1>16. CASE \E r \in Request : CommitAuthorization(r)
  BY <1>16 DEF CommitAuthorization
<1>17. CASE \E r \in Request, t \in ProcessClock : Cancel(r, t)
  BY <1>17 DEF Cancel
<1> QED BY Zenon, <1>1, <1>2, <1>3, <1>4, <1>5, <1>6, <1>7, <1>8, <1>9, <1>10, <1>11, <1>12, <1>13, <1>14, <1>15, <1>16, <1>17 DEF Next

(* Whoever could disturb the work on a request waits for its row, or for    *)
(* the rows it shares.                                                      *)
LEMMA WorkKept ==
  ASSUME TypeOK, WorkFitsRequest, FreshIsEmpty, [Next]_vars
  PROVE  WorkFitsRequest'
<1> USE DEF TypeOK, WorkFitsRequest, FreshIsEmpty
<1>1. CASE UNCHANGED vars
  BY <1>1 DEF vars
<1>2. CASE Tick
  BY <1>2 DEF Tick
<1>3. CASE SwitchZone
  BY <1>3 DEF SwitchZone, ZoneShared, ClientShared, Authorizing
<1>4. CASE SwitchClient
  BY <1>4 DEF SwitchClient, ZoneShared, ClientShared, Authorizing
<1>5. CASE \E price \in Price \cup {None} : ChangePlan(price)
  BY <1>5 DEF ChangePlan
<1>6. CASE \E p \in Prequote : PublishPrequote(p)
  BY <1>6 DEF PublishPrequote
<1>7. CASE \E p \in Prequote : BeginConversion(p)
  BY <1>7 DEF BeginConversion
<1>8. CASE \E p \in Prequote : AbortConversion(p)
  BY <1>8 DEF AbortConversion
<1>9. CASE \E r \in Request, t \in ProcessClock : BeginQuote(r, t)
  BY <1>9 DEF BeginQuote, Standing
<1>10. CASE \E q \in Quote : BeginAuthorization(q)
  BY <1>10 DEF BeginAuthorization
<1>11. CASE \E r \in Request : Abort(r)
  BY <1>11 DEF Abort
<1>12. CASE \E r \in Request : CreateRequest(r)
  BY <1>12 DEF CreateRequest
<1>13. CASE \E p \in Prequote, r \in Request, q \in Quote : CommitConversion(p, r, q)
  BY <1>13 DEF CommitConversion
<1>14. CASE \E r \in Request, q \in Quote : CommitQuote(r, q)
  BY <1>14 DEF CommitQuote
<1>15. CASE \E q \in Quote, t \in ProcessClock : Accept(q, t)
  BY <1>15 DEF Accept
<1>16. CASE \E r \in Request : CommitAuthorization(r)
  BY <1>16 DEF CommitAuthorization
<1>17. CASE \E r \in Request, t \in ProcessClock : Cancel(r, t)
  BY <1>17 DEF Cancel
<1> QED BY Zenon, <1>1, <1>2, <1>3, <1>4, <1>5, <1>6, <1>7, <1>8, <1>9, <1>10, <1>11, <1>12, <1>13, <1>14, <1>15, <1>16, <1>17 DEF Next

LEMMA CurrencyKept ==
  ASSUME TypeOK, ConversionsAreCurrent, [Next]_vars
  PROVE  ConversionsAreCurrent'
<1> USE DEF TypeOK, ConversionsAreCurrent
<1>1. CASE UNCHANGED vars
  BY <1>1 DEF vars
<1>2. CASE Tick
  BY <1>2 DEF Tick
<1>3. CASE SwitchZone
  BY <1>3 DEF SwitchZone, ZoneShared, ClientShared, Authorizing
<1>4. CASE SwitchClient
  BY <1>4 DEF SwitchClient, ZoneShared, ClientShared, Authorizing
<1>5. CASE \E price \in Price \cup {None} : ChangePlan(price)
  BY <1>5 DEF ChangePlan
<1>6. CASE \E p \in Prequote : PublishPrequote(p)
  BY <1>6 DEF PublishPrequote
<1>7. CASE \E p \in Prequote : BeginConversion(p)
  BY <1>7 DEF BeginConversion
<1>8. CASE \E p \in Prequote : AbortConversion(p)
  BY <1>8 DEF AbortConversion
<1>9. CASE \E r \in Request, t \in ProcessClock : BeginQuote(r, t)
  BY <1>9 DEF BeginQuote, Standing
<1>10. CASE \E q \in Quote : BeginAuthorization(q)
  BY <1>10 DEF BeginAuthorization
<1>11. CASE \E r \in Request : Abort(r)
  BY <1>11 DEF Abort
<1>12. CASE \E r \in Request : CreateRequest(r)
  BY <1>12 DEF CreateRequest
<1>13. CASE \E p \in Prequote, r \in Request, q \in Quote : CommitConversion(p, r, q)
  BY <1>13 DEF CommitConversion
<1>14. CASE \E r \in Request, q \in Quote : CommitQuote(r, q)
  BY <1>14 DEF CommitQuote
<1>15. CASE \E q \in Quote, t \in ProcessClock : Accept(q, t)
  BY <1>15 DEF Accept
<1>16. CASE \E r \in Request : CommitAuthorization(r)
  BY <1>16 DEF CommitAuthorization
<1>17. CASE \E r \in Request, t \in ProcessClock : Cancel(r, t)
  BY <1>17 DEF Cancel
<1> QED BY Zenon, <1>1, <1>2, <1>3, <1>4, <1>5, <1>6, <1>7, <1>8, <1>9, <1>10, <1>11, <1>12, <1>13, <1>14, <1>15, <1>16, <1>17 DEF Next

LEMMA FreshnessKept ==
  ASSUME TypeOK, FreshIsEmpty, WorkFitsRequest, [Next]_vars
  PROVE  FreshIsEmpty'
<1> USE DEF TypeOK, FreshIsEmpty, WorkFitsRequest
<1>1. CASE Quiet
  BY <1>1, QuietLeavesBooks
<1>2. CASE \E r \in Request : CreateRequest(r)
  BY <1>2 DEF CreateRequest
<1>3. CASE \E p \in Prequote, r \in Request, q \in Quote : CommitConversion(p, r, q)
  BY <1>3 DEF CommitConversion
<1>4. CASE \E r \in Request, q \in Quote : CommitQuote(r, q)
  BY <1>4 DEF CommitQuote
<1>5. CASE \E q \in Quote, t \in ProcessClock : Accept(q, t)
  BY <1>5 DEF Accept
<1>6. CASE \E r \in Request : CommitAuthorization(r)
  BY <1>6 DEF CommitAuthorization
<1>7. CASE \E r \in Request, t \in ProcessClock : Cancel(r, t)
  BY <1>7 DEF Cancel
<1> QED BY <1>1, <1>2, <1>3, <1>4, <1>5, <1>6, <1>7, QuietOrNot

LEMMA EvidenceKept ==
  ASSUME TypeOK, EvidenceIsAccepted, WorkFitsRequest, [Next]_vars
  PROVE  EvidenceIsAccepted'
<1> USE DEF TypeOK, EvidenceIsAccepted, WorkFitsRequest
<1>1. CASE Quiet
  BY <1>1, QuietLeavesBooks
<1>2. CASE \E r \in Request : CreateRequest(r)
  BY <1>2 DEF CreateRequest
<1>3. CASE \E p \in Prequote, r \in Request, q \in Quote : CommitConversion(p, r, q)
  BY <1>3 DEF CommitConversion
<1>4. CASE \E r \in Request, q \in Quote : CommitQuote(r, q)
  BY <1>4 DEF CommitQuote
<1>5. CASE \E q \in Quote, t \in ProcessClock : Accept(q, t)
  BY <1>5 DEF Accept
<1>6. CASE \E r \in Request : CommitAuthorization(r)
  BY <1>6 DEF CommitAuthorization
<1>7. CASE \E r \in Request, t \in ProcessClock : Cancel(r, t)
  BY <1>7 DEF Cancel
<1> QED BY <1>1, <1>2, <1>3, <1>4, <1>5, <1>6, <1>7, QuietOrNot
-----------------------------------------------------------------------------
LEMMA IntakeInit ==
  ASSUME Init
  PROVE  IntakeInvariant
BY DEF Init, IntakeInvariant, TypeOK, OneOpenQuote, DispatchFollowsAcceptance,
       ConvertedAsPromised, WorkFitsRequest, ConversionsAreCurrent, FreshIsEmpty,
       EvidenceIsAccepted

LEMMA IntakeStep ==
  ASSUME IntakeInvariant, [Next]_vars
  PROVE  IntakeInvariant'
<1> USE DEF IntakeInvariant
<1>1. TypeOK' /\ OneOpenQuote' /\ DispatchFollowsAcceptance' /\ ConvertedAsPromised'
  BY TypesKept, OneOpenQuoteKept, DispatchesKept, ConversionsKept
<1>2. WorkFitsRequest' /\ ConversionsAreCurrent' /\ FreshIsEmpty' /\ EvidenceIsAccepted'
  BY WorkKept, CurrencyKept, FreshnessKept, EvidenceKept
<1> QED BY <1>1, <1>2

(* QuoteIntake's variables together stay within IntakeInvariant, whatever   *)
(* calls and administrators do.                                             *)
THEOREM IntakeCorrect == Spec => []IntakeInvariant
<1>1. Init => IntakeInvariant
  BY IntakeInit
<1>2. IntakeInvariant /\ [Next]_vars => IntakeInvariant'
  BY IntakeStep
<1> QED BY <1>1, <1>2, PTL DEF Spec

(* Every column of the tables holds what its type says.                     *)
THEOREM IntakeTypesCorrect == Spec => []TypeOK
<1>1. IntakeInvariant => TypeOK
  BY DEF IntakeInvariant
<1> QED BY <1>1, IntakeCorrect, PTL

(* quote(), accept(), cancel() and the conversion leave at most one quote   *)
(* of a request OFFERED or ACCEPTED.                                        *)
THEOREM OneOpenQuoteAlways == Spec => []OneOpenQuote
<1>1. IntakeInvariant => OneOpenQuote
  BY DEF IntakeInvariant
<1> QED BY <1>1, IntakeCorrect, PTL

(* Accepted quotes and dispatches go together, and a dispatch is open just  *)
(* as long as its request is not cancelled.                                 *)
THEOREM DispatchesFollowAcceptances == Spec => []DispatchFollowsAcceptance
<1>1. IntakeInvariant => DispatchFollowsAcceptance
  BY DEF IntakeInvariant
<1> QED BY <1>1, IntakeCorrect, PTL

(* A converted prequote keeps its promise: one request, one quote, price    *)
(* and expiry unchanged, accepted with the customer's authorization only.   *)
THEOREM PrequotesArePromises == Spec => []ConvertedAsPromised
<1>1. IntakeInvariant => ConvertedAsPromised
  BY DEF IntakeInvariant
<1> QED BY <1>1, IntakeCorrect, PTL

LEMMA AcceptanceIsTimely ==
  ASSUME IntakeInvariant, [Next]_vars, NEW q \in Quote,
         quote[q] # "ACCEPTED", quote'[q] = "ACCEPTED"
  PROVE  IF origin[terms[q].request] = None
         THEN now < terms[q].expires + Skew
         ELSE now < terms[q].expires /\ zone = "ACTIVE" /\ client = "ACTIVE"
<1> USE DEF IntakeInvariant, TypeOK
<1>1. CASE Quiet
  BY <1>1, QuietLeavesBooks
<1>2. CASE \E o \in Quote, t \in ProcessClock : Accept(o, t)
  BY <1>2 DEF Accept
<1>3. CASE \E r \in Request : CommitAuthorization(r)
  BY <1>3 DEF CommitAuthorization, WorkFitsRequest
<1>4. CASE \E r \in Request : CreateRequest(r)
  BY <1>4 DEF CreateRequest
<1>5. CASE \E p \in Prequote, r \in Request, o \in Quote : CommitConversion(p, r, o)
  BY <1>5 DEF CommitConversion
<1>6. CASE \E r \in Request, o \in Quote : CommitQuote(r, o)
  BY <1>6 DEF CommitQuote
<1>7. CASE \E r \in Request, t \in ProcessClock : Cancel(r, t)
  BY <1>7 DEF Cancel
<1> QED BY <1>1, <1>2, <1>3, <1>4, <1>5, <1>6, <1>7, QuietOrNot

(* A quote is accepted before it expires, to within the process clock's     *)
(* error without authorization; and with it, while zone, integration and    *)
(* credential are in force, because they are locked until the commit.       *)
THEOREM AcceptancesInTime == Spec => AcceptedInTime
<1>1. IntakeInvariant /\ [Next]_vars =>
        [ \A q \in Quote :
            quote[q] # "ACCEPTED" /\ quote'[q] = "ACCEPTED" =>
              IF origin[terms[q].request] = None
              THEN now < terms[q].expires + Skew
              ELSE now < terms[q].expires /\ zone = "ACTIVE" /\ client = "ACTIVE" ]_vars
  BY AcceptanceIsTimely
<1> QED BY <1>1, IntakeCorrect, PTL DEF AcceptedInTime, Spec
(* Dispatched quotes are accepted ones, of which a request has one; and a   *)
(* prequote was converted into one request.                                 *)
THEOREM OrdersAreDispatchedOnce == Spec => []OneDispatchPerOrder
<1>1. IntakeInvariant => OneDispatchPerOrder
  <2> SUFFICES ASSUME IntakeInvariant, NEW q \in Quote, NEW o \in Quote,
                      dispatch[q] # "NONE", dispatch[o] # "NONE",
                      \/ terms[q].request = terms[o].request
                      \/ /\ origin[terms[q].request] # None
                         /\ origin[terms[q].request] = origin[terms[o].request]
               PROVE  q = o
    BY DEF OneDispatchPerOrder
  <2>1. quote[q] = "ACCEPTED" /\ quote[o] = "ACCEPTED"
    BY DEF IntakeInvariant, DispatchFollowsAcceptance
  <2>2. terms[q] # None /\ terms[o] # None /\ terms[q] \in Terms /\ terms[o] \in Terms
    BY <2>1 DEF IntakeInvariant, TypeOK
  <2>3. terms[q].request \in Request /\ terms[o].request \in Request
    BY <2>2
  <2>4. terms[q].request = terms[o].request
    BY <2>3 DEF IntakeInvariant, ConvertedAsPromised
  <2> QED
    BY <2>1, <2>2, <2>3, <2>4 DEF IntakeInvariant, OneOpenQuote
<1> QED BY <1>1, IntakeCorrect, PTL

LEMMA OutcomesAreKept ==
  ASSUME IntakeInvariant, [Next]_vars, NEW q \in Quote
  PROVE  /\ terms[q] # None => terms'[q] = terms[q]
         /\ quote[q] \in {"ACCEPTED", "EXPIRED", "CANCELLED"} => quote'[q] = quote[q]
         /\ q \in evidence => q \in evidence'
         /\ dispatch[q] = "CLOSED" => dispatch'[q] = "CLOSED"
<1>0. TypeOK /\ DispatchFollowsAcceptance /\ WorkFitsRequest
  BY DEF IntakeInvariant
<1> USE DEF TypeOK
<1>1. CASE Quiet
  BY <1>1, QuietLeavesBooks
<1>2. CASE \E r \in Request : CreateRequest(r)
  BY <1>2 DEF CreateRequest
<1>3. CASE \E p \in Prequote, r \in Request, o \in Quote : CommitConversion(p, r, o)
  BY <1>0, <1>3 DEF CommitConversion
<1>4. CASE \E r \in Request, o \in Quote : CommitQuote(r, o)
  BY <1>0, <1>4 DEF CommitQuote
<1>5. CASE \E o \in Quote, t \in ProcessClock : Accept(o, t)
  BY <1>0, <1>5 DEF Accept, DispatchFollowsAcceptance
<1>6. CASE \E r \in Request : CommitAuthorization(r)
  BY <1>0, <1>6 DEF CommitAuthorization, WorkFitsRequest, DispatchFollowsAcceptance
<1>7. CASE \E r \in Request, t \in ProcessClock : Cancel(r, t)
  BY <1>7 DEF Cancel
<1> QED BY <1>1, <1>2, <1>3, <1>4, <1>5, <1>6, <1>7, QuietOrNot

(* Nothing that is priced, accepted, expired, cancelled, evidenced or       *)
(* closed is ever rewritten, by whichever transactions interleave.          *)
THEOREM OutcomesAreFinal == Spec => OutcomesStand
<1>1. IntakeInvariant /\ [Next]_vars =>
        [ \A q \in Quote :
            /\ terms[q] # None => terms'[q] = terms[q]
            /\ quote[q] \in {"ACCEPTED", "EXPIRED", "CANCELLED"} => quote'[q] = quote[q]
            /\ q \in evidence => q \in evidence'
            /\ dispatch[q] = "CLOSED" => dispatch'[q] = "CLOSED" ]_vars
  BY OutcomesAreKept
<1> QED BY <1>1, IntakeCorrect, PTL DEF OutcomesStand, Spec
=============================================================================
