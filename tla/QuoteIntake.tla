----------------------------- MODULE QuoteIntake -----------------------------
(***************************************************************************)
(* From a delivery request to its dispatch.  A request is created by the   *)
(* integration, and then quoted and accepted (DeliveryQuotesService), or   *)
(* it is made out of a prequote, with the quote that the prequote promised *)
(* (PrequoteConversionService), which can only be accepted with the        *)
(* customer's authorization (AuthorizedAcceptanceService).  Either way the *)
(* accepted quote opens the dispatch.                                      *)
(*                                                                         *)
(* Every transaction here holds the row of its request, so there is at     *)
(* most one at work on each.  Those that last are two steps: quote() calls *)
(* the routing provider, and the triggers of the two prequote transactions *)
(* look at the clock again when they commit.  The others are one step.     *)
(* Rules of a call that depend on its arguments only (owner, conditions,   *)
(* attested amount and dates), and whatever else makes a transaction fail, *)
(* end it with nothing changed: Abort and AbortConversion.                 *)
(***************************************************************************)
EXTENDS Integers

CONSTANTS
  Request,
  Quote,
  Prequote,
  Price,
  None,
  Validity,  \* how long quotes and prequotes stand
  Skew,      \* how far the clock of a process may be from the database's
  MaxTime    \* bounds the clock

ASSUME IntakeAssumption ==
  /\ Validity \in Nat \ {0} /\ Skew \in Nat /\ MaxTime \in Nat
  /\ None \notin Prequote /\ None \notin Price
  /\ None \notin [price : Price, expires : Int]
  /\ None \notin [request : Request, price : Price, expires : Int]

VARIABLES
  now,       \* the database's clock
  zone,      \* status of the service zone
  offer,     \* price in the active rate plan of the zone
  client,    \* whether the integration and its credential are in force
  prequote,  \* price and expiry of each prequote that was issued
  request,   \* status of each delivery request
  origin,    \* the prequote it was converted from, if any
  quote,     \* status of each delivery quote
  terms,     \* request, price and expiry of each quote
  evidence,  \* quotes with the evidence of the customer's authorization
  dispatch,  \* dispatch of each quote
  work,      \* what the transaction that holds a request's row is doing
  converting \* prequotes whose row a conversion holds

vars == <<now, zone, offer, client, prequote, request, origin, quote, terms,
          evidence, dispatch, work, converting>>
outside == <<zone, offer, client>>

Promise == [price : Price, expires : Int]
Terms   == [request : Request, price : Price, expires : Int]
Idle    == [op |-> "IDLE"]
Work    == [op : {"QUOTE"}, at : Int, price : Price]
             \cup [op : {"AUTHORIZE"}, quote : Quote] \cup {Idle}

TypeOK ==
  /\ now \in 0..MaxTime
  /\ zone \in {"ACTIVE", "INACTIVE"}
  /\ offer \in Price \cup {None}
  /\ client \in {"ACTIVE", "BLOCKED"}
  /\ prequote \in [Prequote -> Promise \cup {None}]
  /\ request \in [Request -> {"NONE", "CREATED", "CANCELLED"}]
  /\ origin \in [Request -> Prequote \cup {None}]
  /\ quote \in [Quote -> {"NONE", "OFFERED", "ACCEPTED", "EXPIRED", "CANCELLED"}]
  /\ terms \in [Quote -> Terms \cup {None}]
  /\ evidence \subseteq Quote
  /\ dispatch \in [Quote -> {"NONE", "OPEN", "CLOSED"}]
  /\ work \in [Request -> Work]
  /\ converting \subseteq Prequote
  /\ \A q \in Quote : quote[q] = "NONE" <=> terms[q] = None

Init ==
  /\ now = 0
  /\ zone = "INACTIVE"
  /\ offer = None
  /\ client = "ACTIVE"
  /\ prequote = [p \in Prequote |-> None]
  /\ request = [r \in Request |-> "NONE"]
  /\ origin = [r \in Request |-> None]
  /\ quote = [q \in Quote |-> "NONE"]
  /\ terms = [q \in Quote |-> None]
  /\ evidence = {}
  /\ dispatch = [q \in Quote |-> "NONE"]
  /\ work = [r \in Request |-> Idle]
  /\ converting = {}

-----------------------------------------------------------------------------
(* What the clock of the process that serves a call may show.               *)
ProcessClock == (now - Skew)..(now + Skew)

QuotesOf(r) == { q \in Quote : terms[q] # None /\ terms[q].request = r }

Free(r) == work[r].op = "IDLE"

Authorizing == { r \in Request : work[r].op = "AUTHORIZE" }

(* Zone, client and credential are locked FOR SHARE by the transactions     *)
(* whose result may not outlive them.                                       *)
ZoneShared   == converting # {} \/ Authorizing # {}
ClientShared == Authorizing # {}

Tick ==
  /\ now < MaxTime
  /\ now' = now + 1
  /\ UNCHANGED <<outside, prequote, request, origin, quote, terms, evidence, dispatch,
                 work, converting>>

(* Plausible fault: the transactions read the zone without locking it.      *)
SwitchZoneUnlocked ==
  /\ zone' = IF zone = "ACTIVE" THEN "INACTIVE" ELSE "ACTIVE"
  /\ UNCHANGED <<now, offer, client, prequote, request, origin, quote, terms, evidence,
                 dispatch, work, converting>>

SwitchZone ==
  /\ ~ZoneShared
  /\ zone' = IF zone = "ACTIVE" THEN "INACTIVE" ELSE "ACTIVE"
  /\ UNCHANGED <<now, offer, client, prequote, request, origin, quote, terms, evidence,
                 dispatch, work, converting>>

(* Another rate plan of the zone is activated, under the zone's lock; or    *)
(* the active one is deactivated, which does not lock the zone.             *)
ChangePlan(price) ==
  /\ price = None \/ ~ZoneShared
  /\ offer' = price
  /\ UNCHANGED <<now, zone, client, prequote, request, origin, quote, terms, evidence,
                 dispatch, work, converting>>

(* The client is suspended and activated again; or it, or its credential,   *)
(* is revoked and it never is.                                              *)
SwitchClient ==
  /\ ~ClientShared
  /\ client' = IF client = "ACTIVE" THEN "BLOCKED" ELSE "ACTIVE"
  /\ UNCHANGED <<now, zone, offer, prequote, request, origin, quote, terms, evidence,
                 dispatch, work, converting>>

(* PrequoteIssue has how a prequote comes to be.                            *)
PublishPrequote(p) ==
  /\ prequote[p] = None /\ zone = "ACTIVE" /\ offer # None
  /\ prequote' = [prequote EXCEPT ![p] = [price |-> offer, expires |-> now + Validity]]
  /\ UNCHANGED <<now, outside, request, origin, quote, terms, evidence, dispatch, work,
                 converting>>

CreateRequest(r) ==
  /\ request[r] = "NONE"
  /\ request' = [request EXCEPT ![r] = "CREATED"]
  /\ UNCHANGED <<now, outside, prequote, origin, quote, terms, evidence, dispatch, work,
                 converting>>

-----------------------------------------------------------------------------
Converted(p) == \E r \in Request : origin[r] = p

BeginConversion(p) ==
  /\ prequote[p] # None /\ p \notin converting /\ ~Converted(p)
  /\ zone = "ACTIVE" /\ now < prequote[p].expires
  /\ converting' = converting \cup {p}
  /\ UNCHANGED <<now, outside, prequote, request, origin, quote, terms, evidence, dispatch,
                 work>>

(* Request and quote appear together; the quote keeps the prequote's price  *)
(* and expiry, whatever the plan says by now.                               *)
CommitConversion(p, r, q) ==
  /\ p \in converting /\ now < prequote[p].expires
  /\ request[r] = "NONE" /\ quote[q] = "NONE"
  /\ request' = [request EXCEPT ![r] = "CREATED"]
  /\ origin' = [origin EXCEPT ![r] = p]
  /\ quote' = [quote EXCEPT ![q] = "OFFERED"]
  /\ terms' = [terms EXCEPT ![q] = [request |-> r, price |-> prequote[p].price,
                                    expires |-> prequote[p].expires]]
  /\ converting' = converting \ {p}
  /\ UNCHANGED <<now, outside, prequote, evidence, dispatch, work>>

AbortConversion(p) ==
  /\ p \in converting
  /\ converting' = converting \ {p}
  /\ UNCHANGED <<now, outside, prequote, request, origin, quote, terms, evidence, dispatch,
                 work>>

-----------------------------------------------------------------------------
(* The quotes that a new one would not replace.                             *)
Standing(r, t) ==
  { q \in QuotesOf(r) : quote[q] = "ACCEPTED" \/ (quote[q] = "OFFERED" /\ t < terms[q].expires) }

(* Plausible fault: converted requests are quoted as any other.             *)
BeginQuoteOfAny(r, t) ==
  /\ t \in ProcessClock
  /\ Free(r) /\ request[r] = "CREATED"
  /\ Standing(r, t) = {} /\ zone = "ACTIVE" /\ offer # None
  /\ work' = [work EXCEPT ![r] = [op |-> "QUOTE", at |-> t, price |-> offer]]
  /\ UNCHANGED <<now, outside, prequote, request, origin, quote, terms, evidence, dispatch,
                 converting>>

(* A standing quote is answered again and nothing is written.  Otherwise    *)
(* zone and plan are read, unlocked, before the routing provider is called. *)
BeginQuote(r, t) ==
  /\ t \in ProcessClock
  /\ Free(r) /\ request[r] = "CREATED" /\ origin[r] = None
  /\ Standing(r, t) = {} /\ zone = "ACTIVE" /\ offer # None
  /\ work' = [work EXCEPT ![r] = [op |-> "QUOTE", at |-> t, price |-> offer]]
  /\ UNCHANGED <<now, outside, prequote, request, origin, quote, terms, evidence, dispatch,
                 converting>>

CommitQuote(r, q) ==
  /\ work[r].op = "QUOTE" /\ quote[q] = "NONE"
  /\ quote' = [o \in Quote |-> IF o = q THEN "OFFERED"
                               ELSE IF o \in QuotesOf(r) /\ quote[o] = "OFFERED" THEN "EXPIRED"
                               ELSE quote[o]]
  /\ terms' = [terms EXCEPT ![q] = [request |-> r, price |-> work[r].price,
                                    expires |-> work[r].at + Validity]]
  /\ work' = [work EXCEPT ![r] = Idle]
  /\ UNCHANGED <<now, outside, prequote, request, origin, evidence, dispatch, converting>>

(* Routing failed, a rule was not met, the transaction timed out, the       *)
(* process died: everything is rolled back.                                 *)
Abort(r) ==
  /\ ~Free(r)
  /\ work' = [work EXCEPT ![r] = Idle]
  /\ UNCHANGED <<now, outside, prequote, request, origin, quote, terms, evidence, dispatch,
                 converting>>

(* Acceptance without authorization.  A quote found past its expiry is      *)
(* marked EXPIRED for good, though the call is refused.                     *)
Accept(q, t) ==
  LET r == terms[q].request
  IN  /\ t \in ProcessClock
      /\ quote[q] = "OFFERED"
      /\ Free(r) /\ request[r] = "CREATED" /\ origin[r] = None
      /\ \/ /\ t < terms[q].expires
            /\ quote' = [quote EXCEPT ![q] = "ACCEPTED"]
            /\ dispatch' = [dispatch EXCEPT ![q] = "OPEN"]
         \/ /\ t >= terms[q].expires
            /\ quote' = [quote EXCEPT ![q] = "EXPIRED"]
            /\ UNCHANGED dispatch
      /\ UNCHANGED <<now, outside, prequote, request, origin, terms, evidence, work, converting>>

(* A token or credential that expires before the commit makes it fail.      *)
BeginAuthorization(q) ==
  LET r == terms[q].request
  IN  /\ quote[q] = "OFFERED"
      /\ Free(r) /\ request[r] = "CREATED" /\ origin[r] # None
      /\ now < terms[q].expires
      /\ client = "ACTIVE" /\ zone = "ACTIVE"
      /\ work' = [work EXCEPT ![r] = [op |-> "AUTHORIZE", quote |-> q]]
      /\ UNCHANGED <<now, outside, prequote, request, origin, quote, terms, evidence, dispatch,
                     converting>>

(* Evidence, acceptance and dispatch are committed together, in time.       *)
CommitAuthorization(r) ==
  /\ work[r].op = "AUTHORIZE"
  /\ LET q == work[r].quote
     IN  /\ now < terms[q].expires
         /\ quote' = [quote EXCEPT ![q] = "ACCEPTED"]
         /\ evidence' = evidence \cup {q}
         /\ dispatch' = [dispatch EXCEPT ![q] = "OPEN"]
  /\ work' = [work EXCEPT ![r] = Idle]
  /\ UNCHANGED <<now, outside, prequote, request, origin, terms, converting>>

(* Plausible fault: a cancellation that does not wait for the row.          *)
CancelUnlocked(r, t) ==
  /\ t \in ProcessClock
  /\ request[r] = "CREATED"
  /\ request' = [request EXCEPT ![r] = "CANCELLED"]
  /\ quote' = [q \in Quote |->
                 IF q \in QuotesOf(r) /\ quote[q] = "OFFERED"
                 THEN IF terms[q].expires <= t THEN "EXPIRED" ELSE "CANCELLED"
                 ELSE quote[q]]
  /\ dispatch' = [q \in Quote |->
                    IF q \in QuotesOf(r) /\ dispatch[q] = "OPEN" THEN "CLOSED" ELSE dispatch[q]]
  /\ UNCHANGED <<now, outside, prequote, origin, terms, evidence, work, converting>>

(* An accepted quote stays as history; its dispatch is closed with the      *)
(* request.                                                                 *)
Cancel(r, t) ==
  /\ t \in ProcessClock
  /\ Free(r) /\ request[r] = "CREATED"
  /\ request' = [request EXCEPT ![r] = "CANCELLED"]
  /\ quote' = [q \in Quote |->
                 IF q \in QuotesOf(r) /\ quote[q] = "OFFERED"
                 THEN IF terms[q].expires <= t THEN "EXPIRED" ELSE "CANCELLED"
                 ELSE quote[q]]
  /\ dispatch' = [q \in Quote |->
                    IF q \in QuotesOf(r) /\ dispatch[q] = "OPEN" THEN "CLOSED" ELSE dispatch[q]]
  /\ UNCHANGED <<now, outside, prequote, origin, terms, evidence, work, converting>>

Next ==
  \/ Tick \/ SwitchZone \/ SwitchClient
  \/ \E price \in Price \cup {None} : ChangePlan(price)
  \/ \E p \in Prequote :
       \/ PublishPrequote(p) \/ BeginConversion(p) \/ AbortConversion(p)
       \/ \E r \in Request, q \in Quote : CommitConversion(p, r, q)
  \/ \E r \in Request :
       \/ CreateRequest(r) \/ CommitAuthorization(r) \/ Abort(r)
       \/ \E t \in ProcessClock : BeginQuote(r, t) \/ Cancel(r, t)
       \/ \E q \in Quote : CommitQuote(r, q)
  \/ \E q \in Quote : BeginAuthorization(q) \/ \E t \in ProcessClock : Accept(q, t)

Spec == Init /\ [][Next]_vars
-----------------------------------------------------------------------------
(* A request never has two quotes that a customer could pay by: at most one *)
(* is OFFERED or ACCEPTED, and none is OFFERED once it is cancelled.  The   *)
(* partial indexes allow an OFFERED quote beside an ACCEPTED one.           *)
OneOpenQuote ==
  \A r \in Request, q \in Quote :
    q \in QuotesOf(r) /\ quote[q] \in {"OFFERED", "ACCEPTED"} =>
      /\ request[r] = "CANCELLED" => quote[q] = "ACCEPTED"
      /\ \A o \in QuotesOf(r) : quote[o] \in {"OFFERED", "ACCEPTED"} => o = q

(* There is a dispatch for exactly the quotes that were accepted, and it is *)
(* open only while the request stands, whatever cancellation, acceptance    *)
(* and pricing do at the same time.                                         *)
DispatchFollowsAcceptance ==
  \A q \in Quote :
    /\ dispatch[q] # "NONE" <=> quote[q] = "ACCEPTED"
    /\ dispatch[q] # "NONE" => (dispatch[q] = "OPEN" <=> request[terms[q].request] = "CREATED")

(* A prequote becomes one request at most, with a single quote: its price   *)
(* and expiry are those promised, and it is accepted only with evidence.    *)
ConvertedAsPromised ==
  /\ \A r, s \in Request : origin[r] # None /\ origin[r] = origin[s] => r = s
  /\ \A r \in Request : origin[r] # None => QuotesOf(r) # {}
  /\ \A r \in Request, q \in Quote :
       origin[r] # None /\ q \in QuotesOf(r) =>
         /\ \A o \in QuotesOf(r) : o = q
         /\ terms[q].price = prequote[origin[r]].price
         /\ terms[q].expires = prequote[origin[r]].expires
         /\ quote[q] = "ACCEPTED" <=> q \in evidence

(* No quote is accepted after its expiry: by more than the error of a       *)
(* process clock without authorization, and at all with it, when zone and   *)
(* client must also be in force at the very commit.                         *)
AcceptedInTime ==
  [][ \A q \in Quote :
        quote[q] # "ACCEPTED" /\ quote'[q] = "ACCEPTED" =>
          IF origin[terms[q].request] = None
          THEN now < terms[q].expires + Skew
          ELSE now < terms[q].expires /\ zone = "ACTIVE" /\ client = "ACTIVE" ]_vars

(* An order leads to one dispatch at most, ever: no two quotes of a request *)
(* are dispatched, not even one after the other, nor two quotes that came   *)
(* of one prequote, however often it is converted or its conversion fails.  *)
OneDispatchPerOrder ==
  \A q, o \in Quote :
    /\ dispatch[q] # "NONE" /\ dispatch[o] # "NONE"
    /\ LET r == terms[q].request  s == terms[o].request
       IN  r = s \/ (origin[r] # None /\ origin[r] = origin[s])
    => q = o

(* What the customer was offered and what became of it stand: the terms of  *)
(* a quote never change, one that was accepted, expired or cancelled stays  *)
(* so, its evidence is kept and its dispatch, once closed, is not reopened. *)
OutcomesStand ==
  [][ \A q \in Quote :
        /\ terms[q] # None => terms'[q] = terms[q]
        /\ quote[q] \in {"ACCEPTED", "EXPIRED", "CANCELLED"} => quote'[q] = quote[q]
        /\ q \in evidence => q \in evidence'
        /\ dispatch[q] = "CLOSED" => dispatch'[q] = "CLOSED" ]_vars
=============================================================================
