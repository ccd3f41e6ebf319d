------------------------------ MODULE MCServer ------------------------------
(***************************************************************************)
(* Six components of the server that share no state: the moderation lock,   *)
(* and instances of redeemals, the notification emails, refunds, statuses   *)
(* and teams.  The initial state says which of them takes steps (part); the *)
(* others stay as they are.                                                 *)
(***************************************************************************)
EXTENDS ModerationLock

CONSTANTS
  Requests,              \* requests to redeem an offer, and to refund a charge
  Runs,                  \* runs of the jobs behind them
  MaxMishaps,
  Workers, Deliveries, Limit, MaxAttempts, Overlap,
  Amount, Tax,
  Conns, Away,
  Users, Admins, Deleted, MaxChecked

VARIABLES
  part,
  rowStatus, old, at, of, todo, servers, subs, rescued, hasty, mishaps,
  row, due, mailPc, copy, batch, result, tries, sent, mailMishaps,
  refundAt, want, recorded, refunded, next, link, pending, issued, disturbed,
  connAt, name, was, sockets, index, stored, stray,
  exists, owned, members, checked

mailVars   == <<row, due, mailPc, copy, batch, result, tries, sent, mailMishaps>>
redeemVars == <<rowStatus, old, at, of, todo, servers, subs, rescued, hasty, mishaps>>
refundVars == <<refundAt, want, recorded, refunded, next, link, pending, issued, disturbed>>
connVars   == <<connAt, name, was, sockets, index, stored, stray>>
teamVars   == <<exists, owned, members, checked>>
serverVars == <<part, vars, redeemVars, mailVars, refundVars, connVars, teamVars>>

Redeem == INSTANCE Redeemals WITH status <- rowStatus
Mail   == INSTANCE EmailDeliveries WITH pc <- mailPc, mishaps <- mailMishaps
Refund == INSTANCE Refunds WITH at <- refundAt
Conn   == INSTANCE Statuses WITH at <- connAt
Team   == INSTANCE Teams WITH rows <- members

ASSUME LockAssumption
ASSUME Redeem!RedeemalsAssumption
ASSUME Mail!EmailAssumption
ASSUME Refund!RefundsAssumption
ASSUME Conn!StatusesAssumption
ASSUME Team!TeamsAssumption

ServerInit ==
  /\ part \in {"redeemals", "mail", "lock", "refunds", "statuses", "teams"}
  /\ Init /\ Redeem!Init /\ Mail!Init /\ Refund!Init /\ Conn!Init /\ Team!Init
  \* One initial state is enough of those that take no steps.
  /\ part # "teams" =>
       ~owned /\ members = {Team!Owner("project", CHOOSE u \in Users : TRUE)}

ServerNext ==
  /\ \/ /\ part = "lock" /\ Next
        /\ UNCHANGED <<redeemVars, mailVars, refundVars, connVars, teamVars>>
     \/ /\ part = "redeemals" /\ Redeem!Next
        /\ UNCHANGED <<vars, mailVars, refundVars, connVars, teamVars>>
     \/ /\ part = "mail" /\ Mail!Next
        /\ UNCHANGED <<vars, redeemVars, refundVars, connVars, teamVars>>
     \/ /\ part = "refunds" /\ Refund!Next
        /\ UNCHANGED <<vars, redeemVars, mailVars, connVars, teamVars>>
     \/ /\ part = "statuses" /\ Conn!Next
        /\ UNCHANGED <<vars, redeemVars, mailVars, refundVars, teamVars>>
     \/ /\ part = "teams" /\ Team!Next
        /\ UNCHANGED <<vars, redeemVars, mailVars, refundVars, connVars>>
  /\ UNCHANGED part

\* Each component with its own fairness.
ServerSpec ==
  /\ ServerInit /\ [][ServerNext]_serverVars
  /\ \/ <>[](part = "redeemals") /\ Redeem!Fairness
     \/ <>[](part = "mail") /\ Mail!Fairness
     \/ <>[](part = "lock") /\ Fairness
     \/ <>[](part = "refunds") /\ Refund!Fairness
     \/ <>[](part = "statuses") /\ Conn!Fairness
     \/ <>[](part = "teams")

(***************************************************************************)
(* The properties of the instances                                          *)
(***************************************************************************)

\* The components' states have their types.
Types ==
  /\ TypeOK /\ Redeem!TypeOK /\ Mail!TypeOK /\ Refund!TypeOK /\ Conn!TypeOK
  /\ Team!TypeOK

\* The notification emails (EmailDeliveries).
TriesAreCounted      == Mail!TriesAreCounted
EveryDeliverySettles == <>[](part = "mail" => Mail!Settled)

\* Redeemals (Redeemals).
ServersAreCounted == Redeem!ServersAreCounted
OneSubscription   == Redeem!OneSubscription
EveryRedeemalEnds == Redeem!EveryRedeemalEnds

\* Refunds and the affiliate's credit (Refunds).
CreditedOnce  == Refund!CreditedOnce
RefundRevokes == Refund!RefundRevokes

\* Connections and statuses (Statuses).
KnownIsCurrent  == Conn!KnownIsCurrent
GoneIsForgotten == Conn!GoneIsForgotten

\* Teams (Teams).
TeamsAreOwned == Team!EveryTeamHasOwner /\ Team!NoOwnerInOrganization
=============================================================================
