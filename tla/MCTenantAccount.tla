--------------------------- MODULE MCTenantAccount ---------------------------
(***************************************************************************)
(* Small instances of TenantAccount: a tenant of two members, all its      *)
(* seats taken, under one of several loads. A load says of which kinds the *)
(* calls are, how many are served at a time, how many are made and how     *)
(* many are cut short.                                                     *)
(***************************************************************************)
EXTENDS TenantAccount

CONSTANTS o1, u1, u2, Loads

VARIABLE load

Load(atOnce, calls, deaths, kinds) ==
    [atOnce |-> atOnce, calls |-> calls, deaths |-> deaths, kinds |-> kinds]

Kinds == {{"staff", "session"}, {"billing", "staff"}, {"billing", "standing"}}
PairsAndSerial ==
    UNION {{Load(2, 2, 1, k), Load(1, 3, 0, k), Load(1, 2, 1, k)} : k \in Kinds}

\* The steps of the calls of a kind.
Steps == [
    billing |-> {"invoice", "charge", "link", "retrieve", "mark", "activate", "invalidate"},
    staff |-> {"hire", "disable", "count", "sync"},
    session |-> {"rotate", "issue", "revoke"},
    standing |-> {"standing", "invalidate"}]

\* Calls are of the load's kinds, customers pay when there are invoices among
\* them, and lookups and dates matter when the standing is. One at a time, a
\* lookup does not overlap a call either.
Within ==
    /\ Cardinality(InFlight) <= load.atOnce
    /\ load.atOnce = 1 => InFlight = {} \/ lookup = Idle
    /\ \A c \in Calls :
        /\ c > load.calls => At(c, "idle")
        /\ call[c].step \in {"idle", "done"} \union UNION {Steps[k] : k \in load.kinds}
    /\ "billing" \notin load.kinds => charges[0] = "INITIATED"
    /\ "standing" \notin load.kinds => lookup = Idle /\ renewal = "ahead" /\ ~ trialOver
    /\ crashes <= load.deaths

MCVars == <<vars, load>>

\* The open invoice buys a seat when members come and go, and a plan else.
MCInit ==
    /\ Init
    /\ load \in Loads
    /\ invoices[0].buys = IF "staff" \in load.kinds THEN "seat" ELSE "plan"
MCNext == UNCHANGED load /\ Next /\ Within'
MCSpec == MCInit /\ [][MCNext]_MCVars
MCFairSpec ==
    /\ MCSpec
    /\ WF_MCVars(UNCHANGED load /\ \E c \in Calls : Step(c))
    /\ WF_MCVars(UNCHANGED load /\ Lookup /\ Within')
    /\ WF_MCVars(UNCHANGED load /\ CacheExpires)

Serial == load.atOnce = 1

\* Served one at a time, the licence is paid for and holds the members, and the
\* next checkout bills every one of them unless a call has died.
SerialSeatsArePaid ==
    Serial => LicenceIsPaid /\ MembersAreLicensed /\ (crashes = 0 => MembersAreBilled)

\* Served one at a time, an old payment lifts no suspension, and blocking and
\* freeing a tenant take effect at once.
SerialSuspensionHolds == [][Serial => SuspensionHolds /\ CacheIsCurrent']_vars

\* Served one at a time, refresh tokens are used once and a logout ends the session.
SerialSessionsEnd == Serial => OneLiveToken /\ LogoutEndsSession
=============================================================================
