--------------------------- MODULE ProviderAccounts ---------------------------
(***************************************************************************)
(* The accounts of the providers and the choice of a credential among them *)
(* (src/backend/oauth.py).  Everything a choice reads and writes besides    *)
(* the accounts' own settings is one record, the book, so that a handler   *)
(* that chooses several times can thread it from one choice to the next.   *)
(*                                                                         *)
(* Accounts are numbered in the order of (priority, id).  The order of     *)
(* last_used_at is kept as a relation: before any use it is the order of   *)
(* the ids, and a used account becomes the youngest.  The clock is taken to *)
(* advance between two uses.                                               *)
(***************************************************************************)
EXTENDS Integers, FiniteSets

CONSTANTS
    Providers,
    Accounts,       \* numbered in the order of (priority, id)
    Owner,          \* the provider of an account
    Refreshable,    \* accounts with auth_type oauth and a refresh token
    Rotating,       \* providers whose fallback_strategy is round-robin
    StickyLimit     \* sticky_round_robin_limit

\* The credential of the provider itself: no account is charged for it.
Legacy == 0

ASSUME AccountAssumption ==
    /\ Accounts \subseteq Nat \ {Legacy} /\ IsFiniteSet(Accounts)
    /\ Owner \in [Accounts -> Providers]
    /\ Refreshable \subseteq Accounts /\ Rotating \subseteq Providers
    \* clamp_sticky_limit
    /\ StickyLimit \in Nat \ {0}

VARIABLES
    enabled,    \* the accounts whose row is enabled
    book        \* token: what is stored for an account
                \* older: the order of last_used_at
                \* sticky: _STICKY, the uses counted up to the limit

\* An API key is "valid" or, when the column is empty, "none".
Tokens == {"valid", "expired", "none"}

Books ==
    [token  : [Accounts -> Tokens],
     older  : SUBSET (Accounts \X Accounts),
     sticky : [Providers -> [acct : Accounts \cup {Legacy}, uses : 0 .. StickyLimit]]]

AccountsOK == enabled \in SUBSET Accounts /\ book \in Books

NoStreak == [acct |-> Legacy, uses |-> 0]

AccountsInit ==
    /\ enabled = Accounts
    /\ book \in [token  : [Accounts -> {"valid", "none"}],
                 older  : {{e \in Accounts \X Accounts : e[1] < e[2]}},
                 sticky : {[p \in Providers |-> NoStreak]}]

-----------------------------------------------------------------------------
(* One choice.  granted is the set of accounts for which the token endpoint *)
(* grants a refresh, should it be asked.                                   *)

\* get_valid_token returns a credential that is not empty.
Yields(b, granted, a) == b.token[a] = "valid" \/ a \in Refreshable \cap granted

Offers(b, granted, p) ==
    {a \in enabled : Owner[a] = p /\ Yields(b, granted, a)}

\* The sort key of _lru_key.
Oldest(b, S) == CHOOSE a \in S : \A c \in S \ {a} : <<a, c>> \in b.older
First(S)     == CHOOSE a \in S : \A c \in S : a <= c

\* Defect: the streak is one use too long.
OnStreak_OneMore(b, p) == b.sticky[p].uses <= StickyLimit
\* The current account may be returned once more.
OnStreak(b, p)         == b.sticky[p].uses < StickyLimit

\* _round_robin_order and the strategy of the provider: who comes first among
\* the accounts that have a credential.
InTurn(b, p, S) ==
    IF p \notin Rotating THEN First(S)
    ELSE IF OnStreak(b, p) /\ b.sticky[p].acct \in S THEN b.sticky[p].acct
    ELSE Oldest(b, S)

\* Defect: the pin is not looked up among the accounts that have a credential.
PinHolds_Unchecked(b, granted, p, pin) == pin \in enabled
\* preferred_account_id, from the header x-connection-id.
PinHolds(b, granted, p, pin)           == pin \in Offers(b, granted, p)

\* select_provider_credential_with_account
Chosen(b, granted, p, pin) ==
    LET S == Offers(b, granted, p)
    IN  IF S = {} THEN Legacy
        ELSE IF PinHolds(b, granted, p, pin) THEN pin
        ELSE InTurn(b, p, S)

\* Defect: the order of use is not written.
Youngest_Skipped(b, a) == b.older
\* a was used last.
Youngest(b, a) ==
    {e \in b.older : e[1] # a} \cup {<<c, a>> : c \in Accounts \ {a}}

Uses(b, p, a) ==
    IF b.sticky[p].acct # a THEN 1
    ELSE IF OnStreak(b, p) THEN b.sticky[p].uses + 1 ELSE b.sticky[p].uses

\* _record_account_use; a token that had to be refreshed was stored before.
Recorded(b, p, a) ==
    IF a = Legacy THEN b
    ELSE [token  |-> [b.token EXCEPT ![a] = "valid"],
          older  |-> Youngest(b, a),
          sticky |-> IF p \in Rotating
                     THEN [b.sticky EXCEPT ![p] = [acct |-> a, uses |-> Uses(b, p, a)]]
                     ELSE b.sticky]

-----------------------------------------------------------------------------
(* What others do to the accounts.                                         *)

\* PUT /api/accounts/{id}: an account is switched on or off, or its credential
\* is entered or removed.
Edit(a) ==
    \/ /\ enabled' \in {enabled \ {a}, enabled \cup {a}}
       /\ UNCHANGED book
    \/ /\ \E t \in {"valid", "none"} : book' = [book EXCEPT !.token[a] = t]
       /\ UNCHANGED enabled

\* expires_at passes, less a minute.
Expires(a) ==
    /\ a \in Refreshable /\ book.token[a] = "valid"
    /\ book' = [book EXCEPT !.token[a] = "expired"]
    /\ UNCHANGED enabled

\* The process restarts: _STICKY is lost, the database is not.
Restarts ==
    /\ book' = [book EXCEPT !.sticky = [p \in Providers |-> NoStreak]]
    /\ UNCHANGED enabled
=============================================================================
