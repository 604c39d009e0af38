--------------------------- MODULE AccountSelection ---------------------------
(***************************************************************************)
(* The credential choice of oauth.py by itself: requests choose one after  *)
(* the other, pinned by x-connection-id or not, while accounts are edited, *)
(* tokens expire, refreshes are refused and the process restarts.          *)
(***************************************************************************)
EXTENDS ProviderAccounts

VARIABLES
    last,   \* history: the last choice, with the accounts that had a credential
    run,    \* history: unpinned choices in a row that returned the same account
            \* although another one had a credential
    wait    \* history: unpinned choices since an account with a credential
            \* was last chosen or pins interfered

vars == <<enabled, book, last, run, wait>>

Picks == [prov : Providers, acct : Accounts \cup {Legacy}, from : SUBSET Accounts]
Runs  == [acct : Accounts \cup {Legacy}, n : 0 .. StickyLimit + 1]

\* Bound: waits are counted up to one more than the property allows.
MaxWait  == (Cardinality(Accounts) - 1) * StickyLimit + 1
Sum1(n, max) == IF n < max THEN n + 1 ELSE max

TypeOK ==
    /\ AccountsOK
    /\ last \in Picks /\ run \in [Providers -> Runs]
    /\ wait \in [Accounts -> 0 .. MaxWait]

NoRun == [acct |-> Legacy, n |-> 0]

Init ==
    /\ AccountsInit
    /\ last \in {[prov |-> p, acct |-> Legacy, from |-> {}] : p \in Providers}
    /\ run = [p \in Providers |-> NoRun]
    /\ wait = [a \in Accounts |-> 0]

\* One call of select_provider_credential_with_account.
Chooses(p, pin, granted) ==
    LET from == Offers(book, granted, p)
        a    == Chosen(book, granted, p, pin)
    IN  /\ book' = Recorded(book, p, a)
        /\ last' = [prov |-> p, acct |-> a, from |-> from]
        /\ run' = [run EXCEPT ![p] =
                      IF pin \in from \/ from \ {a} = {} THEN NoRun
                      ELSE [acct |-> a,
                            n |-> IF @.acct = a THEN Sum1(@.n, StickyLimit + 1) ELSE 1]]
        /\ wait' = [c \in Accounts |->
                      IF Owner[c] # p THEN wait[c]
                      ELSE IF c = a \/ c \notin from \/ pin \in from THEN 0
                      ELSE Sum1(wait[c], MaxWait)]
        /\ UNCHANGED enabled

Select(p, pin) == \E granted \in SUBSET Refreshable : Chooses(p, pin, granted)

Disturb(a) == Edit(a) /\ wait' = [wait EXCEPT ![a] = 0] /\ UNCHANGED <<last, run>>

Ages(a)  == Expires(a) /\ UNCHANGED <<last, run, wait>>
Restart  == Restarts /\ UNCHANGED <<last, run, wait>>

Next ==
    \/ \E p \in Providers, pin \in Accounts \cup {Legacy} : Select(p, pin)
    \/ \E a \in Accounts : Disturb(a) \/ Ages(a)
    \/ Restart

Spec == Init /\ [][Next]_vars

-----------------------------------------------------------------------------
(* Properties                                                              *)

\* A request gets an account of its own provider that is enabled and has a
\* credential, and the provider's own key only when there is none ("every
\* candidate's token unresolvable OR empty").
ChoiceIsSound ==
    /\ last.acct = Legacy <=> last.from = {}
    /\ last.acct # Legacy => last.acct \in last.from /\ Owner[last.acct] = last.prov

\* A rotating provider returns the same account at most sticky_round_robin_limit
\* times in a row while another one has a credential, whatever fails, expires
\* or is restarted in between.
StreakBounded == \A p \in Rotating : run[p].n <= StickyLimit

\* No account of a rotating provider that keeps its credential is passed over
\* for longer than all the others take for one streak each.
NoneStarves ==
    \A a \in Accounts :
       Owner[a] \in Rotating =>
          wait[a] <= (Cardinality({c \in Accounts : Owner[c] = Owner[a]}) - 1) * StickyLimit
=============================================================================
