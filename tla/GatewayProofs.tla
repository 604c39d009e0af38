----------------------------- MODULE GatewayProofs -----------------------------
(***************************************************************************)
(* Proofs about the choice of an account and about what surrounds a call   *)
(* of the gateway, for any number of providers, accounts, calls, turns,    *)
(* health checks, proxy pools and connections.                             *)
(*                                                                         *)
(* What makes a choice well defined is that every set of accounts has an   *)
(* oldest member (Ordered); what bounds a streak is that the account       *)
(* returned last is the youngest of its provider (Streaks); and what       *)
(* bounds a wait is that waiting, being ahead of others and what is left   *)
(* of the current streak add up to one share (Patience).                   *)
(*                                                                         *)
(* Every connection comes back (Connected), and usage, request log and the *)
(* stored answer agree with what became of the call (Accounted).           *)
(* Bookkeeping and StoredIffBilled speak of calls that have ended; what    *)
(* makes them inductive is what holds of a call on its way there.  A pool  *)
(* rotates evenly because whoever's turn comes sooner was not chosen more  *)
(* often (EvenTurns), and a turn is asked with all that was said before it *)
(* because of what the table holds of every turn (Transcript).             *)
(***************************************************************************)
EXTENDS AccountSelection, ChatSessions, FiniteSetTheorems, FunctionTheorems,
        WellFoundedInduction, TLAPS

-----------------------------------------------------------------------------
(* The choice of an account                                                *)

Ordered ==
    \A S \in SUBSET Accounts : S # {} =>
       \E a \in S : \A c \in S \ {a} : <<a, c>> \in book.older

\* No account of p was used after a.
IsYoungest(b, p, a) == \A c \in Accounts : Owner[c] = p => <<a, c>> \notin b.older

\* What the streak of p counts is counted in _STICKY too, unless a restart
\* cleared it.
Streaks ==
    \A p \in Rotating :
       LET k == run[p]
           s == book.sticky[p]
       IN  k.n > 0 =>
              /\ k.acct \in Accounts /\ IsYoungest(book, p, k.acct)
              /\ k.n <= StickyLimit
              /\ s = NoStreak \/ (s.acct = k.acct /\ k.n <= s.uses)

AccountInv == TypeOK /\ Ordered /\ ChoiceIsSound /\ Streaks

-----------------------------------------------------------------------------
(* The operators of a choice.                                              *)

\* A set of numbers that is not empty has a first one.
LEMMA FirstIn ==
  ASSUME NEW S \in SUBSET Accounts, S # {}
  PROVE  First(S) \in S /\ \A c \in S : First(S) <= c
  <1> DEFINE Less == {e \in Nat \X Nat : e[1] < e[2]}
  <1>1. IsWellFoundedOn(Less, Nat)
    BY NatLessThanWellFounded DEF OpToRel
  <1>2. S \subseteq Nat
    BY AccountAssumption
  <1>3. PICK a \in S : \A c \in S : ~(<<c, a>> \in Less)
    <2> HIDE DEF Less
    <2> QED
      BY <1>1, <1>2, WFMin
  <1>4. \A c \in S : a <= c
    <2> SUFFICES ASSUME NEW c \in S PROVE a <= c
      OBVIOUS
    <2>1. a \in Nat /\ c \in Nat /\ <<c, a>> \notin Less
      BY <1>2, <1>3
    <2>2. ~(c < a)
      BY <2>1
    <2> QED
      BY <2>1, <2>2
  <1> QED
    BY <1>4 DEF First

LEMMA OldestIn ==
  ASSUME Ordered, NEW S \in SUBSET Accounts, S # {}
  PROVE  /\ Oldest(book, S) \in S
         /\ \A c \in S \ {Oldest(book, S)} : <<Oldest(book, S), c>> \in book.older
  BY DEF Ordered, Oldest

\* The choice is an account with a credential, or nobody.
LEMMA ChosenSound ==
  ASSUME TypeOK, Ordered, NEW granted, NEW p \in Providers, NEW pin
  PROVE  LET S == Offers(book, granted, p)
             a == Chosen(book, granted, p, pin)
         IN  /\ S \in SUBSET Accounts
             /\ \A c \in S : Owner[c] = p
             /\ S = {} => a = Legacy
             /\ S # {} => a \in S /\ a # Legacy
  <1> DEFINE S == Offers(book, granted, p)
  <1>1. S \in SUBSET Accounts /\ \A c \in S : Owner[c] = p
    BY DEF TypeOK, AccountsOK, Offers
  <1>2. Legacy \notin S
    BY <1>1, AccountAssumption
  <1>3. S # {} => First(S) \in S /\ Oldest(book, S) \in S
    BY <1>1, FirstIn, OldestIn
  <1> QED
    BY <1>1, <1>2, <1>3 DEF Chosen, InTurn, PinHolds

\* What one choice does to the book.
LEMMA RecordedOK ==
  ASSUME TypeOK, NEW p \in Providers, NEW a \in Accounts \cup {Legacy}
  PROVE  Recorded(book, p, a) \in Books
  <1>1. CASE a = Legacy
    BY <1>1 DEF TypeOK, AccountsOK, Recorded
  <1>2. CASE a \in Accounts /\ a # Legacy
    <2>1. Uses(book, p, a) \in 0 .. StickyLimit
      BY AccountAssumption DEF TypeOK, AccountsOK, Books, Uses, OnStreak
    <2>2. Youngest(book, a) \in SUBSET (Accounts \X Accounts)
      BY <1>2 DEF TypeOK, AccountsOK, Books, Youngest
    <2>3. [book.token EXCEPT ![a] = "valid"] \in [Accounts -> Tokens]
      BY DEF TypeOK, AccountsOK, Books, Tokens
    <2>4. [book.sticky EXCEPT ![p] = [acct |-> a, uses |-> Uses(book, p, a)]]
             \in [Providers -> [acct : Accounts \cup {Legacy}, uses : 0 .. StickyLimit]]
      BY <2>1 DEF TypeOK, AccountsOK, Books
    <2> QED
      BY <1>2, <2>2, <2>3, <2>4 DEF TypeOK, AccountsOK, Books, Recorded
  <1> QED
    BY <1>1, <1>2

LEMMA YoungestOrdered ==
  ASSUME TypeOK, Ordered, NEW a \in Accounts, book'.older = Youngest(book, a)
  PROVE  Ordered'
  <1> SUFFICES ASSUME NEW S \in SUBSET Accounts, S # {}
               PROVE  \E m \in S : \A c \in S \ {m} : <<m, c>> \in book'.older
    BY DEF Ordered
  <1>1. CASE S = {a}
    BY <1>1
  <1>2. CASE S # {a}
    <2>1. PICK m \in S \ {a} : \A c \in (S \ {a}) \ {m} : <<m, c>> \in book.older
      BY <1>2 DEF Ordered
    <2>2. \A c \in S \ {m} : <<m, c>> \in book'.older
      BY <2>1 DEF Youngest
    <2> QED
      BY <2>1, <2>2
  <1> QED
    BY <1>1, <1>2

-----------------------------------------------------------------------------
(* The initial states.                                                     *)

LEMMA MaxWaitType == Accounts # {} => MaxWait \in Nat \ {0}
  <1> SUFFICES ASSUME Accounts # {} PROVE MaxWait \in Nat \ {0}
    OBVIOUS
  <1>1. Cardinality(Accounts) \in Nat /\ Cardinality(Accounts) # 0
    BY AccountAssumption, FS_CardinalityType, FS_EmptySet
  <1>2. \A m, n \in Nat : m * n \in Nat
    OBVIOUS
  <1>3. (Cardinality(Accounts) - 1) * StickyLimit \in Nat
    BY <1>1, <1>2, AccountAssumption
  <1> QED
    BY <1>3 DEF MaxWait

LEMMA InitInductive == Init => AccountInv
  <1> SUFFICES ASSUME Init PROVE AccountInv
    OBVIOUS
  <1> USE DEF Init, AccountsInit
  <1>1. book.older = {e \in Accounts \X Accounts : e[1] < e[2]}
        /\ book.sticky = [p \in Providers |-> NoStreak]
        /\ book.token \in [Accounts -> {"valid", "none"}]
    OBVIOUS
  <1>2. book \in Books
    <2>1. NoStreak \in [acct : Accounts \cup {Legacy}, uses : 0 .. StickyLimit]
      BY AccountAssumption DEF NoStreak
    <2>2. book.token \in [Accounts -> Tokens]
      BY <1>1 DEF Tokens
    <2>3. book.older \in SUBSET (Accounts \X Accounts)
      BY <1>1
    <2> QED
      BY <1>1, <2>1, <2>2, <2>3 DEF Books
  <1>3. TypeOK
    <2>1. last \in Picks
      BY DEF Picks
    <2>2. run \in [Providers -> Runs]
      <3>1. NoRun \in Runs
        BY AccountAssumption DEF NoRun, Runs
      <3> QED
        BY <3>1
    <2>3. wait \in [Accounts -> 0 .. MaxWait]
      BY MaxWaitType
    <2> QED
      BY <1>2, <2>1, <2>2, <2>3 DEF TypeOK, AccountsOK
  <1>4. Ordered
    <2> SUFFICES ASSUME NEW S \in SUBSET Accounts, S # {}
                 PROVE  \E a \in S : \A c \in S \ {a} : <<a, c>> \in book.older
      BY DEF Ordered
    <2>1. First(S) \in S /\ \A c \in S : First(S) <= c
      BY FirstIn
    <2>2. \A c \in S \ {First(S)} : <<First(S), c>> \in book.older
      <3> SUFFICES ASSUME NEW c \in S \ {First(S)} PROVE <<First(S), c>> \in book.older
        OBVIOUS
      <3>1. First(S) \in Nat /\ c \in Nat /\ First(S) <= c /\ First(S) # c
        BY <2>1, AccountAssumption
      <3>2. First(S) < c
        BY <3>1
      <3> QED
        BY <1>1, <2>1, <3>2
    <2> QED
      BY <2>1, <2>2
  <1>5. ChoiceIsSound
    BY DEF ChoiceIsSound
  <1>6. Streaks
    BY AccountAssumption DEF Streaks, NoRun
  <1> QED
    BY <1>3, <1>4, <1>5, <1>6 DEF AccountInv

-----------------------------------------------------------------------------
(* One choice.                                                             *)

\* A use of a counts towards its streak.
LEMMA UsesCount ==
  ASSUME TypeOK, NEW p \in Providers, NEW a \in Accounts
  PROVE  /\ Uses(book, p, a) >= 1
         /\ book.sticky[p].acct = a /\ book.sticky[p].uses < StickyLimit =>
               Uses(book, p, a) = book.sticky[p].uses + 1
  BY AccountAssumption DEF TypeOK, AccountsOK, Books, Uses, OnStreak

LEMMA ChoiceTypes ==
  ASSUME AccountInv, NEW p \in Providers, NEW pin, NEW granted, Chooses(p, pin, granted)
  PROVE  TypeOK'
  <1> USE DEF AccountInv
  <1> DEFINE from == Offers(book, granted, p)
             a    == Chosen(book, granted, p, pin)
  <1>1. a \in Accounts \cup {Legacy} /\ from \in SUBSET Accounts
    BY ChosenSound
  <1> HIDE DEF from, a
  <1>2. book' \in Books
    BY <1>1, RecordedOK DEF Chooses, from, a
  <1>3. last' \in Picks
    BY <1>1 DEF Picks, Chooses, from, a
  <1>4. run' \in [Providers -> Runs]
    <2>1. NoRun \in Runs
      BY AccountAssumption DEF NoRun, Runs
    <2>2. run[p].n \in 0 .. StickyLimit + 1
      BY DEF TypeOK, Runs
    <2>3. [acct |-> a, n |-> IF run[p].acct = a THEN Sum1(run[p].n, StickyLimit + 1) ELSE 1] \in Runs
      BY <1>1, <2>2, AccountAssumption DEF Runs, Sum1
    <2> QED
      BY <2>1, <2>3 DEF TypeOK, Chooses, from, a
  <1>5. wait' \in [Accounts -> 0 .. MaxWait]
    <2> SUFFICES ASSUME NEW c \in Accounts
                 PROVE  /\ wait[c] \in 0 .. MaxWait
                        /\ 0 \in 0 .. MaxWait
                        /\ Sum1(wait[c], MaxWait) \in 0 .. MaxWait
      BY DEF Chooses, from, a
    <2>1. MaxWait \in Nat \ {0}
      BY MaxWaitType
    <2>2. wait[c] \in 0 .. MaxWait
      BY DEF TypeOK
    <2> QED
      BY <2>1, <2>2 DEF Sum1
  <1> QED
    BY <1>2, <1>3, <1>4, <1>5 DEF TypeOK, AccountsOK, Chooses

LEMMA ChoiceOrders ==
  ASSUME AccountInv, NEW p \in Providers, NEW pin, NEW granted, Chooses(p, pin, granted)
  PROVE  Ordered' /\ ChoiceIsSound'
  <1> USE DEF AccountInv
  <1> DEFINE from == Offers(book, granted, p)
             a    == Chosen(book, granted, p, pin)
  <1>1. /\ from \in SUBSET Accounts /\ \A c \in from : Owner[c] = p
        /\ from = {} => a = Legacy
        /\ from # {} => a \in from /\ a # Legacy
    BY ChosenSound
  <1> HIDE DEF from, a
  <1>2. Ordered'
    <2>1. CASE a = Legacy
      BY <2>1 DEF Chooses, Recorded, Ordered, from, a
    <2>2. CASE a # Legacy
      <3>1. a \in Accounts /\ book'.older = Youngest(book, a)
        BY <1>1, <2>2 DEF Chooses, Recorded, from, a
      <3> QED
        BY <3>1, YoungestOrdered
    <2> QED
      BY <2>1, <2>2
  <1>3. ChoiceIsSound'
    BY <1>1 DEF Chooses, ChoiceIsSound, from, a
  <1> QED
    BY <1>2, <1>3

\* An unpinned choice among several accounts continues the streak that
\* _STICKY counts, or begins one with the account used least recently.
LEMMA ChoiceStreaks ==
  ASSUME AccountInv, NEW p \in Providers, NEW pin, NEW granted, Chooses(p, pin, granted)
  PROVE  Streaks'
  <1> USE DEF AccountInv
  <1> DEFINE from == Offers(book, granted, p)
             a    == Chosen(book, granted, p, pin)
  <1>1. /\ from \in SUBSET Accounts /\ \A c \in from : Owner[c] = p
        /\ from = {} => a = Legacy
        /\ from # {} => a \in from /\ a # Legacy
    BY ChosenSound
  <1>2. book' = Recorded(book, p, a)
    BY DEF Chooses
  <1>3. pin \notin from => a = IF from = {} THEN Legacy ELSE InTurn(book, p, from)
    BY DEF Chosen, PinHolds
  <1>4. run' = [run EXCEPT ![p] =
                   IF pin \in from \/ from \ {a} = {} THEN NoRun
                   ELSE [acct |-> a,
                         n |-> IF @.acct = a THEN Sum1(@.n, StickyLimit + 1) ELSE 1]]
    BY DEF Chooses
  <1> HIDE DEF from, a
  <1> SUFFICES ASSUME NEW q \in Rotating, run'[q].n > 0
               PROVE  /\ run'[q].acct \in Accounts /\ IsYoungest(book', q, run'[q].acct)
                      /\ run'[q].n <= StickyLimit
                      /\ \/ book'.sticky[q] = NoStreak
                         \/ /\ book'.sticky[q].acct = run'[q].acct
                            /\ run'[q].n <= book'.sticky[q].uses
    BY DEF Streaks
  <1>5. CASE q # p
    <2>1. run'[q] = run[q]
      BY <1>4, <1>5, AccountAssumption DEF TypeOK
    <2>2. book'.sticky[q] = book.sticky[q]
      BY <1>2, <1>5, AccountAssumption DEF TypeOK, AccountsOK, Books, Recorded
    <2>3. IsYoungest(book, q, run[q].acct)
      BY <2>1 DEF Streaks
    <2>4. IsYoungest(book', q, run[q].acct)
      <3>1. CASE a = Legacy
        BY <1>2, <2>3, <3>1 DEF IsYoungest, Recorded
      <3>2. CASE a # Legacy
        <4>1. book'.older = Youngest(book, a) /\ Owner[a] = p
          BY <1>1, <1>2, <3>2 DEF Recorded
        <4> QED
          BY <1>5, <2>3, <4>1 DEF IsYoungest, Youngest
      <3> QED
        BY <3>1, <3>2
    <2> QED
      BY <2>1, <2>2, <2>4 DEF Streaks
  <1>6. CASE q = p
    <2>1. pin \notin from /\ from \ {a} # {}
      BY <1>4, <1>6 DEF TypeOK, NoRun
    <2>2. a \in from /\ a # Legacy /\ a \in Accounts
      BY <1>1, <2>1
    <2>3. run'[p] = [acct |-> a,
                     n |-> IF run[p].acct = a THEN Sum1(run[p].n, StickyLimit + 1) ELSE 1]
      BY <1>4, <2>1 DEF TypeOK
    <2>4. IsYoungest(book', p, a)
      BY <1>2, <2>2 DEF IsYoungest, Recorded, Youngest
    <2>5. book'.sticky[p] = [acct |-> a, uses |-> Uses(book, p, a)]
      BY <1>2, <1>6, <2>2 DEF TypeOK, AccountsOK, Books, Recorded
    <2>6. Uses(book, p, a) \in 0 .. StickyLimit /\ Uses(book, p, a) >= 1
      BY <2>2, UsesCount, AccountAssumption
         DEF TypeOK, AccountsOK, Books, Uses, OnStreak
    <2>7. run[p].n \in 0 .. StickyLimit + 1
      BY DEF TypeOK, Runs
    <2>8. CASE run[p].acct = a /\ run[p].n > 0
      <3>1. IsYoungest(book, p, a)
        BY <1>6, <2>8 DEF Streaks
      <3>2. a # Oldest(book, from)
        BY <1>1, <2>1, <2>2, <3>1, OldestIn DEF IsYoungest
      <3>3. a = book.sticky[p].acct /\ book.sticky[p].uses < StickyLimit
        BY <1>3, <1>6, <2>1, <2>2, <3>2 DEF InTurn, OnStreak
      <3>4. run[p].n <= book.sticky[p].uses
        BY <1>6, <2>2, <2>8, <3>3 DEF Streaks, NoStreak
      <3>5. Uses(book, p, a) = book.sticky[p].uses + 1
        BY <2>2, <3>3, UsesCount
      <3>6. book.sticky[p].uses \in 0 .. StickyLimit
        BY DEF TypeOK, AccountsOK, Books
      <3>7. run'[p].n = run[p].n + 1
        BY <2>3, <2>7, <2>8, <3>3, <3>4, <3>6, AccountAssumption DEF Sum1
      <3> QED
        BY <1>6, <2>2, <2>3, <2>4, <2>5, <2>7, <3>3, <3>4, <3>5, <3>6, <3>7, AccountAssumption
    <2>9. CASE run[p].acct # a \/ run[p].n = 0
      <3>1. run'[p].n = 1
        BY <2>3, <2>7, <2>9, AccountAssumption DEF Sum1
      <3> QED
        BY <1>6, <2>2, <2>3, <2>4, <2>5, <2>6, <3>1, AccountAssumption
    <2> QED
      BY <2>7, <2>8, <2>9
  <1> QED
    BY <1>5, <1>6

-----------------------------------------------------------------------------
(* The other steps: they leave the order of use alone, and _STICKY too or  *)
(* they clear it.                                                          *)

LEMMA EditTypes ==
  ASSUME TypeOK, NEW a \in Accounts, Edit(a) \/ Expires(a)
  PROVE  /\ AccountsOK'
         /\ book'.older = book.older /\ book'.sticky = book.sticky
  <1> USE DEF TypeOK, AccountsOK, Books
  <1>1. CASE enabled' \in {enabled \ {a}, enabled \cup {a}} /\ book' = book
    BY <1>1
  <1>2. ASSUME NEW t \in Tokens, book' = [book EXCEPT !.token[a] = t], enabled' = enabled
        PROVE  /\ AccountsOK'
               /\ book'.older = book.older /\ book'.sticky = book.sticky
    <2>1. [book.token EXCEPT ![a] = t] \in [Accounts -> Tokens]
      OBVIOUS
    <2>2. book' = [book EXCEPT !.token = [book.token EXCEPT ![a] = t]]
      BY <1>2
    <2> QED
      BY <1>2, <2>1, <2>2
  <1> QED
    BY <1>1, <1>2 DEF Edit, Expires, Tokens

LEMMA Invariance ==
  ASSUME AccountInv, [Next]_vars
  PROVE  AccountInv'
  <1> USE DEF AccountInv
  <1>1. ASSUME NEW p \in Providers, NEW pin, Select(p, pin)
        PROVE  AccountInv'
    <2>1. PICK granted \in SUBSET Refreshable : Chooses(p, pin, granted)
      BY <1>1 DEF Select
    <2> QED
      BY <2>1, ChoiceTypes, ChoiceOrders, ChoiceStreaks
  <1>2. ASSUME NEW a \in Accounts, Disturb(a) \/ Ages(a)
        PROVE  AccountInv'
    <2>1. /\ AccountsOK'
          /\ book'.older = book.older /\ book'.sticky = book.sticky
          /\ last' = last /\ run' = run
      BY <1>2, EditTypes DEF Disturb, Ages
    <2>2. wait' \in [Accounts -> 0 .. MaxWait]
      <3>1. 0 \in 0 .. MaxWait
        BY MaxWaitType
      <3> QED
        BY <1>2, <3>1 DEF Disturb, Ages, TypeOK
    <2>3. TypeOK'
      BY <2>1, <2>2 DEF TypeOK
    <2>4. Ordered'
      BY <2>1 DEF Ordered
    <2>5. ChoiceIsSound'
      BY <2>1 DEF ChoiceIsSound
    <2>6. Streaks'
      BY <2>1 DEF Streaks, IsYoungest
    <2> QED
      BY <2>3, <2>4, <2>5, <2>6
  <1>3. CASE Restart
    <2>1. /\ book' = [book EXCEPT !.sticky = [p \in Providers |-> NoStreak]]
          /\ UNCHANGED <<enabled, last, run, wait>>
      BY <1>3 DEF Restart, Restarts
    <2>2. AccountsOK'
      <3>1. NoStreak \in [acct : Accounts \cup {Legacy}, uses : 0 .. StickyLimit]
        BY AccountAssumption DEF NoStreak
      <3> QED
        BY <2>1, <3>1 DEF TypeOK, AccountsOK, Books
    <2>3. book'.older = book.older /\ \A p \in Rotating : book'.sticky[p] = NoStreak
      BY <2>1, AccountAssumption DEF TypeOK, AccountsOK, Books
    <2>4. TypeOK'
      BY <2>1, <2>2 DEF TypeOK
    <2>5. Ordered'
      BY <2>3 DEF Ordered
    <2>6. ChoiceIsSound'
      BY <2>1 DEF ChoiceIsSound
    <2>7. Streaks'
      BY <2>1, <2>3 DEF Streaks, IsYoungest
    <2> QED
      BY <2>4, <2>5, <2>6, <2>7
  <1>4. CASE UNCHANGED vars
    BY <1>4 DEF vars, TypeOK, AccountsOK, Ordered, ChoiceIsSound, Streaks, IsYoungest
  <1> QED
    BY <1>1, <1>2, <1>3, <1>4 DEF Next

-----------------------------------------------------------------------------
(* Theorems                                                                *)

\* The four parts of the invariant hold in every state.
THEOREM Inductive == Spec => []AccountInv
  <1> QED
    BY InitInductive, Invariance, PTL DEF Spec

\* Every row, order and streak counter keeps its type: in particular _STICKY
\* never counts beyond the limit.
THEOREM TypeCorrect == Spec => []TypeOK
  <1>1. AccountInv => TypeOK
    BY DEF AccountInv
  <1> QED
    BY <1>1, Inductive, PTL

\* select_provider_credential_with_account returns an enabled account of the
\* provider with a credential whenever there is one, and nothing else.
THEOREM ChoiceSound == Spec => []ChoiceIsSound
  <1>1. AccountInv => ChoiceIsSound
    BY DEF AccountInv
  <1> QED
    BY <1>1, Inductive, PTL

\* A rotating provider returns no account more than sticky_round_robin_limit
\* times in a row while another one has a credential, for any number of
\* providers and accounts and any limit.
THEOREM StreakBound == Spec => []StreakBounded
  <1>1. AccountInv => StreakBounded
    <2> SUFFICES ASSUME AccountInv, NEW p \in Rotating PROVE run[p].n <= StickyLimit
      BY DEF StreakBounded
    <2>1. run[p].n \in Nat
      BY AccountAssumption DEF AccountInv, TypeOK, Runs
    <2>2. run[p].n > 0 => run[p].n <= StickyLimit
      BY DEF AccountInv, Streaks
    <2> QED
      BY <2>1, <2>2, AccountAssumption
  <1> QED
    BY <1>1, Inductive, PTL


-----------------------------------------------------------------------------
(* Waiting.  What an account can still have to wait for is bounded by a sum *)
(* that a choice of another account never increases: the turns it waited,  *)
(* a whole streak for every account of the provider that was used before   *)
(* it, and what is left of the streak under way.                           *)

Own(p) == {c \in Accounts : Owner[c] = p}

\* The accounts of its provider whose last use lies before that of a.
Ahead(b, a) == {c \in Own(Owner[a]) \ {a} : <<c, a>> \in b.older}

\* The uses the streak under way can still take before a is reached.
Left(b, a) ==
    LET s == b.sticky[Owner[a]]
    IN  IF s.acct \in Accounts \ {a} THEN StickyLimit - s.uses ELSE 0

\* The account _STICKY names is the one used last.
StreakIsYoungest(b) ==
    \A p \in Rotating :
       LET c == b.sticky[p].acct
       IN  c # Legacy => c \in Own(p) /\ IsYoungest(b, p, c)

Share(a) == (Cardinality(Own(Owner[a])) - 1) * StickyLimit

Patience ==
    \A a \in Accounts : Owner[a] \in Rotating =>
       wait[a] + StickyLimit * Cardinality(Ahead(book, a)) + Left(book, a) <= Share(a)

LEMMA AheadCounts ==
  ASSUME NEW b, NEW a \in Accounts
  PROVE  /\ IsFiniteSet(Ahead(b, a)) /\ Cardinality(Ahead(b, a)) \in Nat
         /\ IsFiniteSet(Own(Owner[a])) /\ Cardinality(Own(Owner[a])) \in Nat
  <1>1. IsFiniteSet(Own(Owner[a]))
    BY AccountAssumption, FS_Subset DEF Own
  <1>2. Ahead(b, a) \subseteq Own(Owner[a])
    BY DEF Ahead
  <1> QED
    BY <1>1, <1>2, FS_Subset, FS_CardinalityType

LEMMA LeftType ==
  ASSUME NEW b \in Books, NEW a \in Accounts
  PROVE  Left(b, a) \in 0 .. StickyLimit
  <1>1. b.sticky[Owner[a]].uses \in 0 .. StickyLimit
    BY AccountAssumption DEF Books
  <1> QED
    BY <1>1, AccountAssumption DEF Left

\* An account that has not waited at all has no more than its share before it.
LEMMA Room ==
  ASSUME NEW b \in Books, StreakIsYoungest(b), NEW a \in Accounts, Owner[a] \in Rotating
  PROVE  StickyLimit * Cardinality(Ahead(b, a)) + Left(b, a) <= Share(a)
  <1> DEFINE k == Cardinality(Own(Owner[a]))
             n == Cardinality(Ahead(b, a))
             s == b.sticky[Owner[a]]
  <1>1. k \in Nat /\ n \in Nat /\ IsFiniteSet(Own(Owner[a]))
    BY AheadCounts
  <1>2. /\ IsFiniteSet(Own(Owner[a]) \ {a})
        /\ Cardinality(Own(Owner[a]) \ {a}) = k - 1
    BY <1>1, FS_RemoveElement DEF Own
  <1>3. StickyLimit \in Nat /\ s.uses \in 0 .. StickyLimit
    BY AccountAssumption DEF Books
  <1>4. Share(a) = (k - 1) * StickyLimit
    BY DEF Share
  <1>5. CASE s.acct \in Accounts \ {a}
    <2>1. s.acct # Legacy
      BY <1>5, AccountAssumption
    <2>2. s.acct \in Own(Owner[a]) \ {a} /\ IsYoungest(b, Owner[a], s.acct)
      BY <1>5, <2>1 DEF StreakIsYoungest
    <2>3. Ahead(b, a) \subseteq (Own(Owner[a]) \ {a}) \ {s.acct}
      BY <2>2 DEF Ahead, IsYoungest
    <2>4. /\ IsFiniteSet((Own(Owner[a]) \ {a}) \ {s.acct})
          /\ Cardinality((Own(Owner[a]) \ {a}) \ {s.acct}) = k - 1 - 1
      BY <1>2, <2>2, FS_RemoveElement
    <2>5. n <= k - 1 - 1
      BY <2>3, <2>4, FS_Subset
    <2>6. Left(b, a) = StickyLimit - s.uses
      BY <1>5 DEF Left
    <2> HIDE DEF k, n, s
    <2>7. n + 1 <= k - 1
      BY <1>1, <2>5
    <2>8. StickyLimit * (n + 1) <= (k - 1) * StickyLimit
      BY <1>1, <1>3, <2>7
    <2>9. StickyLimit * n + StickyLimit <= (k - 1) * StickyLimit
      BY <1>1, <1>3, <2>8
    <2>10. StickyLimit * n + (StickyLimit - s.uses) <= (k - 1) * StickyLimit
      BY <1>1, <1>3, <2>9
    <2> QED
      BY <1>4, <2>6, <2>10 DEF n
  <1>6. CASE s.acct \notin Accounts \ {a}
    <2>1. Left(b, a) = 0
      BY <1>6 DEF Left
    <2>2. Ahead(b, a) \subseteq Own(Owner[a]) \ {a}
      BY DEF Ahead
    <2>3. n <= k - 1
      BY <1>2, <2>2, FS_Subset
    <2> HIDE DEF k, n, s
    <2>4. StickyLimit * n <= (k - 1) * StickyLimit
      BY <1>1, <1>3, <2>3
    <2>5. StickyLimit * n + 0 <= (k - 1) * StickyLimit
      BY <1>1, <1>3, <2>4
    <2> QED
      BY <1>4, <2>1, <2>5 DEF n
  <1> QED
    BY <1>5, <1>6

\* Whoever is chosen is the youngest of its provider from then on.
LEMMA StreakFollows ==
  ASSUME TypeOK, Ordered, StreakIsYoungest(book),
         NEW p \in Providers, NEW a \in Accounts \cup {Legacy}, a # Legacy => Owner[a] = p
  PROVE  StreakIsYoungest(Recorded(book, p, a))
  <1> DEFINE b == Recorded(book, p, a)
  <1>1. CASE a = Legacy
    BY <1>1 DEF Recorded
  <1>2. CASE a # Legacy
    <2>1. a \in Accounts /\ b.older = Youngest(book, a) /\ Owner[a] = p
      BY <1>2 DEF Recorded
    <2>2. ASSUME NEW q \in Rotating, b.sticky[q].acct # Legacy
          PROVE  b.sticky[q].acct \in Own(q) /\ IsYoungest(b, q, b.sticky[q].acct)
      <3>1. CASE q = p
        <4>1. b.sticky[q].acct = a
          BY <1>2, <3>1 DEF Recorded, TypeOK, AccountsOK, Books
        <4>2. IsYoungest(b, q, a)
          BY <2>1 DEF IsYoungest, Youngest
        <4> QED
          BY <2>1, <3>1, <4>1, <4>2 DEF Own
      <3>2. CASE q # p
        <4>1. b.sticky[q] = book.sticky[q]
          BY <1>2, <3>2, AccountAssumption DEF Recorded, TypeOK, AccountsOK, Books
        <4>2. book.sticky[q].acct \in Own(q) /\ IsYoungest(book, q, book.sticky[q].acct)
          BY <2>2, <4>1 DEF StreakIsYoungest
        <4> HIDE DEF b
        <4>3. IsYoungest(b, q, book.sticky[q].acct)
          BY <2>1, <3>2, <4>2 DEF IsYoungest, Youngest, Own
        <4> QED
          BY <4>1, <4>2, <4>3
      <3> QED
        BY <3>1, <3>2
    <2> HIDE DEF b
    <2>3. StreakIsYoungest(b)
      BY <2>2 DEF StreakIsYoungest
    <2> QED
      BY <2>3 DEF b
  <1> QED
    BY <1>1, <1>2

\* A choice of another account that could have been the turn of a: the streak
\* goes on, or one of the accounts ahead of a has begun its own.
LEMMA TurnPasses ==
  ASSUME TypeOK, Ordered, StreakIsYoungest(book),
         NEW p \in Rotating, NEW S \in SUBSET Accounts, \A x \in S : Owner[x] = p,
         NEW a \in S, NEW c \in S \ {a}, c = InTurn(book, p, S)
  PROVE  LET b == Recorded(book, p, c)
         IN  1 + StickyLimit * Cardinality(Ahead(b, a)) + Left(b, a)
                <= StickyLimit * Cardinality(Ahead(book, a)) + Left(book, a)
  <1> DEFINE b == Recorded(book, p, c)
             s == book.sticky[p]
  <1>1. /\ a \in Accounts /\ c \in Accounts /\ c # Legacy /\ p \in Providers
        /\ Owner[a] = p /\ Owner[c] = p
    BY AccountAssumption
  <1>2. s.uses \in 0 .. StickyLimit /\ StickyLimit \in Nat \ {0}
    BY <1>1, AccountAssumption DEF TypeOK, AccountsOK, Books
  <1>3. b.older = Youngest(book, c) /\ b.sticky[p] = [acct |-> c, uses |-> Uses(book, p, c)]
    BY <1>1 DEF Recorded, TypeOK, AccountsOK, Books
  <1>4. Ahead(b, a) = Ahead(book, a) \ {c}
    BY <1>1, <1>3 DEF Ahead, Youngest, Own
  <1>5. Left(b, a) = StickyLimit - Uses(book, p, c)
    BY <1>1, <1>3 DEF Left
  <1>6. /\ Cardinality(Ahead(book, a)) \in Nat /\ IsFiniteSet(Ahead(book, a))
        /\ Cardinality(Ahead(b, a)) \in Nat
    BY <1>1, AheadCounts
  <1>7. CASE OnStreak(book, p) /\ s.acct \in S
    <2>1. c = s.acct /\ s.uses < StickyLimit
      BY <1>7 DEF InTurn, OnStreak
    <2>2. Uses(book, p, c) = s.uses + 1
      BY <2>1 DEF Uses, OnStreak
    <2>3. IsYoungest(book, p, c)
      BY <1>1, <2>1 DEF StreakIsYoungest
    <2>4. c \notin Ahead(book, a)
      BY <1>1, <2>3 DEF Ahead, IsYoungest
    <2>5. Ahead(b, a) = Ahead(book, a)
      BY <1>4, <2>4
    <2>6. Left(book, a) = StickyLimit - s.uses
      BY <1>1, <2>1 DEF Left
    <2> DEFINE n == StickyLimit * Cardinality(Ahead(book, a))
    <2>7. n \in Nat
      BY <1>2, <1>6
    <2> HIDE DEF n, b, s
    <2>8. 1 + n + (StickyLimit - (s.uses + 1)) <= n + (StickyLimit - s.uses)
      BY <1>2, <2>7
    <2> QED
      BY <1>5, <2>2, <2>5, <2>6, <2>8 DEF n, b
  <1>8. CASE ~ (OnStreak(book, p) /\ s.acct \in S)
    <2>1. c = Oldest(book, S)
      BY <1>8 DEF InTurn
    <2>2. <<c, a>> \in book.older
      BY <2>1, OldestIn
    <2>3. c \in Ahead(book, a)
      BY <1>1, <2>2 DEF Ahead, Own
    <2>4. Cardinality(Ahead(b, a)) = Cardinality(Ahead(book, a)) - 1
      <3>1. Cardinality(Ahead(book, a) \ {c}) = Cardinality(Ahead(book, a)) - 1
        BY <1>6, <2>3, FS_RemoveElement
      <3> HIDE DEF b
      <3> QED
        BY <1>4, <3>1
    <2>5. c # s.acct
      <3>1. s.acct # Legacy => IsYoungest(book, p, s.acct)
        BY DEF StreakIsYoungest
      <3> QED
        BY <1>1, <2>2, <3>1 DEF IsYoungest
    <2>6. Uses(book, p, c) = 1
      BY <2>5 DEF Uses
    <2>7. Left(book, a) \in Nat
      BY <1>1, <1>2, LeftType DEF TypeOK, AccountsOK
    <2> DEFINE n == Cardinality(Ahead(book, a))
               l == Left(book, a)
    <2> HIDE DEF n, l, b, s
    <2>8. StickyLimit * (n - 1) = StickyLimit * n - StickyLimit /\ StickyLimit * n \in Nat
      BY <1>2, <1>6 DEF n
    <2>9. 1 + StickyLimit * (n - 1) + (StickyLimit - 1) <= StickyLimit * n + l
      BY <1>2, <2>7, <2>8 DEF l
    <2> QED
      BY <1>5, <2>4, <2>6, <2>9 DEF n, l, b
  <1> QED
    BY <1>7, <1>8

LEMMA ChoicePatience ==
  ASSUME AccountInv, AccountInv', StreakIsYoungest(book), Patience,
         NEW p \in Providers, NEW pin, NEW granted, Chooses(p, pin, granted)
  PROVE  StreakIsYoungest(book') /\ Patience'
  <1> DEFINE from == Offers(book, granted, p)
             c    == Chosen(book, granted, p, pin)
  <1>1. /\ from \in SUBSET Accounts /\ \A x \in from : Owner[x] = p
        /\ from = {} => c = Legacy
        /\ from # {} => c \in from /\ c # Legacy
    BY ChosenSound DEF AccountInv
  <1>2. book' = Recorded(book, p, c)
    BY DEF Chooses
  <1>3. pin \notin from => c = IF from = {} THEN Legacy ELSE InTurn(book, p, from)
    BY DEF Chosen, PinHolds
  <1>4. \A a \in Accounts :
           wait'[a] = IF Owner[a] # p THEN wait[a]
                      ELSE IF a = c \/ a \notin from \/ pin \in from THEN 0
                      ELSE Sum1(wait[a], MaxWait)
    BY DEF Chooses
  <1> HIDE DEF from, c
  <1>5. c \in Accounts \cup {Legacy} /\ (c # Legacy => Owner[c] = p)
    BY <1>1
  <1>6. StreakIsYoungest(book')
    BY <1>2, <1>5, StreakFollows DEF AccountInv
  <1>7. book \in Books /\ book' \in Books
    BY DEF AccountInv, TypeOK, AccountsOK
  <1>8. ASSUME NEW a \in Accounts, Owner[a] \in Rotating
        PROVE  wait'[a] + StickyLimit * Cardinality(Ahead(book', a)) + Left(book', a) <= Share(a)
    <2> DEFINE n1 == StickyLimit * Cardinality(Ahead(book', a))
               n0 == StickyLimit * Cardinality(Ahead(book, a))
    <2>1. /\ n0 \in Nat /\ n1 \in Nat /\ Left(book, a) \in Nat /\ Left(book', a) \in Nat
          /\ wait[a] \in Nat
      <3>1. Cardinality(Ahead(book, a)) \in Nat /\ Cardinality(Ahead(book', a)) \in Nat
        BY AheadCounts
      <3>2. Left(book, a) \in 0 .. StickyLimit /\ Left(book', a) \in 0 .. StickyLimit
        BY <1>7, LeftType
      <3>3. wait[a] \in 0 .. MaxWait
        BY DEF AccountInv, TypeOK
      <3>4. MaxWait \in Nat
        BY MaxWaitType
      <3> QED
        BY <3>1, <3>2, <3>3, <3>4, AccountAssumption
    <2>2. wait[a] + n0 + Left(book, a) <= Share(a)
      BY <1>8 DEF Patience
    <2>3. CASE Owner[a] # p
      <3>1. Ahead(book', a) = Ahead(book, a)
        <4>1. CASE c = Legacy
          BY <1>2, <4>1 DEF Recorded
        <4>2. CASE c # Legacy
          <5>1. book'.older = Youngest(book, c) /\ Owner[c] = p
            BY <1>2, <1>5, <4>2 DEF Recorded
          <5> QED
            BY <2>3, <5>1 DEF Ahead, Own, Youngest
        <4> QED
          BY <4>1, <4>2
      <3>2. book'.sticky[Owner[a]] = book.sticky[Owner[a]]
        BY <1>2, <1>7, <2>3, AccountAssumption DEF Recorded, Books
      <3>3. Left(book', a) = Left(book, a)
        BY <3>2 DEF Left
      <3>4. wait'[a] = wait[a]
        BY <1>4, <2>3
      <3> QED
        BY <2>2, <3>1, <3>3, <3>4
    <2>4. CASE wait'[a] = 0
      <3>1. n1 + Left(book', a) <= Share(a)
        BY <1>6, <1>7, <1>8, Room
      <3> HIDE DEF n1, n0
      <3>2. 0 + n1 + Left(book', a) <= Share(a)
        BY <2>1, <3>1
      <3> QED
        BY <2>4, <3>2 DEF n1
    <2>5. CASE Owner[a] = p /\ ~ (a = c \/ a \notin from \/ pin \in from)
      <3>1. wait'[a] = Sum1(wait[a], MaxWait)
        BY <1>4, <2>5
      <3>2. wait'[a] = wait[a] + 1 \/ wait'[a] = wait[a]
        <4>1. wait[a] \in 0 .. MaxWait /\ MaxWait \in Nat
          BY MaxWaitType DEF AccountInv, TypeOK
        <4> QED
          BY <3>1, <4>1 DEF Sum1
      <3>3. c = InTurn(book, p, from) /\ c \in from \ {a}
        BY <1>1, <1>3, <2>5
      <3>4. 1 + n1 + Left(book', a) <= n0 + Left(book, a)
        BY <1>1, <1>2, <1>8, <2>5, <3>3, TurnPasses DEF AccountInv
      <3> HIDE DEF n1, n0
      <3>5. wait'[a] + n1 + Left(book', a) <= wait[a] + n0 + Left(book, a)
        BY <2>1, <3>2, <3>4
      <3>6. Share(a) \in Int
        <4>1. Cardinality(Own(Owner[a])) - 1 \in Int
          BY AheadCounts
        <4> QED
          BY <4>1, AccountAssumption DEF Share
      <3>7. wait'[a] \in Nat
        BY <2>1, <3>2
      <3> QED
        BY <2>1, <2>2, <3>5, <3>6, <3>7 DEF n1, n0
    <2> QED
      BY <1>4, <2>3, <2>4, <2>5
  <1> QED
    BY <1>6, <1>8 DEF Patience

LEMMA PatienceInit ==
  ASSUME Init
  PROVE  StreakIsYoungest(book) /\ Patience
  <1>1. book.sticky = [p \in Providers |-> NoStreak] /\ wait = [a \in Accounts |-> 0]
    BY DEF Init, AccountsInit
  <1>2. book \in Books
    BY InitInductive DEF AccountInv, TypeOK, AccountsOK
  <1>3. StreakIsYoungest(book)
    BY <1>1, AccountAssumption DEF StreakIsYoungest, NoStreak
  <1>4. ASSUME NEW a \in Accounts, Owner[a] \in Rotating
        PROVE  wait[a] + StickyLimit * Cardinality(Ahead(book, a)) + Left(book, a) <= Share(a)
    <2>1. StickyLimit * Cardinality(Ahead(book, a)) + Left(book, a) <= Share(a)
      BY <1>2, <1>3, <1>4, Room
    <2>2. Cardinality(Ahead(book, a)) \in Nat /\ Left(book, a) \in Int
      BY <1>2, AheadCounts, LeftType
    <2>3. StickyLimit * Cardinality(Ahead(book, a)) \in Int
      BY <2>2, AccountAssumption
    <2>4. wait[a] = 0
      BY <1>1
    <2> QED
      BY <2>1, <2>2, <2>3, <2>4
  <1> QED
    BY <1>3, <1>4 DEF Patience

LEMMA PatienceStep ==
  ASSUME AccountInv, AccountInv', StreakIsYoungest(book), Patience, [Next]_vars
  PROVE  StreakIsYoungest(book') /\ Patience'
  <1>b. book \in Books /\ book' \in Books
    BY DEF AccountInv, TypeOK, AccountsOK
  \* The steps that choose nothing: accounts are edited, tokens expire, and a
  \* restart only shortens the streak under way.
  <1>q. ASSUME book'.older = book.older,
               \A p \in Providers : \/ book'.sticky[p] = book.sticky[p]
                                    \/ book'.sticky[p] = NoStreak,
               \A a \in Accounts : wait'[a] = wait[a] \/ wait'[a] = 0
        PROVE  StreakIsYoungest(book') /\ Patience'
    <2>1. StreakIsYoungest(book')
      BY <1>q, AccountAssumption DEF StreakIsYoungest, IsYoungest, NoStreak
    <2>2. ASSUME NEW a \in Accounts, Owner[a] \in Rotating
          PROVE  wait'[a] + StickyLimit * Cardinality(Ahead(book', a)) + Left(book', a)
                    <= Share(a)
      <3> DEFINE n == StickyLimit * Cardinality(Ahead(book, a))
      <3>1. Ahead(book', a) = Ahead(book, a)
        BY <1>q DEF Ahead
      <3>2. Left(book', a) = Left(book, a) \/ Left(book', a) = 0
        <4>1. Owner[a] \in Providers
          BY AccountAssumption
        <4>2. CASE book'.sticky[Owner[a]] = book.sticky[Owner[a]]
          BY <4>2 DEF Left
        <4>3. CASE book'.sticky[Owner[a]] = NoStreak
          <5>1. NoStreak.acct = Legacy
            BY DEF NoStreak
          <5>2. NoStreak.acct \notin Accounts
            BY <5>1, AccountAssumption
          <5> QED
            BY <4>3, <5>2 DEF Left
        <4> QED
          BY <1>q, <4>1, <4>2, <4>3
      <3>3. Left(book, a) \in Nat /\ n \in Nat
        <4>1. Left(book, a) \in 0 .. StickyLimit /\ Cardinality(Ahead(book, a)) \in Nat
          BY <1>b, LeftType, AheadCounts
        <4> QED
          BY <4>1, AccountAssumption
      <3>4. wait[a] \in Nat
        <4>1. wait[a] \in 0 .. MaxWait /\ MaxWait \in Nat
          BY MaxWaitType DEF AccountInv, TypeOK
        <4> QED
          BY <4>1
      <3>5. Share(a) \in Int
        <4>1. Cardinality(Own(Owner[a])) - 1 \in Int
          BY AheadCounts
        <4> QED
          BY <4>1, AccountAssumption DEF Share
      <3>6. wait[a] + n + Left(book, a) <= Share(a)
        BY <2>2 DEF Patience
      <3>7. wait'[a] = wait[a] \/ wait'[a] = 0
        BY <1>q
      <3> HIDE DEF n
      <3>8. wait'[a] + n + Left(book', a) <= Share(a)
        BY <3>2, <3>3, <3>4, <3>5, <3>6, <3>7
      <3> QED
        BY <3>1, <3>8 DEF n
    <2> QED
      BY <2>1, <2>2 DEF Patience
  <1>1. ASSUME NEW p \in Providers, NEW pin, Select(p, pin)
        PROVE  StreakIsYoungest(book') /\ Patience'
    <2>1. PICK granted \in SUBSET Refreshable : Chooses(p, pin, granted)
      BY <1>1 DEF Select
    <2> QED
      BY <2>1, ChoicePatience
  <1>2. ASSUME NEW a \in Accounts, Disturb(a) \/ Ages(a)
        PROVE  StreakIsYoungest(book') /\ Patience'
    <2>1. book'.older = book.older /\ book'.sticky = book.sticky
      BY <1>2, EditTypes DEF Disturb, Ages, AccountInv
    <2>2. \A c \in Accounts : wait'[c] = wait[c] \/ wait'[c] = 0
      BY <1>2 DEF Disturb, Ages, AccountInv, TypeOK
    <2> QED
      BY <1>q, <2>1, <2>2
  <1>3. CASE Restart
    <2>1. book'.older = book.older /\ book'.sticky = [p \in Providers |-> NoStreak]
      BY <1>3, <1>b DEF Restart, Restarts, Books
    <2>2. wait' = wait
      BY <1>3 DEF Restart
    <2> QED
      BY <1>q, <2>1, <2>2
  <1>4. CASE UNCHANGED vars
    BY <1>4, <1>q DEF vars
  <1> QED
    BY <1>1, <1>2, <1>3, <1>4 DEF Next

\* An account of a rotating provider that keeps its credential is chosen again
\* after at most one whole streak of each other account, for any number of
\* accounts and any limit, whatever else is edited, expires or restarts.
THEOREM NobodyStarves == Spec => []NoneStarves
  <1>1. Init => StreakIsYoungest(book) /\ Patience
    BY PatienceInit
  <1>2. AccountInv /\ AccountInv' /\ StreakIsYoungest(book) /\ Patience /\ [Next]_vars
           => StreakIsYoungest(book)' /\ Patience'
    BY PatienceStep
  <1>3. AccountInv /\ Patience => NoneStarves
    <2> SUFFICES ASSUME AccountInv, Patience, NEW a \in Accounts, Owner[a] \in Rotating
                 PROVE  wait[a] <= Share(a)
      BY DEF NoneStarves, Share, Own
    <2>1. wait[a] + StickyLimit * Cardinality(Ahead(book, a)) + Left(book, a) <= Share(a)
      BY DEF Patience
    <2>2. Cardinality(Ahead(book, a)) \in Nat /\ Left(book, a) \in 0 .. StickyLimit
      BY AheadCounts, LeftType DEF AccountInv, TypeOK, AccountsOK
    <2>3. StickyLimit * Cardinality(Ahead(book, a)) \in Nat
      BY <2>2, AccountAssumption
    <2>4. wait[a] \in Nat /\ Share(a) \in Int
      <3>1. wait[a] \in 0 .. MaxWait /\ MaxWait \in Nat
        BY MaxWaitType DEF AccountInv, TypeOK
      <3>2. Cardinality(Own(Owner[a])) - 1 \in Int
        BY AheadCounts
      <3> QED
        BY <3>1, <3>2, AccountAssumption DEF Share
    <2>5. Left(book, a) \in Nat
      BY <2>2, AccountAssumption
    <2> QED
      BY <2>1, <2>3, <2>4, <2>5
  <1> QED
    BY <1>1, <1>2, <1>3, Inductive, PTL DEF Spec

-----------------------------------------------------------------------------
(* Calls of the gateway                                                    *)

CallTypes ==
    /\ phase \in [Calls -> Phases] /\ kind = [c \in Calls |-> kind[c]]
    /\ result = [c \in Calls |-> result[c]] /\ usage = [c \in Calls |-> usage[c]]
    /\ rows = [c \in Calls |-> rows[c]]

-----------------------------------------------------------------------------
(* Steps                                                                   *)

\* The steps of one call once it has been asked.
Handles(c) ==
    \/ Answered(c) \/ Mangled(c) \/ Failed(c) \/ Primed(c) \/ Log(c)
    \/ Told(c) \/ Eof(c) \/ Cut(c) \/ Leave(c)

\* What a step means to the books, whichever part of the program it is of.
LEMMA StepOf ==
  ASSUME [PlayNext]_playVars
  PROVE  \/ \E c \in Calls : (Arrive(c) \/ Handles(c)) /\ UNCHANGED <<spoke, stored>>
         \/ \E t \in Turns, s \in Sids : Ask(t, s)
         \/ \E t \in Turns : AskInVain(t)
         \/ \E t \in Turns, b \in BOOLEAN : Store(t, b)
         \/ Probes /\ UNCHANGED <<spoke, stored>>
         \/ (\E w \in Errands : OnErrand(w)) /\ UNCHANGED <<spoke, stored>>
         \/ UNCHANGED <<held, probe, callVars, spoke, stored>>
  <1>1. CASE \E b \in BOOLEAN : CreateSession(b)
    BY <1>1 DEF CreateSession, gatewayVars, poolVars
  <1>2. CASE \E s \in Sids : UpdateSession(s) \/ DeleteSession(s)
    BY <1>2 DEF UpdateSession, DeleteSession, gatewayVars, poolVars
  <1>3. ASSUME NEW t \in Turns, Submit(t) \/ StreamStops(t)
        PROVE  t \in Calls /\ (Arrive(t) \/ Handles(t)) /\ UNCHANGED <<spoke, stored>>
    BY <1>3 DEF Submit, StreamStops, Handles, chatVars, Calls
  <1>4. ASSUME NEW c \in Calls, Elsewhere(c)
        PROVE  (Arrive(c) \/ Handles(c)) /\ UNCHANGED <<spoke, stored>>
    BY <1>4 DEF Elsewhere, Handles, chatVars
  <1>5. CASE Besides
    <2>1. UNCHANGED <<spoke, stored>>
      BY <1>5 DEF Besides, chatVars
    <2>2. CASE Configures
      <3>1. probe' = probe
        BY <2>2 DEF Configures, ConfigurePools, CreatePool, UpdatePool, DeletePool, AddNode,
                    UpdateNode, DeleteNode, BindPool, Change
      <3> QED
        BY <2>1, <2>2, <3>1 DEF Configures
    <2> QED
      BY <1>5, <2>1, <2>2 DEF Besides
  <1>6. CASE UNCHANGED playVars
    BY <1>6 DEF playVars, gatewayVars, poolVars, chatVars
  <1> QED
    BY <1>1, <1>2, <1>3, <1>4, <1>5, <1>6 DEF PlayNext

LEMMA ChoiceKeepsProbes ==
  ASSUME SelectNode
  PROVE  probe' = probe
  BY DEF SelectNode, poolVars

LEMMA Names ==
  /\ "new" \in Phases /\ "asked" \in Phases /\ "calling" \in Phases /\ "logging" \in Phases
  /\ "streaming" \in Phases /\ "told" \in Phases /\ "storing" \in Phases /\ "ended" \in Phases
  BY DEF Phases

\* The variables of the calls stay functions of the calls.
LEMMA TypesStep ==
  ASSUME CallTypes, [PlayNext]_playVars
  PROVE  CallTypes'
  <1> USE Names DEF CallTypes
  <1>1. ASSUME NEW c \in Calls, Arrive(c)
        PROVE  CallTypes'
    <2>1. PICK a : Starve(c, a) \/ Refuse(c, a) \/ CallUpstream(c, a)
      BY <1>1 DEF Arrive
    <2>2. CASE Starve(c, a)
      BY <2>2 DEF Starve, Concludes, Returns
    <2>3. CASE Refuse(c, a)
      BY <2>3 DEF Refuse, Concludes, Returns
    <2>4. CASE CallUpstream(c, a)
      BY <2>4 DEF CallUpstream
    <2> QED
      BY <2>1, <2>2, <2>3, <2>4
  <1>2. ASSUME NEW c \in Calls, Handles(c)
        PROVE  CallTypes'
    <2>1. CASE Answered(c)
      BY <2>1 DEF Answered, Record, Ends, Concludes, Returns
    <2>2. CASE Mangled(c)
      BY <2>2 DEF Mangled, Record, Ends, Concludes, Returns
    <2>3. CASE Failed(c)
      BY <2>3 DEF Failed, Ends, Concludes, Returns
    <2>4. CASE Primed(c)
      BY <2>4 DEF Primed, Returns
    <2>5. CASE Log(c)
      BY <2>5 DEF Log
    <2>6. CASE Told(c)
      BY <2>6 DEF Told
    <2>7. CASE Eof(c)
      BY <2>7 DEF Eof, Record
    <2>8. CASE Cut(c) \/ Leave(c)
      BY <2>8 DEF Cut, Leave, BreaksOff
    <2> QED
      BY <1>2, <2>1, <2>2, <2>3, <2>4, <2>5, <2>6, <2>7, <2>8 DEF Handles
  <1>3. ASSUME NEW t \in Turns, NEW s \in Sids, Ask(t, s)
        PROVE  CallTypes'
    BY <1>3 DEF Ask
  <1>4. ASSUME NEW t \in Turns, AskInVain(t)
        PROVE  CallTypes'
    BY <1>4 DEF AskInVain
  <1>5. ASSUME NEW t \in Turns, NEW b \in BOOLEAN, Store(t, b)
        PROVE  CallTypes'
    BY <1>5 DEF Store
  <1>6. CASE UNCHANGED callVars
    BY <1>6 DEF callVars
  <1>7. Probes \/ (\E w \in Errands : OnErrand(w)) => UNCHANGED callVars
    BY DEF Probes, OnErrand, Borrow, GiveBack
  <1> QED
    BY <1>1, <1>2, <1>3, <1>4, <1>5, <1>6, <1>7, StepOf DEF callVars

-----------------------------------------------------------------------------
(* Connections                                                             *)

Connected ==
    /\ held \subseteq Calls \cup Checks \cup Errands /\ probe = [c \in Checks |-> probe[c]]
    /\ ConnectionsComeBack

\* Checkouts are counted: there are finitely many calls, checks and errands.
LEMMA HeldIsFinite ==
  ASSUME held \subseteq Calls \cup Checks \cup Errands
  PROVE  IsFiniteSet(held) /\ Cardinality(held) \in Nat
  <1>1. IsFiniteSet(Calls)
    BY CallAssumption, FS_Union DEF Calls
  <1>2. IsFiniteSet(Errands)
    BY CallAssumption, FS_Union DEF Errands
  <1>3. IsFiniteSet(Calls \cup Checks \cup Errands)
    BY <1>1, <1>2, ProxyAssumption, FS_Union
  <1> QED
    BY <1>3, FS_Subset, FS_CardinalityType

LEMMA CheckoutFits ==
  ASSUME held \subseteq Calls \cup Checks \cup Errands, NEW c, CanCheckOut(1), held' = held \cup {c}
  PROVE  Cardinality(held') <= PoolSize
  <1>1. IsFiniteSet(held) /\ Cardinality(held) \in Nat
    BY HeldIsFinite
  <1>2. Cardinality(held \cup {c}) = IF c \in held THEN Cardinality(held)
                                                  ELSE Cardinality(held) + 1
    BY <1>1, FS_AddElement
  <1>3. Cardinality(held) + 1 <= PoolSize /\ PoolSize \in Nat
    BY PoolSizeAssumption DEF CanCheckOut
  <1> QED
    BY <1>1, <1>2, <1>3

LEMMA ReturnFits ==
  ASSUME held \subseteq Calls \cup Checks \cup Errands, NEW c, held' = held \ {c},
         Cardinality(held) <= PoolSize
  PROVE  Cardinality(held') <= PoolSize
  <1>1. IsFiniteSet(held) /\ Cardinality(held) \in Nat
    BY HeldIsFinite
  <1>2. Cardinality(held \ {c}) = IF c \in held THEN Cardinality(held) - 1
                                                ELSE Cardinality(held)
    BY <1>1, FS_RemoveElement
  <1> QED
    BY <1>1, <1>2, PoolSizeAssumption

\* A step of one call: what it does to the connections and to its phase.
LEMMA CallMoves ==
  ASSUME CallTypes, held \subseteq Calls \cup Checks \cup Errands, NEW c \in Calls, Arrive(c) \/ Handles(c)
  PROVE  /\ probe' = probe
         /\ \A d \in Calls \ {c} : phase'[d] = phase[d]
         /\ \/ held' = held /\ phase[c] # "calling" /\ phase'[c] # "calling"
            \/ held' = held /\ phase'[c] = "calling"
            \/ held' = held \cup {c} /\ phase'[c] = "calling" /\ CanCheckOut(1)
            \/ held' = held \ {c} /\ phase'[c] # "calling"
  <1> USE DEF CallTypes, poolVars
  <1>1. CASE Arrive(c)
    <2>1. PICK a : Starve(c, a) \/ Refuse(c, a) \/ CallUpstream(c, a)
      BY <1>1 DEF Arrive
    <2>2. CASE Starve(c, a)
      <3>1. probe' = probe
        BY <2>2, ChoiceKeepsProbes DEF Starve
      <3> QED
        BY <2>2, <3>1 DEF Starve, Enters, Concludes, Returns
    <2>3. CASE Refuse(c, a)
      <3>1. probe' = probe
        BY <2>3, ChoiceKeepsProbes DEF Refuse
      <3> QED
        BY <2>3, <3>1 DEF Refuse, Enters, Concludes, Returns
    <2>4. CASE CallUpstream(c, a)
      <3>1. probe' = probe
        BY <2>4, ChoiceKeepsProbes DEF CallUpstream
      <3>2. a.route = "endpoint" => CanCheckOut(1)
        <4>1. a.route = "endpoint" => Needs(a) \in {1, 2}
          BY DEF Needs
        <4>2. CanCheckOut(Needs(a))
          BY <2>4 DEF CallUpstream
        <4> QED
          BY <4>1, <4>2, HeldIsFinite, PoolSizeAssumption DEF CanCheckOut
      <3>3. phase' = [phase EXCEPT ![c] = "calling"]
        BY <2>4 DEF CallUpstream
      <3>4. held' = held \/ (held' = held \cup {c} /\ CanCheckOut(1))
        BY <2>4, <3>2 DEF CallUpstream
      <3> QED
        BY <3>1, <3>3, <3>4
    <2> QED
      BY <2>1, <2>2, <2>3, <2>4
  <1>2. CASE Handles(c)
    <2>1. CASE Answered(c) \/ Mangled(c) \/ Failed(c)
      BY <2>1 DEF Answered, Mangled, Failed, Ends, Leaves, Concludes, Returns
    <2>2. CASE Primed(c)
      BY <2>2 DEF Primed, Leaves, Returns
    <2>3. CASE Log(c)
      BY <2>3 DEF Log
    <2>4. CASE Told(c) \/ Eof(c)
      BY <2>4 DEF Told, Eof, Flows
    <2>5. CASE Cut(c) \/ Leave(c)
      BY <2>5 DEF Cut, Leave, BreaksOff, Flows
    <2> QED
      BY <1>2, <2>1, <2>2, <2>3, <2>4, <2>5 DEF Handles
  <1> QED
    BY <1>1, <1>2

LEMMA ConnectedInit ==
  ASSUME PlayInit
  PROVE  CallTypes /\ Connected
  <1>1. Cardinality({}) = 0
    BY FS_EmptySet
  <1> QED
    BY <1>1, Names, PoolSizeAssumption
       DEF PlayInit, GatewayInit, CallsInit, PoolsInit, CallTypes, Connected, ConnectionsComeBack

LEMMA ConnectedStep ==
  ASSUME CallTypes, Connected, [PlayNext]_playVars
  PROVE  Connected'
  <1> USE DEF Connected, ConnectionsComeBack
  <1>0. /\ \A c \in Calls : c \notin Checks
        /\ \A w \in Errands : w \notin Calls /\ w \notin Checks
    BY CallAssumption DEF Calls, Errands
  <1>1. ASSUME NEW c \in Calls, Arrive(c) \/ Handles(c)
        PROVE  Connected'
    <2>1. probe' = probe /\ \A d \in Calls \ {c} : phase'[d] = phase[d]
      BY <1>1, CallMoves
    <2>2. CASE held' = held /\ (phase'[c] = "calling" \/ phase[c] # "calling")
      <3>1. held' \cap Calls \subseteq {d \in Calls : phase'[d] = "calling"}
        BY <2>1, <2>2
      <3> QED
        BY <2>1, <2>2, <3>1
    <2>3. CASE held' = held \cup {c} /\ phase'[c] = "calling" /\ CanCheckOut(1)
      <3>1. Cardinality(held') <= PoolSize
        BY <2>3, CheckoutFits
      <3>2. held' \cap Calls \subseteq {d \in Calls : phase'[d] = "calling"}
        BY <2>1, <2>3
      <3>3. held' \cap Checks = held \cap Checks
        BY <1>0, <2>3
      <3> QED
        BY <2>1, <2>3, <3>1, <3>2, <3>3
    <2>4. CASE held' = held \ {c} /\ phase'[c] # "calling"
      <3>1. Cardinality(held') <= PoolSize
        BY <2>4, ReturnFits
      <3>2. held' \cap Calls \subseteq {d \in Calls : phase'[d] = "calling"}
        BY <2>1, <2>4
      <3>3. held' \cap Checks = held \cap Checks
        BY <1>0, <2>4
      <3> QED
        BY <2>1, <2>4, <3>1, <3>2, <3>3
    <2> QED
      BY <1>1, <2>2, <2>3, <2>4, CallMoves
  <1>2. ASSUME NEW t \in Turns, NEW s \in Sids, Ask(t, s)
        PROVE  Connected'
    <2>1. t \in Calls /\ phase[t] = "new" /\ held' = held /\ probe' = probe
      BY <1>2 DEF Ask, poolVars, Calls
    <2>2. \A d \in Calls \ {t} : phase'[d] = phase[d]
      BY <1>2 DEF Ask, CallTypes
    <2> QED
      BY <2>1, <2>2
  <1>3. ASSUME NEW t \in Turns, AskInVain(t)
        PROVE  Connected'
    <2>1. t \in Calls /\ phase[t] = "new" /\ held' = held /\ probe' = probe
      BY <1>3 DEF AskInVain, poolVars, Calls
    <2>2. \A d \in Calls \ {t} : phase'[d] = phase[d]
      BY <1>3 DEF AskInVain, CallTypes
    <2> QED
      BY <2>1, <2>2
  <1>4. ASSUME NEW t \in Turns, NEW b \in BOOLEAN, Store(t, b)
        PROVE  Connected'
    <2>1. t \in Calls /\ phase[t] = "storing" /\ held' = held /\ probe' = probe
      BY <1>4 DEF Store, poolVars, Calls
    <2>2. \A d \in Calls \ {t} : phase'[d] = phase[d]
      BY <1>4 DEF Store, CallTypes
    <2> QED
      BY <2>1, <2>2
  <1>5. CASE Probes
    <2>1. phase' = phase
      BY <1>5 DEF Probes, callVars
    <2>2. PICK c \in Checks : \/ \E p \in PoolIds : StartCheck(c, p)
                             \/ \E found \in [DOMAIN probe[c].seen -> Verdicts] :
                                   FinishCheck(c, found)
      BY <1>5 DEF Probes, Probing
    <2>3. c \notin Calls
      BY <1>0
    <2>4. ASSUME NEW p \in PoolIds, StartCheck(c, p)
          PROVE  Connected'
      <3>1. held' = held \cup {c} /\ CanCheckOut(1)
        BY <2>4 DEF StartCheck
      <3>2. Cardinality(held') <= PoolSize
        BY <3>1, CheckoutFits
      <3>3. probe'[c].pool = p /\ probe' = [d \in Checks |-> probe'[d]]
        BY <2>4 DEF StartCheck
      <3>4. probe'[c] # Idle
        BY <3>3 DEF Idle, PoolIds, NoPool
      <3>5. \A d \in Checks \ {c} : probe'[d] = probe[d]
        BY <2>4 DEF StartCheck
      <3> QED
        BY <2>1, <2>3, <3>1, <3>2, <3>3, <3>4, <3>5
    <2>5. ASSUME NEW found, FinishCheck(c, found)
          PROVE  Connected'
      <3>1. held' = held \ {c} /\ probe' = [probe EXCEPT ![c] = Idle]
        BY <2>5 DEF FinishCheck
      <3>2. Cardinality(held') <= PoolSize
        BY <3>1, ReturnFits
      <3>3. probe'[c] = Idle /\ \A d \in Checks \ {c} : probe'[d] = probe[d]
        BY <3>1
      <3> QED
        BY <2>1, <2>3, <3>1, <3>2, <3>3
    <2> QED
      BY <2>2, <2>4, <2>5
  <1>6. CASE UNCHANGED <<held, probe, callVars>>
    BY <1>6 DEF callVars
  <1>7. ASSUME NEW w \in Errands, OnErrand(w)
        PROVE  Connected'
    <2>1. phase' = phase /\ probe' = probe
      BY <1>7 DEF OnErrand, Borrow, GiveBack, callVars, poolVars
    <2>2. CASE held' = held \cup {w} /\ CanCheckOut(1)
      <3>1. Cardinality(held') <= PoolSize
        BY <2>2, CheckoutFits
      <3> QED
        BY <1>0, <2>1, <2>2, <3>1
    <2>3. CASE held' = held \ {w}
      <3>1. Cardinality(held') <= PoolSize
        BY <2>3, ReturnFits
      <3> QED
        BY <1>0, <2>1, <2>3, <3>1
    <2> QED
      BY <1>7, <2>2, <2>3 DEF OnErrand, Borrow, GiveBack
  <1> QED
    BY <1>1, <1>2, <1>3, <1>4, <1>5, <1>6, <1>7, StepOf

\* A call keeps a connection only while it waits for the upstream of an endpoint, a
\* health check as long as it probes, and every way out of either gives it back; with
\* the lookups and repairs that keep one too, no more are lent than there are.
THEOREM ConnectionsReturn == PlaySpec => []ConnectionsComeBack
  <1>1. PlayInit => CallTypes /\ Connected
    BY ConnectedInit
  <1>2. CallTypes /\ Connected /\ [PlayNext]_playVars => CallTypes' /\ Connected'
    BY TypesStep, ConnectedStep
  <1>3. Connected => ConnectionsComeBack
    BY DEF Connected
  <1> QED
    BY <1>1, <1>2, <1>3, PTL DEF PlaySpec

-----------------------------------------------------------------------------
(* The books                                                               *)

\* The usage record of a call agrees with the way it ended.
Charged(c) ==
    /\ usage[c] \in {0, 1}
    /\ usage[c] = 1 => result[c] \in {"json", "eof", "mangled"}
    /\ (result[c] \in {"json", "eof"} /\ c \notin starved) => usage[c] = 1

\* So does its row in the request log.
Logged(c) ==
    /\ rows[c] \in {<< >>, <<"ok">>, <<"error">>}
    /\ c \in Turns => rows[c] = << >>
    /\ (c \in Requests /\ c \notin starved) => rows[c] # << >>

Unspoken(c) == c \notin spoke /\ c \notin stored

\* The books of a call, from its start to its end.
Balanced(c) ==
    /\ phase[c] \in {"new", "asked", "calling"} =>
          usage[c] = 0 /\ rows[c] = << >> /\ result[c] = "none" /\ Unspoken(c)
    /\ phase[c] = "logging" => c \in Requests /\ rows[c] = << >> /\ Charged(c) /\ Unspoken(c)
    /\ phase[c] = "logging" /\ result[c] = "none" => usage[c] = 0
    /\ phase[c] \in {"streaming", "told"} =>
          usage[c] = 0 /\ result[c] = "none" /\ Logged(c) /\ Unspoken(c)
    /\ phase[c] = "storing" =>
          c \in Turns /\ rows[c] = << >> /\ result[c] = "eof" /\ Charged(c) /\ Unspoken(c)
    /\ phase[c] = "ended" =>
          /\ Charged(c) /\ Logged(c)
          /\ rows[c] = <<"ok">> => result[c] \in {"json", "eof", "cut", "left"}
          /\ (c \in Turns /\ c \notin starved) => (c \in stored <=> usage[c] = 1 /\ c \in spoke)

Accounted == \A c \in Calls : Balanced(c)

\* What a step leaves alone.
Untouched(c) ==
    /\ phase'[c] = phase[c] /\ result'[c] = result[c]
    /\ usage'[c] = usage[c] /\ rows'[c] = rows[c]
    /\ (c \in starved') <=> (c \in starved)
    /\ (c \in spoke') <=> (c \in spoke)
    /\ (c \in stored') <=> (c \in stored)

LEMMA UntouchedKeepsBooks ==
  ASSUME NEW c, Balanced(c), Untouched(c)
  PROVE  Balanced(c)'
  BY DEF Balanced, Charged, Logged, Unspoken, Untouched

LEMMA MineAndOthers ==
  ASSUME Accounted, NEW c \in Calls, Balanced(c)', \A d \in Calls \ {c} : Untouched(d)
  PROVE  Accounted'
  <1>1. ASSUME NEW d \in Calls PROVE Balanced(d)'
    <2>1. CASE d = c
      BY <2>1
    <2>2. CASE d # c
      <3>1. Balanced(d) /\ Untouched(d)
        BY <2>2 DEF Accounted
      <3> QED
        BY <3>1, UntouchedKeepsBooks
    <2> QED
      BY <2>1, <2>2
  <1> QED
    BY <1>1 DEF Accounted

\* A step of one call leaves the books of the others alone.
LEMMA OthersUntouched ==
  ASSUME CallTypes, NEW c \in Calls, Arrive(c) \/ Handles(c), UNCHANGED <<spoke, stored>>,
         NEW d \in Calls, d # c
  PROVE  Untouched(d)
  <1> USE DEF CallTypes, Untouched
  <1>1. CASE Arrive(c)
    <2>1. PICK a : Starve(c, a) \/ Refuse(c, a) \/ CallUpstream(c, a)
      BY <1>1 DEF Arrive
    <2> QED
      BY <2>1 DEF Starve, Refuse, CallUpstream, Concludes, Returns
  <1>2. CASE Answered(c) \/ Mangled(c) \/ Failed(c)
    BY <1>2 DEF Answered, Mangled, Failed, Record, Ends, Concludes, Returns
  <1>3. CASE Primed(c) \/ Log(c)
    BY <1>3 DEF Primed, Log, Returns
  <1>4. CASE Told(c) \/ Eof(c)
    BY <1>4 DEF Told, Eof, Record
  <1>5. CASE Cut(c) \/ Leave(c)
    BY <1>5 DEF Cut, Leave, BreaksOff
  <1> QED
    BY <1>1, <1>2, <1>3, <1>4, <1>5 DEF Handles

\* A call that is asked: it ends here, or an upstream is called.
LEMMA ArriveKeepsBooks ==
  ASSUME CallTypes, NEW c \in Calls, Balanced(c), Arrive(c), UNCHANGED <<spoke, stored>>
  PROVE  Balanced(c)'
  <1> USE DEF CallTypes
  <1>1. PICK a : Starve(c, a) \/ Refuse(c, a) \/ CallUpstream(c, a)
    BY DEF Arrive
  <1>2. usage[c] = 0 /\ rows[c] = << >> /\ result[c] = "none" /\ Unspoken(c)
    BY <1>1 DEF Starve, Refuse, CallUpstream, Enters, Balanced
  <1>3. usage' = usage /\ rows' = rows /\ Unspoken(c)'
    BY <1>1, <1>2 DEF Starve, Refuse, CallUpstream, Unspoken
  <1>4. CASE Starve(c, a) \/ Refuse(c, a)
    <2>1. result'[c] \in {"crashed", "refused"}
      BY <1>4 DEF Starve, Refuse, Concludes
    <2>2. phase'[c] = IF c \in Requests THEN "logging" ELSE "ended"
      BY <1>4 DEF Starve, Refuse, Concludes, Returns
    <2>3. c \notin Requests => c \in Turns
      BY DEF Calls
    <2> QED
      BY <1>2, <1>3, <2>1, <2>2, <2>3 DEF Balanced, Charged, Logged, Unspoken
  <1>5. CASE CallUpstream(c, a)
    <2>1. phase'[c] = "calling" /\ result' = result
      BY <1>5 DEF CallUpstream
    <2> QED
      BY <1>2, <1>3, <2>1 DEF Balanced, Unspoken
  <1> QED
    BY <1>1, <1>4, <1>5

\* A record is written, or the call is known to have found no connection.
LEMMA RecordCharges ==
  ASSUME CallTypes, NEW c \in Calls, usage[c] = 0, Record(c)
  PROVE  usage'[c] \in {0, 1} /\ (usage'[c] = 1 \/ c \in starved')
  BY DEF Record, CallTypes

\* The upstream's answer, or its failure.
LEMMA AnswerKeepsBooks ==
  ASSUME CallTypes, NEW c \in Calls, Balanced(c), UNCHANGED <<spoke, stored>>,
         Answered(c) \/ Mangled(c) \/ Failed(c)
  PROVE  Balanced(c)'
  <1> USE DEF CallTypes
  <1>1. /\ usage[c] = 0 /\ rows[c] = << >> /\ Unspoken(c)
    BY DEF Answered, Mangled, Failed, Awaits, Balanced
  <1>2. rows' = rows /\ Unspoken(c)'
    BY <1>1 DEF Answered, Mangled, Failed, Ends, Unspoken
  <1>3. phase'[c] = IF c \in Requests THEN "logging" ELSE "ended"
    BY DEF Answered, Mangled, Failed, Ends, Concludes, Returns
  <1>4. c \notin Requests => c \in Turns
    BY DEF Calls
  <1>5. Charged(c)' /\ result'[c] # "none"
    <2>1. CASE Answered(c)
      BY <1>1, <2>1, RecordCharges DEF Answered, Ends, Concludes, Charged
    <2>2. CASE Mangled(c)
      <3>1. usage'[c] \in {0, 1}
        BY <1>1, <2>2, RecordCharges DEF Mangled
      <3> QED
        BY <2>2, <3>1 DEF Mangled, Ends, Concludes, Charged
    <2>3. CASE Failed(c)
      BY <1>1, <2>3 DEF Failed, Ends, Concludes, Charged
    <2> QED
      BY <2>1, <2>2, <2>3
  <1> QED
    BY <1>1, <1>2, <1>3, <1>4, <1>5 DEF Balanced, Logged, Unspoken

\* A stream, from the first chunk to its end, and the row of the log.
LEMMA StreamKeepsBooks ==
  ASSUME CallTypes, NEW c \in Calls, Balanced(c), UNCHANGED <<spoke, stored>>,
         Primed(c) \/ Log(c) \/ Told(c) \/ Eof(c) \/ Cut(c) \/ Leave(c)
  PROVE  Balanced(c)'
  <1> USE DEF CallTypes
  <1>0. c \notin Requests => c \in Turns
    BY DEF Calls
  <1>t. c \in Requests => c \notin Turns
    BY CallAssumption
  <1>1. CASE Primed(c)
    <2>1. usage[c] = 0 /\ rows[c] = << >> /\ result[c] = "none" /\ Unspoken(c)
      BY <1>1 DEF Primed, Awaits, Balanced
    <2>2. UNCHANGED <<usage, rows, result, starved>>
      BY <1>1 DEF Primed
    <2>3. phase'[c] = IF c \in Requests THEN "logging" ELSE "streaming"
      BY <1>1 DEF Primed, Returns
    <2>4. Charged(c)' /\ Unspoken(c)' /\ usage'[c] = 0 /\ result'[c] = "none" /\ rows'[c] = << >>
      BY <2>1, <2>2 DEF Charged, Unspoken
    <2>5. c \in Turns => Logged(c)'
      BY <1>t, <2>4 DEF Logged
    <2> QED
      BY <1>0, <2>3, <2>4, <2>5 DEF Balanced
  <1>2. CASE Log(c)
    <2>1. c \in Requests /\ rows[c] = << >> /\ Charged(c) /\ Unspoken(c)
          /\ (result[c] = "none" => usage[c] = 0)
      BY <1>2 DEF Log, Balanced
    <2>2. usage' = usage /\ result' = result /\ (c \in starved => c \in starved')
      BY <1>2 DEF Log
    <2>3. Line(c) \in {"ok", "error"}
          /\ (Line(c) = "ok" /\ result[c] # "none" => result[c] = "json")
      BY DEF Line
    <2>4. \/ rows'[c] = <<Line(c)>>
          \/ rows'[c] = << >> /\ c \in starved'
      BY <1>2, <2>1 DEF Log
    <2>5. phase'[c] = IF result[c] = "none" THEN "streaming" ELSE "ended"
      BY <1>2 DEF Log
    <2>6. Logged(c)'
      <3>1. <<Line(c)>> \in {<<"ok">>, <<"error">>} /\ <<Line(c)>> # << >>
        BY <2>3
      <3>2. rows'[c] \in {<< >>, <<"ok">>, <<"error">>} /\ (rows'[c] = << >> => c \in starved')
        BY <2>4, <3>1
      <3> QED
        BY <1>t, <2>1, <3>2 DEF Logged
    <2>7. rows'[c] = <<"ok">> /\ result[c] # "none" => result[c] = "json"
      BY <2>3, <2>4
    <2>8. Charged(c)'
      BY <2>1, <2>2 DEF Charged
    <2> QED
      BY <1>t, <2>1, <2>2, <2>5, <2>6, <2>7, <2>8 DEF Balanced, Unspoken
  <1>3. CASE Told(c)
    <2>1. phase'[c] = "told" /\ UNCHANGED <<usage, rows, result, starved>>
      BY <1>3 DEF Told
    <2> QED
      BY <1>3, <2>1 DEF Told, Balanced, Logged, Unspoken
  <1>4. CASE Eof(c)
    <2>1. usage[c] = 0 /\ Logged(c) /\ Unspoken(c)
      BY <1>4 DEF Eof, Flows, Balanced
    <2>2. usage'[c] \in {0, 1} /\ (usage'[c] = 1 \/ c \in starved')
      BY <1>4, <2>1, RecordCharges DEF Eof
    <2>3. rows' = rows /\ result'[c] = "eof" /\ (c \in starved => c \in starved')
      BY <1>4 DEF Eof, Record
    <2>4. phase'[c] = IF c \in Turns THEN "storing" ELSE "ended"
      BY <1>4 DEF Eof
    <2>5. Charged(c)' /\ Logged(c)'
      BY <2>1, <2>2, <2>3 DEF Charged, Logged
    <2> QED
      BY <2>1, <2>3, <2>4, <2>5 DEF Balanced, Logged, Unspoken
  <1>5. CASE Cut(c) \/ Leave(c)
    <2>1. usage[c] = 0 /\ Logged(c) /\ Unspoken(c)
      BY <1>5 DEF Cut, Leave, BreaksOff, Flows, Balanced
    <2>2. /\ phase'[c] = "ended" /\ result'[c] \in {"cut", "left"}
          /\ UNCHANGED <<usage, rows, starved>>
      BY <1>5 DEF Cut, Leave, BreaksOff
    <2> QED
      BY <2>1, <2>2 DEF Balanced, Charged, Logged, Unspoken
  <1> QED
    BY <1>1, <1>2, <1>3, <1>4, <1>5

\* The playground's own steps.
LEMMA AskKeepsBooks ==
  ASSUME CallTypes, Accounted, NEW t \in Turns, NEW s \in Sids, Ask(t, s)
  PROVE  Accounted'
  <1> USE DEF CallTypes
  <1>1. t \in Calls /\ t \notin Requests /\ phase[t] = "new"
    BY CallAssumption DEF Ask, Calls
  <1>2. UNCHANGED <<usage, rows, starved, spoke, stored>>
    BY DEF Ask
  <1>3. \/ phase'[t] = "asked" /\ result' = result
        \/ phase'[t] = "ended" /\ result'[t] = "refused"
    BY <1>1 DEF Ask
  <1>4. Balanced(t)'
    <2>1. usage[t] = 0 /\ rows[t] = << >> /\ result[t] = "none" /\ Unspoken(t)
      BY <1>1 DEF Accounted, Balanced
    <2>2. usage'[t] = 0 /\ rows'[t] = << >> /\ Unspoken(t)'
      BY <1>2, <2>1 DEF Unspoken
    <2> QED
      BY <1>1, <1>3, <2>1, <2>2 DEF Balanced, Charged, Logged, Unspoken
  <1>5. \A d \in Calls \ {t} : Untouched(d)
    BY <1>2 DEF Ask, Untouched
  <1> QED
    BY <1>1, <1>4, <1>5, MineAndOthers

LEMMA AskInVainKeepsBooks ==
  ASSUME CallTypes, Accounted, NEW t \in Turns, AskInVain(t)
  PROVE  Accounted'
  <1> USE DEF CallTypes
  <1>1. t \in Calls /\ t \notin Requests /\ phase[t] = "new"
    BY CallAssumption DEF AskInVain, Calls
  <1>2. UNCHANGED <<usage, rows, spoke, stored>>
    BY DEF AskInVain, chatVars
  <1>3. phase'[t] = "ended" /\ result'[t] \in {"refused", "crashed"}
    BY <1>1 DEF AskInVain
  <1>4. Balanced(t)'
    <2>1. usage[t] = 0 /\ rows[t] = << >> /\ result[t] = "none" /\ Unspoken(t)
      BY <1>1 DEF Accounted, Balanced
    <2>2. usage'[t] = 0 /\ rows'[t] = << >> /\ Unspoken(t)'
      BY <1>2, <2>1 DEF Unspoken
    <2> QED
      BY <1>1, <1>3, <2>1, <2>2 DEF Balanced, Charged, Logged, Unspoken
  <1>5. \A d \in Calls \ {t} : Untouched(d)
    BY <1>2 DEF AskInVain, Untouched
  <1> QED
    BY <1>1, <1>4, <1>5, MineAndOthers

\* The answer is stored in the stretch of code that recorded the usage, so that the
\* turn is charged by now, or has met an exhausted pool.
LEMMA StoreKeepsBooks ==
  ASSUME CallTypes, Accounted, NEW t \in Turns, NEW text \in BOOLEAN, Store(t, text)
  PROVE  Accounted'
  <1> USE DEF CallTypes
  <1>1. t \in Calls /\ t \notin Requests /\ phase[t] = "storing"
    BY CallAssumption DEF Store, Calls
  <1>2. rows[t] = << >> /\ result[t] = "eof" /\ Charged(t) /\ Unspoken(t)
    BY <1>1 DEF Accounted, Balanced
  <1>3. UNCHANGED <<usage, rows, result>> /\ phase'[t] = "ended"
    BY <1>1 DEF Store
  <1>4. /\ t \in starved => t \in starved'
        /\ t \notin starved' => (t \in stored' <=> t \in spoke')
    BY <1>2 DEF Store, Unspoken
  <1>5. Charged(t)'
    BY <1>2, <1>3, <1>4 DEF Charged
  <1>6. Balanced(t)'
    BY <1>1, <1>2, <1>3, <1>4, <1>5 DEF Balanced, Charged, Logged
  <1>7. \A d \in Calls \ {t} : Untouched(d)
    BY DEF Store, Untouched
  <1> QED
    BY <1>1, <1>6, <1>7, MineAndOthers

LEMMA AccountedInit ==
  ASSUME PlayInit
  PROVE  Accounted
  BY DEF PlayInit, GatewayInit, CallsInit, ChatInit, Accounted, Balanced, Charged, Logged, Unspoken

LEMMA AccountedStep ==
  ASSUME CallTypes, Accounted, [PlayNext]_playVars
  PROVE  Accounted'
  <1>1. ASSUME NEW c \in Calls, Arrive(c) \/ Handles(c), UNCHANGED <<spoke, stored>>
        PROVE  Accounted'
    <2>1. Balanced(c)
      BY DEF Accounted
    <2>2. Balanced(c)'
      BY <1>1, <2>1, ArriveKeepsBooks, AnswerKeepsBooks, StreamKeepsBooks DEF Handles
    <2>3. \A d \in Calls \ {c} : Untouched(d)
      BY <1>1, OthersUntouched
    <2> QED
      BY <2>2, <2>3, MineAndOthers
  <1>2. CASE UNCHANGED <<callVars, spoke, stored>>
    <2>1. ASSUME NEW d \in Calls PROVE Balanced(d)'
      <3>1. Balanced(d) /\ Untouched(d)
        BY <1>2 DEF Accounted, Untouched, callVars
      <3> QED
        BY <3>1, UntouchedKeepsBooks
    <2> QED
      BY <2>1 DEF Accounted
  <1>3. Probes \/ (\E w \in Errands : OnErrand(w)) => UNCHANGED callVars
    BY DEF Probes, OnErrand, Borrow, GiveBack
  <1> QED
    BY <1>1, <1>2, <1>3, StepOf, AskKeepsBooks, AskInVainKeepsBooks, StoreKeepsBooks

\* Of a call that has ended, the books are those that Bookkeeping asks for.
LEMMA AccountedBooks ==
  ASSUME Accounted
  PROVE  Bookkeeping
  <1> SUFFICES ASSUME NEW c \in Calls, Ended(c)
      PROVE  /\ usage[c] = 1 => result[c] \in {"json", "eof", "mangled"}
             /\ result[c] \in {"json", "eof"} /\ c \notin starved => usage[c] = 1
             /\ c \in Turns => rows[c] = << >>
             /\ c \in Requests /\ c \notin starved => Len(rows[c]) = 1
             /\ Len(rows[c]) <= 1
             /\ rows[c] = <<"ok">> => result[c] \in {"json", "eof", "cut", "left"}
    BY DEF Bookkeeping
  <1>1. Charged(c) /\ Logged(c)
        /\ (rows[c] = <<"ok">> => result[c] \in {"json", "eof", "cut", "left"})
    BY DEF Accounted, Balanced, Ended
  <1>2. Len(rows[c]) <= 1 /\ (rows[c] # << >> => Len(rows[c]) = 1)
    <2>1. rows[c] = << >> \/ rows[c] = <<"ok">> \/ rows[c] = <<"error">>
      BY <1>1 DEF Logged
    <2>2. Len(<<"ok">>) = 1
      OBVIOUS
    <2>3. Len(<<"error">>) = 1
      OBVIOUS
    <2>4. Len(<< >>) = 0
      OBVIOUS
    <2>5. Len(rows[c]) = 1 \/ (rows[c] = << >> /\ Len(rows[c]) = 0)
      BY <2>1, <2>2, <2>3, <2>4, Zenon
    <2>6. 0 <= 1 /\ 1 <= 1
      OBVIOUS
    <2> QED
      BY <2>5, <2>6, Zenon
  <1>3. c \in Requests /\ c \notin starved => rows[c] # << >>
    BY <1>1 DEF Logged
  <1>4. c \in Turns => rows[c] = << >>
    BY <1>1 DEF Logged
  <1>5. /\ usage[c] = 1 => result[c] \in {"json", "eof", "mangled"}
        /\ result[c] \in {"json", "eof"} /\ c \notin starved => usage[c] = 1
    BY <1>1 DEF Charged
  <1> QED
    BY <1>1, <1>2, <1>3, <1>4, <1>5

-----------------------------------------------------------------------------
(* The results                                                             *)

LEMMA AlwaysAccounted == PlaySpec => [](CallTypes /\ Accounted)
  <1>1. PlayInit => CallTypes /\ Accounted
    BY ConnectedInit, AccountedInit
  <1>2. CallTypes /\ Accounted /\ [PlayNext]_playVars => CallTypes' /\ Accounted'
    BY TypesStep, AccountedStep
  <1> QED
    BY <1>1, <1>2, PTL DEF PlaySpec

\* An answer in full is charged once and nothing else is, and a call over HTTP leaves
\* one row in the request log, which says ok only of an answer or a stream begun; but
\* for calls that met an exhausted pool.
THEOREM BooksAgree == PlaySpec => []Bookkeeping
  <1>1. CallTypes /\ Accounted => Bookkeeping
    BY AccountedBooks
  <1> QED
    BY <1>1, AlwaysAccounted, PTL

\* A turn of the playground has its answer stored exactly when it was charged and had
\* text, however turns, requests, checks and deletions overlap.
THEOREM AnswersAreStored == PlaySpec => []StoredIffBilled
  <1>1. CallTypes /\ Accounted => StoredIffBilled
    BY DEF Accounted, Balanced, StoredIffBilled, Ended, Calls
  <1> QED
    BY <1>1, AlwaysAccounted, PTL

-----------------------------------------------------------------------------
(* Rotation.  Whoever's turn comes sooner has not been chosen more often:  *)
(* in this form the counts of two healthy nodes are inductive.             *)

LEMMA DivisionUnique ==
  ASSUME NEW K \in Nat \ {0}, NEW q \in Int, NEW u \in Int,
         NEW r \in 0 .. K - 1, NEW s \in 0 .. K - 1, K * q + r = K * u + s
  PROVE  r = s
  <1>1. CASE q = u
    BY <1>1
  <1>2. CASE q < u
    <2>1. u - q >= 1 /\ K * (u - q) >= K
      BY <1>2
    <2>2. K * u - K * q = K * (u - q)
      OBVIOUS
    <2> QED
      BY <2>1, <2>2
  <1>3. CASE u < q
    <2>1. q - u >= 1 /\ K * (q - u) >= K
      BY <1>3
    <2>2. K * q - K * u = K * (q - u)
      OBVIOUS
    <2> QED
      BY <2>1, <2>2
  <1> QED
    BY <1>1, <1>2, <1>3

LEMMA Division ==
  ASSUME NEW c \in Nat, NEW K \in Nat \ {0}
  PROVE  /\ c % K \in 0 .. K - 1 /\ c \div K \in Int
         /\ c = K * (c \div K) + (c % K)
  OBVIOUS

\* A cursor that advances goes once around.
LEMMA Around ==
  ASSUME NEW c \in Nat, NEW K \in Nat \ {0}
  PROVE  (c + 1) % K = IF (c % K) + 1 = K THEN 0 ELSE (c % K) + 1
  <1> DEFINE q == c \div K
             r == c % K
             u == (c + 1) \div K
             s == (c + 1) % K
  <1>1. c = K * q + r /\ q \in Int /\ r \in 0 .. K - 1
    BY Division
  <1>2. c + 1 = K * u + s /\ u \in Int /\ s \in 0 .. K - 1
    <2>1. c + 1 \in Nat
      OBVIOUS
    <2> QED
      BY <2>1, Division
  <1> HIDE DEF q, r, u, s
  <1>3. CASE r + 1 = K
    <2>1. K * (q + 1) = K * q + K /\ q + 1 \in Int /\ 0 \in 0 .. K - 1
      BY <1>1
    <2>2. K * (q + 1) + 0 = K * u + s
      BY <1>1, <1>2, <1>3, <2>1
    <2>3. 0 = s
      BY <1>2, <2>1, <2>2, DivisionUnique
    <2> QED
      BY <1>3, <2>3 DEF r, s
  <1>4. CASE r + 1 # K
    <2>1. K * q + (r + 1) = K * u + s /\ r + 1 \in 0 .. K - 1
      BY <1>1, <1>2, <1>4
    <2>2. r + 1 = s
      BY <1>1, <1>2, <2>1, DivisionUnique
    <2> QED
      BY <1>4, <2>2 DEF r, s
  <1> QED
    BY <1>3, <1>4

\* A set of ids has a last one, so that a new id is new.
LEMMA LastId ==
  ASSUME NEW N \in Nat, NEW ids \in SUBSET (1 .. N), ids # {}
  PROVE  \E i \in ids : \A j \in ids : j <= i
  <1> DEFINE Less == {e \in Nat \X Nat : e[1] < e[2]}
             Above == {u \in Nat : \A j \in ids : j <= u}
  <1>1. IsWellFoundedOn(Less, Nat)
    BY NatLessThanWellFounded DEF OpToRel
  <1>2. N \in Above /\ Above \subseteq Nat
    OBVIOUS
  <1>3. PICK u \in Above : \A v \in Above : ~(<<v, u>> \in Less)
    <2> HIDE DEF Less, Above
    <2> QED
      BY <1>1, <1>2, WFMin
  <1>4. PICK k \in ids : k >= u
    <2>1. CASE u = 0
      <3>1. PICK k : k \in ids
        OBVIOUS
      <3>2. k \in 1 .. N
        BY <3>1
      <3> QED
        BY <2>1, <3>1, <3>2
    <2>2. CASE u # 0
      <3>1. u \in Nat /\ u - 1 \in Nat /\ <<u - 1, u>> \in Less
        BY <1>2, <2>2
      <3>2. u - 1 \notin Above
        BY <1>3, <3>1
      <3>3. PICK k \in ids : ~ (k <= u - 1)
        BY <3>1, <3>2
      <3> QED
        BY <3>1, <3>3
    <2> QED
      BY <2>1, <2>2
  <1>5. k = u
    BY <1>4
  <1> QED
    BY <1>5

LEMMA NextIdIsNew ==
  ASSUME NEW N \in Nat, NEW ids \in SUBSET (1 .. N)
  PROVE  NextId(ids) \notin ids
  <1>1. CASE ids = {}
    BY <1>1
  <1>2. CASE ids # {}
    <2> DEFINE k == CHOOSE i \in ids : \A j \in ids : j <= i
    <2>1. k \in ids /\ \A j \in ids : j <= k
      BY <1>2, LastId
    <2>2. NextId(ids) = 1 + k
      BY <1>2 DEF NextId
    <2> HIDE DEF k
    <2> QED
      BY <2>1, <2>2
  <1> QED
    BY <1>1, <1>2

\* Every node of a set has its place in the order of the ids, and every place
\* its node.
Rank(S, n) == Cardinality({m \in S : m < n})

LEMMA RankType ==
  ASSUME NEW S \in SUBSET NodeIds, NEW n \in S
  PROVE  /\ IsFiniteSet(S) /\ Cardinality(S) \in Nat \ {0}
         /\ Rank(S, n) \in 0 .. Cardinality(S) - 1
  <1>1. IsFiniteSet(NodeIds)
    BY ProxyAssumption, FS_Interval DEF NodeIds
  <1>2. IsFiniteSet(S) /\ Cardinality(S) \in Nat
    BY <1>1, FS_Subset, FS_CardinalityType
  <1>3. /\ IsFiniteSet(S \ {n}) /\ Cardinality(S \ {n}) \in Nat
        /\ Cardinality(S \ {n}) = Cardinality(S) - 1
    BY <1>2, FS_RemoveElement, FS_CardinalityType
  <1>4. {m \in S : m < n} \subseteq S \ {n}
    BY DEF NodeIds
  <1>5. /\ Cardinality({m \in S : m < n}) \in Nat
        /\ Cardinality({m \in S : m < n}) <= Cardinality(S \ {n})
    BY <1>3, <1>4, FS_Subset, FS_CardinalityType
  <1> QED
    BY <1>2, <1>3, <1>5 DEF Rank

LEMMA RankOrders ==
  ASSUME NEW S \in SUBSET NodeIds, NEW m \in S, NEW n \in S, m # n
  PROVE  Rank(S, m) # Rank(S, n)
  <1> SUFFICES ASSUME NEW x \in S, NEW y \in S, x < y PROVE Rank(S, x) # Rank(S, y)
    <2>1. m < n \/ n < m
      BY DEF NodeIds
    <2> QED
      BY <2>1
  <1> DEFINE X == {k \in S : k < x}
             Y == {k \in S : k < y}
  <1>0. \A k \in S : k \in Int
    BY DEF NodeIds
  <1>1. X \subseteq Y /\ x \in Y /\ x \notin X
    BY <1>0
  <1>2. IsFiniteSet(Y)
    BY RankType, FS_Subset
  <1>3. Cardinality(Y \ {x}) = Cardinality(Y) - 1 /\ IsFiniteSet(Y \ {x})
    BY <1>1, <1>2, FS_RemoveElement
  <1>4. X \subseteq Y \ {x}
    BY <1>1
  <1>5. Cardinality(X) <= Cardinality(Y) - 1
    BY <1>3, <1>4, FS_Subset
  <1>6. Cardinality(X) \in Nat /\ Cardinality(Y) \in Nat
    BY <1>2, <1>3, <1>4, FS_Subset, FS_CardinalityType
  <1> HIDE DEF X, Y
  <1>7. Cardinality(X) # Cardinality(Y)
    BY <1>5, <1>6
  <1> QED
    BY <1>7 DEF Rank, X, Y

LEMMA ListedAt ==
  ASSUME NEW S \in SUBSET NodeIds, NEW i \in 0 .. Cardinality(S) - 1, S # {}
  PROVE  Listed(S, i) \in S /\ Rank(S, Listed(S, i)) = i
  <1> DEFINE K == Cardinality(S)
             f == [n \in S |-> Rank(S, n)]
  <1>1. PICK n : n \in S
    OBVIOUS
  <1>2. IsFiniteSet(S) /\ K \in Nat \ {0}
    BY <1>1, RankType
  <1>3. f \in [S -> 0 .. K - 1]
    BY RankType
  <1>4. f \in Injection(S, 0 .. K - 1)
    BY <1>3, RankOrders, Fun_IsInj
  <1>5. IsFiniteSet(0 .. K - 1) /\ Cardinality(0 .. K - 1) = K
    BY <1>2, FS_Interval
  <1>6. f \in Surjection(S, 0 .. K - 1)
    BY <1>2, <1>4, <1>5, FS_Injection
  <1>7. \E m \in S : f[m] = i
    <2>1. \A t \in 0 .. K - 1 : \E m \in S : f[m] = t
      <3> HIDE DEF f, K
      <3> QED
        BY <1>6, Fun_SurjectionProperties
    <2> HIDE DEF f
    <2> QED
      BY <2>1
  <1>8. PICK m \in S : Rank(S, m) = i
    BY <1>7
  <1>9. Listed(S, i) = CHOOSE k \in S : Rank(S, k) = i
    BY DEF Listed, Rank
  <1> QED
    BY <1>8, <1>9

\* The nodes pool p can offer.
Here(p) == Healthy(home, status, p)

\* How many choices of the pool come before that of a node.
Gap(p, n) ==
    LET K  == Cardinality(Here(p))
        at == cursor[p] % K
        r  == Rank(Here(p), n)
    IN  IF r >= at THEN r - at ELSE r + K - at

TakesTurns(p) ==
    \A m, n \in Here(p) :
       /\ SavedTurns(m) <= SavedTurns(n) + 1
       /\ Gap(p, m) < Gap(p, n) => SavedTurns(m) <= SavedTurns(n)

PoolTypes ==
    /\ pools \subseteq PoolIds
    /\ strategy = [p \in PoolIds |-> strategy[p]] /\ cursor \in [PoolIds -> Nat]
    /\ home \in [NodeIds -> pools \cup {NoPool}] /\ status = [n \in NodeIds |-> status[n]]
    /\ tally \in [NodeIds -> Nat] /\ again \in [NodeIds -> Nat]

EvenTurns == PoolTypes /\ \A p \in pools : TakesTurns(p)

LEMMA RotatingInit ==
  ASSUME PlayInit
  PROVE  EvenTurns
  <1> USE DEF PlayInit, GatewayInit, PoolsInit
  <1>1. pools \subseteq PoolIds
    BY ProxyAssumption DEF PoolIds
  <1>2. PICK s : strategy = [p \in PoolIds |-> s]
    OBVIOUS
  <1>3. PICK i \in 0 .. 1 : cursor = [p \in PoolIds |-> i]
    OBVIOUS
  <1>4. /\ home \in [NodeIds -> pools \cup {NoPool}] /\ status = [n \in NodeIds |-> status[n]]
        /\ tally = [n \in NodeIds |-> 0] /\ again = [n \in NodeIds |-> 0]
    OBVIOUS
  <1>5. PoolTypes
    BY <1>1, <1>2, <1>3, <1>4 DEF PoolTypes
  <1>6. \A p \in pools : TakesTurns(p)
    BY <1>4 DEF TakesTurns, SavedTurns, Here, Healthy
  <1> QED
    BY <1>5, <1>6 DEF EvenTurns

\* What a step is to the pools.
LEMMA StepOfPools ==
  ASSUME [PlayNext]_playVars
  PROVE  \/ ConfigurePools \/ Probing \/ SelectNode
         \/ UNCHANGED <<pools, strategy, cursor, home, status, tally, again>>
  <1> DEFINE Same == UNCHANGED <<pools, strategy, cursor, home, status, tally, again>>
  <1>1. poolVars' = poolVars => Same
    BY DEF poolVars
  <1>2. ASSUME NEW c \in Calls, Arrive(c)
        PROVE  SelectNode \/ Same
    <2>1. PICK a : Starve(c, a) \/ Refuse(c, a) \/ CallUpstream(c, a)
      BY <1>2 DEF Arrive
    <2> QED
      BY <1>1, <2>1 DEF Starve, Refuse, CallUpstream
  <1>3. ASSUME NEW c \in Calls, Handles(c)
        PROVE  Same
    <2>1. CASE Answered(c) \/ Mangled(c) \/ Failed(c)
      BY <1>1, <2>1 DEF Answered, Mangled, Failed, Ends
    <2>2. CASE Primed(c) \/ Log(c) \/ Told(c) \/ Eof(c)
      BY <1>1, <2>2 DEF Primed, Log, Told, Eof
    <2>3. CASE Cut(c) \/ Leave(c)
      BY <1>1, <2>3 DEF Cut, Leave, BreaksOff
    <2> QED
      BY <1>3, <2>1, <2>2, <2>3 DEF Handles
  <1>4. ASSUME NEW t \in Turns, Submit(t) \/ StreamStops(t)
        PROVE  SelectNode \/ Same
    <2>1. t \in Calls /\ (Arrive(t) \/ Handles(t))
      BY <1>4 DEF Submit, StreamStops, Handles, Calls
    <2> QED
      BY <1>2, <1>3, <2>1
  <1>5. ASSUME NEW c \in Calls, Elsewhere(c)
        PROVE  SelectNode \/ Same
    <2>1. Arrive(c) \/ Handles(c)
      BY <1>5 DEF Elsewhere, Handles
    <2> QED
      BY <1>2, <1>3, <2>1
  <1>6. ASSUME NEW t \in Turns, NEW s \in Sids, Ask(t, s)
        PROVE  Same
    BY <1>1, <1>6 DEF Ask
  <1>7. ASSUME NEW t \in Turns, NEW b \in BOOLEAN, AskInVain(t) \/ Store(t, b)
        PROVE  Same
    BY <1>1, <1>7 DEF AskInVain, Store
  <1>8. ASSUME NEW b \in BOOLEAN, CreateSession(b)
        PROVE  Same
    BY <1>1, <1>8 DEF CreateSession, gatewayVars
  <1>9. ASSUME NEW s \in Sids, UpdateSession(s) \/ DeleteSession(s)
        PROVE  Same
    BY <1>1, <1>9 DEF UpdateSession, DeleteSession, gatewayVars
  <1>10. ASSUME UNCHANGED playVars
         PROVE  Same
    BY <1>1, <1>10 DEF playVars, gatewayVars
  <1> HIDE DEF Same
  <1>11. ASSUME PlayNext
         PROVE  ConfigurePools \/ Probing \/ SelectNode \/ Same
    <2>1. CASE \E b \in BOOLEAN : CreateSession(b)
      BY <1>8, <2>1
    <2>2. CASE \E s \in Sids : UpdateSession(s) \/ DeleteSession(s)
      BY <1>9, <2>2
    <2>3. ASSUME NEW t \in Turns, \/ \E s \in Sids : Ask(t, s)
                                  \/ AskInVain(t) \/ Submit(t) \/ StreamStops(t)
                                  \/ \E b \in BOOLEAN : Store(t, b)
          PROVE  SelectNode \/ Same
      BY <1>4, <1>6, <1>7, <2>3
    <2>4. CASE \E c \in Calls : Elsewhere(c)
      BY <1>5, <2>4
    <2>5. CASE Besides
      <3>1. (\E w \in Errands : OnErrand(w)) => Same
        BY <1>1 DEF OnErrand, Borrow, GiveBack
      <3> QED
        BY <2>5, <3>1 DEF Besides, Configures, Probes
    <2> QED
      BY <1>11, <2>1, <2>2, <2>3, <2>4, <2>5 DEF PlayNext
  <1>12. ConfigurePools \/ Probing \/ SelectNode \/ Same
    BY <1>10, <1>11
  <1> QED
    BY <1>12 DEF Same

\* The counts of a pool stay, or start again together.
LEMMA RecountKeepsTurns ==
  ASSUME PoolTypes, PoolTypes', Recount(home', status', strategy'),
         NEW p \in pools, cursor'[p] = cursor[p], TakesTurns(p)
  PROVE  TakesTurns(p)'
  <1>1. p # NoPool
    BY DEF PoolTypes, PoolIds, NoPool
  <1>2. \A n \in Here(p)' : n \in NodeIds /\ home'[n] = p
    BY DEF Here, Healthy
  <1>3. CASE Here(p)' = Here(p) /\ strategy'[p] = strategy[p]
    <2>1. \A n \in Here(p) : SavedTurns(n)' = SavedTurns(n)
      <3> SUFFICES ASSUME NEW n \in Here(p) PROVE tally'[n] = tally[n] /\ again'[n] = again[n]
        BY DEF SavedTurns
      <3>1. n \in NodeIds /\ home[n] = p /\ home'[n] = p
        BY <1>2, <1>3 DEF Here, Healthy
      <3> QED
        BY <1>1, <1>3, <3>1 DEF Recount, Here
    <2>2. \A n \in Here(p) : Gap(p, n)' = Gap(p, n)
      BY <1>3 DEF Gap
    <2> QED
      BY <1>3, <2>1, <2>2 DEF TakesTurns
  <1>4. CASE ~ (Here(p)' = Here(p) /\ strategy'[p] = strategy[p])
    <2>1. \A n \in Here(p)' : tally'[n] = 0 /\ again'[n] = 0
      BY <1>2, <1>4 DEF Recount, Here
    <2> QED
      BY <2>1 DEF TakesTurns, SavedTurns
  <1> QED
    BY <1>3, <1>4

\* A pool without a row has no nodes.
LEMMA NewPoolInTurn ==
  ASSUME PoolTypes, NEW p \in PoolIds \ pools, home' = home
  PROVE  TakesTurns(p)'
  <1>1. p # NoPool
    BY DEF PoolIds, NoPool
  <1>2. \A n \in NodeIds : home'[n] # p
    BY <1>1 DEF PoolTypes
  <1>3. Here(p)' = {}
    BY <1>2 DEF Here, Healthy
  <1> QED
    BY <1>3 DEF TakesTurns

\* The changes of the tables through the REST API.
LEMMA EditsRotate ==
  ASSUME EvenTurns, ConfigurePools
  PROVE  EvenTurns'
  <1> USE DEF EvenTurns
  <1>n. NoPool \notin PoolIds
    BY DEF PoolIds, NoPool
  \* A change that keeps its types and the cursors of the pools there are.
  <1>c. ASSUME NEW ps, NEW strat, NEW cur, NEW h, NEW s, Change(ps, strat, cur, h, s),
               ps \subseteq PoolIds, strat = [p \in PoolIds |-> strat[p]],
               cur \in [PoolIds -> Nat], h \in [NodeIds -> ps \cup {NoPool}],
               s = [n \in NodeIds |-> s[n]], \A p \in pools : cur[p] = cursor[p],
               ps \subseteq pools \/ h = home
        PROVE  EvenTurns'
    <2>1. pools' = ps /\ strategy' = strat /\ cursor' = cur /\ home' = h /\ status' = s
      BY <1>c DEF Change
    <2>2. Recount(home', status', strategy')
      BY <1>c, <2>1 DEF Change
    <2>3. tally' \in [NodeIds -> Nat] /\ again' \in [NodeIds -> Nat]
      BY <2>2 DEF Recount, PoolTypes
    <2>4. PoolTypes'
      BY <1>c, <2>1, <2>3 DEF PoolTypes
    <2>5. ASSUME NEW p \in pools' PROVE TakesTurns(p)'
      <3>1. CASE p \in pools
        BY <1>c, <2>1, <2>2, <2>4, <3>1, RecountKeepsTurns
      <3>2. CASE p \notin pools
        BY <1>c, <2>1, <3>2, NewPoolInTurn
      <3> QED
        BY <3>1, <3>2
    <2> QED
      BY <2>4, <2>5
  <1>1. ASSUME NEW strat, CreatePool(strat)
        PROVE  EvenTurns'
    <2> DEFINE p == NextId(pools)
    <2>1. p \in PoolIds /\ p \notin pools
      BY <1>1, NextIdIsNew, ProxyAssumption DEF CreatePool, PoolTypes, PoolIds
    <2>2. Change(pools \cup {p}, [strategy EXCEPT ![p] = strat], [cursor EXCEPT ![p] = 0],
                 home, status)
      BY <1>1 DEF CreatePool
    <2> HIDE DEF p
    <2>3. home \in [NodeIds -> (pools \cup {p}) \cup {NoPool}]
      BY DEF PoolTypes
    <2>4. \A q \in pools : [cursor EXCEPT ![p] = 0][q] = cursor[q]
      BY <2>1 DEF PoolTypes
    <2>5. [cursor EXCEPT ![p] = 0] \in [PoolIds -> Nat]
      BY DEF PoolTypes
    <2>6. /\ pools \cup {p} \subseteq PoolIds
          /\ strategy = [q \in PoolIds |-> strategy[q]] /\ status = [n \in NodeIds |-> status[n]]
      BY <2>1 DEF PoolTypes
    <2> DEFINE st == [strategy EXCEPT ![p] = strat]
    <2>7. st = [q \in PoolIds |-> st[q]]
      BY <2>6
    <2> HIDE DEF st
    <2> QED
      BY <1>c, <2>2, <2>3, <2>4, <2>5, <2>6, <2>7 DEF st
  <1>2. ASSUME NEW p \in PoolIds, NEW strat, UpdatePool(p, strat)
        PROVE  EvenTurns'
    <2>1. Change(pools, [strategy EXCEPT ![p] = strat], cursor, home, status)
      BY <1>2 DEF UpdatePool
    <2> QED
      BY <1>c, <2>1 DEF PoolTypes
  <1>3. ASSUME NEW p \in PoolIds, DeletePool(p)
        PROVE  EvenTurns'
    <2> DEFINE gone == {n \in NodeIds : home[n] = p}
               h == [n \in NodeIds |-> IF n \in gone THEN NoPool ELSE home[n]]
               s == [n \in NodeIds |-> IF n \in gone THEN "unknown" ELSE status[n]]
    <2>1. Change(pools \ {p}, strategy, cursor, h, s)
      BY <1>3 DEF DeletePool
    <2>2. h \in [NodeIds -> (pools \ {p}) \cup {NoPool}]
      BY DEF PoolTypes
    <2>3. s = [n \in NodeIds |-> s[n]]
      OBVIOUS
    <2> HIDE DEF h, s
    <2> QED
      BY <1>c, <2>1, <2>2, <2>3 DEF PoolTypes
  <1>4. ASSUME NEW p \in PoolIds, AddNode(p)
        PROVE  EvenTurns'
    <2> DEFINE n == NextId(Nodes)
    <2>1. p \in pools /\ n \in NodeIds
          /\ Change(pools, strategy, cursor, [home EXCEPT ![n] = p], [status EXCEPT ![n] = "unknown"])
      BY <1>4 DEF AddNode
    <2> HIDE DEF n
    <2>2. [home EXCEPT ![n] = p] \in [NodeIds -> pools \cup {NoPool}]
      BY <2>1 DEF PoolTypes
    <2> QED
      BY <1>c, <2>1, <2>2 DEF PoolTypes
  <1>5. ASSUME NEW n \in NodeIds, NEW s, UpdateNode(n, s)
        PROVE  EvenTurns'
    <2>1. Change(pools, strategy, cursor, home, [status EXCEPT ![n] = s])
      BY <1>5 DEF UpdateNode
    <2> QED
      BY <1>c, <2>1 DEF PoolTypes
  <1>6. ASSUME NEW n \in NodeIds, DeleteNode(n)
        PROVE  EvenTurns'
    <2>1. Change(pools, strategy, cursor, [home EXCEPT ![n] = NoPool],
                 [status EXCEPT ![n] = "unknown"])
      BY <1>6 DEF DeleteNode
    <2>2. [home EXCEPT ![n] = NoPool] \in [NodeIds -> pools \cup {NoPool}]
      BY DEF PoolTypes
    <2> QED
      BY <1>c, <2>1, <2>2 DEF PoolTypes
  <1>7. ASSUME NEW p \in PoolIds, BindPool(p)
        PROVE  EvenTurns'
    <2>1. UNCHANGED <<pools, strategy, cursor, home, status, tally, again>>
      BY <1>7 DEF BindPool
    <2> QED
      BY <2>1 DEF PoolTypes, TakesTurns, SavedTurns, Gap, Here
  <1> QED
    BY <1>1, <1>2, <1>3, <1>4, <1>5, <1>6, <1>7 DEF ConfigurePools

\* A health check only writes at its end.
LEMMA ChecksRotate ==
  ASSUME EvenTurns, Probing
  PROVE  EvenTurns'
  <1> USE DEF EvenTurns
  <1>1. ASSUME NEW c \in Checks, NEW p \in PoolIds, StartCheck(c, p)
        PROVE  EvenTurns'
    <2>1. UNCHANGED <<pools, strategy, cursor, home, status, tally, again>>
      BY <1>1 DEF StartCheck, editables
    <2> QED
      BY <2>1 DEF PoolTypes, TakesTurns, SavedTurns, Gap, Here
  <1>2. ASSUME NEW c \in Checks, NEW found, FinishCheck(c, found)
        PROVE  EvenTurns'
    <2>1. UNCHANGED <<pools, strategy, cursor, home>>
      BY <1>2 DEF FinishCheck
    <2>2. Recount(home', status', strategy')
      BY <1>2, <2>1 DEF FinishCheck
    <2>3. status' = [n \in NodeIds |-> status'[n]]
      BY <1>2 DEF FinishCheck, Findings, PoolTypes
    <2>4. tally' \in [NodeIds -> Nat] /\ again' \in [NodeIds -> Nat]
      BY <2>2 DEF Recount, PoolTypes
    <2>5. PoolTypes'
      BY <2>1, <2>3, <2>4 DEF PoolTypes
    <2> QED
      BY <2>1, <2>2, <2>5, RecountKeepsTurns
  <1> QED
    BY <1>1, <1>2 DEF Probing

\* A choice: whoever is chosen goes to the end, and the others come one closer; if
\* the cursor is not saved, everyone keeps its place.
LEMMA ChoiceRotates ==
  ASSUME EvenTurns, SelectNode
  PROVE  EvenTurns'
  <1> USE DEF EvenTurns
  <1> SUFFICES ASSUME NEW p, p = bound PROVE EvenTurns'
    OBVIOUS
  <1> DEFINE S  == Here(p)
             K  == Cardinality(S)
             at == cursor[p] % K
  <1>1. CASE ~ (p \in pools /\ S # {} /\ strategy[p] = "round_robin")
    <2>1. UNCHANGED poolVars
      BY <1>1 DEF SelectNode, Here
    <2> QED
      BY <2>1 DEF poolVars, PoolTypes, TakesTurns, SavedTurns, Gap, Here
  <1>2. CASE p \in pools /\ S # {} /\ strategy[p] = "round_robin"
                /\ cursor' = cursor /\ again' = [again EXCEPT ![Listed(S, at)] = @ + 1]
    <2>1. /\ tally' = [tally EXCEPT ![Listed(S, at)] = @ + 1]
          /\ UNCHANGED <<pools, strategy, home, status>>
      BY <1>2 DEF SelectNode, Here
    <2> DEFINE x == Listed(S, at)
    <2>2. tally' = [tally EXCEPT ![x] = @ + 1] /\ again' = [again EXCEPT ![x] = @ + 1]
      BY <1>2, <2>1
    <2> HIDE DEF x, S, at, K
    <2>3. /\ tally \in [NodeIds -> Nat] /\ again \in [NodeIds -> Nat]
      BY DEF PoolTypes
    <2>4. tally' \in [NodeIds -> Nat] /\ again' \in [NodeIds -> Nat]
      <3>1. ASSUME NEW f \in [NodeIds -> Nat]
            PROVE  [f EXCEPT ![x] = @ + 1] \in [NodeIds -> Nat]
        <4>1. CASE x \in NodeIds
          <5>1. f[x] + 1 \in Nat
            BY <4>1
          <5> QED
            BY <5>1
        <4>2. CASE x \notin NodeIds
          <5>1. [f EXCEPT ![x] = @ + 1] = f
            BY <4>2
          <5> QED
            BY <5>1
        <4> QED
          BY <4>1, <4>2
      <3> QED
        BY <2>2, <2>3, <3>1
    <2>5. PoolTypes'
      BY <1>2, <2>1, <2>4 DEF PoolTypes
    <2>6. \A n \in NodeIds : SavedTurns(n)' = SavedTurns(n)
      BY <2>2, <2>3 DEF SavedTurns
    <2>7. \A q \in pools : Here(q)' = Here(q) /\ Here(q) \subseteq NodeIds
      BY <2>1 DEF Here, Healthy
    <2>8. \A q \in pools : \A n \in Here(q) : Gap(q, n)' = Gap(q, n)
      BY <1>2, <2>7 DEF Gap
    <2>9. \A q \in pools : TakesTurns(q)'
      BY <2>6, <2>7, <2>8 DEF TakesTurns
    <2> QED
      BY <2>1, <2>5, <2>9
  <1>3. CASE p \in pools /\ S # {} /\ strategy[p] = "round_robin"
                /\ cursor' = [cursor EXCEPT ![p] = cursor[p] + 1] /\ again' = again
    <2>1. /\ cursor' = [cursor EXCEPT ![p] = cursor[p] + 1]
          /\ tally' = [tally EXCEPT ![Listed(S, at)] = @ + 1]
          /\ UNCHANGED <<pools, strategy, home, status, again>>
      BY <1>3 DEF SelectNode, Here
    <2>2. p \in PoolIds /\ cursor[p] \in Nat /\ S \in SUBSET NodeIds
      BY <1>3 DEF PoolTypes, Here, Healthy
    <2>3. PICK y : y \in S
      BY <1>3
    <2>4. K \in Nat \ {0} /\ \A m \in S : Rank(S, m) \in 0 .. K - 1
      BY <2>2, <2>3, RankType
    <2>5. at \in 0 .. K - 1
      BY <2>2, <2>4, Division
    <2>6. PICK x \in S : Rank(S, x) = at /\ tally' = [tally EXCEPT ![x] = @ + 1]
      BY <1>3, <2>1, <2>2, <2>5, ListedAt
    <2>7. (cursor[p] + 1) % K = IF at + 1 = K THEN 0 ELSE at + 1
      BY <2>2, <2>4, Around
    <2>8. \A m \in S : m # x => Rank(S, m) # at
      BY <2>2, <2>6, RankOrders
    <2>9. \A q \in PoolIds : Here(q)' = Here(q)
      BY <2>1 DEF Here
    <2>10. \A m \in S : Gap(p, m) = IF Rank(S, m) >= at THEN Rank(S, m) - at
                                                        ELSE Rank(S, m) + K - at
      BY DEF Gap
    <2>11. cursor'[p] = cursor[p] + 1
      BY <2>1, <2>2 DEF PoolTypes
    <2>12. \A m \in S : Gap(p, m)' = LET to == (cursor[p] + 1) % K
                                     IN  IF Rank(S, m) >= to THEN Rank(S, m) - to
                                                             ELSE Rank(S, m) + K - to
      BY <2>2, <2>9, <2>11 DEF Gap
    <2>13. \A m \in S : tally[m] \in Nat /\ SavedTurns(m) \in Int
      BY <2>2 DEF PoolTypes, SavedTurns
    <2>14. /\ SavedTurns(x)' = SavedTurns(x) + 1
           /\ \A m \in NodeIds : m # x => SavedTurns(m)' = SavedTurns(m)
      BY <2>1, <2>2, <2>6 DEF PoolTypes, SavedTurns
    <2>15. PoolTypes'
      <3>1. tally[x] + 1 \in Nat /\ cursor[p] + 1 \in Nat
        BY <2>2, <2>6, <2>13
      <3>2. tally \in [NodeIds -> Nat] /\ cursor \in [PoolIds -> Nat]
        BY DEF PoolTypes
      <3>3. tally' \in [NodeIds -> Nat]
        BY <2>6, <3>1, <3>2
      <3>4. cursor' \in [PoolIds -> Nat]
        BY <2>1, <3>1, <3>2
      <3> QED
        BY <2>1, <3>3, <3>4 DEF PoolTypes
    <2> HIDE DEF K, at, S
    <2>16. Gap(p, x) = 0 /\ Gap(p, x)' = K - 1
      BY <2>4, <2>5, <2>6, <2>7, <2>10, <2>12
    <2>17. ASSUME NEW m \in S, m # x
           PROVE  /\ Gap(p, m) \in 1 .. K - 1 /\ Gap(p, m)' = Gap(p, m) - 1
                  /\ SavedTurns(m)' = SavedTurns(m)
      <3>1. Rank(S, m) \in 0 .. K - 1 /\ Rank(S, m) # at
        BY <2>4, <2>8, <2>17
      <3>2. Gap(p, m) \in 1 .. K - 1
        BY <2>4, <2>5, <2>10, <3>1
      <3>3. Gap(p, m)' = Gap(p, m) - 1
        BY <2>4, <2>5, <2>7, <2>10, <2>12, <3>1
      <3> QED
        BY <2>2, <2>14, <2>17, <3>2, <3>3
    <2>18. \A m, n \in S : /\ SavedTurns(m) <= SavedTurns(n) + 1
                           /\ Gap(p, m) < Gap(p, n) => SavedTurns(m) <= SavedTurns(n)
      BY <1>3 DEF TakesTurns, S
    <2>19. ASSUME NEW m \in S, NEW k \in S
           PROVE  /\ SavedTurns(m)' <= SavedTurns(k)' + 1
                  /\ Gap(p, m)' < Gap(p, k)' => SavedTurns(m)' <= SavedTurns(k)'
      <3>1. SavedTurns(m) \in Int /\ SavedTurns(k) \in Int
        BY <2>13
      <3>2. CASE m = x /\ k = x
        BY <2>14, <3>1, <3>2
      <3>3. CASE m = x /\ k # x
        <4>1. Gap(p, m) < Gap(p, k) /\ ~ (Gap(p, m)' < Gap(p, k)')
          BY <2>4, <2>16, <2>17, <3>3
        <4> QED
          BY <2>14, <2>17, <2>18, <3>1, <3>3, <4>1
      <3>4. CASE m # x /\ k = x
        <4>1. SavedTurns(m)' = SavedTurns(m) /\ SavedTurns(k)' = SavedTurns(k) + 1 /\ SavedTurns(m) <= SavedTurns(k) + 1
          BY <2>14, <2>17, <2>18, <3>4
        <4> QED
          BY <3>1, <4>1
      <3>5. CASE m # x /\ k # x
        <4>1. SavedTurns(m)' = SavedTurns(m) /\ SavedTurns(k)' = SavedTurns(k)
          BY <2>17, <3>5
        <4>2. Gap(p, m)' = Gap(p, m) - 1 /\ Gap(p, k)' = Gap(p, k) - 1
              /\ Gap(p, m) \in Int /\ Gap(p, k) \in Int
          BY <2>4, <2>17, <3>5
        <4>3. Gap(p, m)' < Gap(p, k)' => Gap(p, m) < Gap(p, k)
          BY <4>2
        <4> QED
          BY <2>18, <4>1, <4>3
      <3> QED
        BY <3>2, <3>3, <3>4, <3>5
    <2>20. TakesTurns(p)'
      BY <2>2, <2>9, <2>19 DEF TakesTurns, S
    <2>21. ASSUME NEW q \in pools, q # p
           PROVE  TakesTurns(q)'
      <3>1. q \in PoolIds /\ Here(q)' = Here(q) /\ cursor'[q] = cursor[q]
        BY <2>1, <2>9, <2>21 DEF PoolTypes
      <3>2. \A n \in Here(q) : Gap(q, n)' = Gap(q, n)
        BY <3>1 DEF Gap
      <3>3. \A n \in Here(q) : SavedTurns(n)' = SavedTurns(n)
        <4>1. \A n \in Here(q) : n \in NodeIds /\ n # x
          BY <2>6, <2>21 DEF Here, Healthy, S
        <4> QED
          BY <2>14, <4>1
      <3> QED
        BY <3>1, <3>2, <3>3 DEF TakesTurns
    <2>22. \A q \in pools' : TakesTurns(q)'
      BY <2>1, <2>20, <2>21
    <2> QED
      BY <2>15, <2>22
  <1>4. p \in pools /\ S # {} /\ strategy[p] = "round_robin" =>
           \/ cursor' = cursor /\ again' = [again EXCEPT ![Listed(S, at)] = @ + 1]
           \/ cursor' = [cursor EXCEPT ![p] = cursor[p] + 1] /\ again' = again
    BY DEF SelectNode, Here, Advanced
  <1> QED
    BY <1>1, <1>2, <1>3, <1>4

\* The healthy nodes of a round-robin pool take turns: none has had two more than
\* another since one of them came, went, fell ill or recovered, for any pools and
\* nodes, whatever requests, checks and edits run side by side.  A request after which
\* the cursor could not be saved does not end the turn.
THEOREM RotationIsEven == PlaySpec => []RotationEven
  <1>1. PlayInit => EvenTurns
    BY RotatingInit
  <1>2. EvenTurns /\ [PlayNext]_playVars => EvenTurns'
    <2> SUFFICES ASSUME EvenTurns, [PlayNext]_playVars PROVE EvenTurns'
      OBVIOUS
    <2>1. CASE UNCHANGED <<pools, strategy, cursor, home, status, tally, again>>
      BY <2>1 DEF EvenTurns, PoolTypes, TakesTurns, SavedTurns, Gap, Here
    <2> QED
      BY <2>1, StepOfPools, EditsRotate, ChecksRotate, ChoiceRotates
  <1>3. EvenTurns => RotationEven
    BY DEF EvenTurns, TakesTurns, RotationEven, Here
  <1> QED
    BY <1>1, <1>2, <1>3, PTL DEF PlaySpec

-----------------------------------------------------------------------------
(* The transcript.  A turn of a session that is still there has its rows,  *)
(* the question before the answer (Remembering); a row of no session that  *)
(* is there is a late answer (Owned).                                      *)

ChatTypes ==
    /\ births \in Nat /\ birth \in [Sids -> Nat] /\ chats \subseteq Sids
    /\ \A s \in Sids : birth[s] <= births
    /\ of = [t \in Turns |-> of[t]]
    /\ \A t \in Turns : of[t].birth \in Nat /\ of[t].birth <= births
    /\ \E N \in Nat : \A m \in msgs : m.id \in 1 .. N

Speaking ==
    \A t \in Turns : /\ t \in spoke => phase[t] = "ended"
                     /\ phase[t] = "asked" => busy = t

\* The session a turn was sent to is still there.
Lives(t) == of[t].sid \in chats /\ birth[of[t].sid] = of[t].birth

Recalled(t) ==
    \E m \in msgs :
       /\ Says(m, t, "user")
       /\ t \in spoke /\ t \notin starved =>
             \E n \in msgs : Says(n, t, "assistant") /\ m.id < n.id

Remembering == \A t \in Turns : Lives(t) => Recalled(t)

Owned ==
    \A m \in msgs :
       \/ m.sid \in chats /\ m.birth = birth[m.sid]
       \/ m.role = "assistant" /\ m.turn \in late

Transcript == ChatTypes /\ Speaking /\ Remembering /\ NoTurnForgotten /\ Owned

\* What a step is to the transcript.
LEMMA StepOfChats ==
  ASSUME [PlayNext]_playVars
  PROVE  \/ \E b \in BOOLEAN : CreateSession(b)
         \/ \E s \in Sids : DeleteSession(s)
         \/ \E t \in Turns, s \in Sids : Ask(t, s)
         \/ \E t \in Turns : AskInVain(t)
         \/ \E t \in Turns, b \in BOOLEAN : Store(t, b)
         \/ \E c \in Calls : /\ Arrive(c) \/ Handles(c)
                             /\ UNCHANGED <<chats, birth, births, msgs, of, spoke, late>>
         \/ UNCHANGED <<phase, busy, starved,
                        chats, birth, births, msgs, prompt, of, spoke, late>>
  <1> DEFINE Still == UNCHANGED <<phase, busy, starved,
                                  chats, birth, births, msgs, prompt, of, spoke, late>>
             Calling(c) == /\ Arrive(c) \/ Handles(c)
                           /\ UNCHANGED <<chats, birth, births, msgs, of, spoke, late>>
  <1>1. ASSUME NEW t \in Turns, Submit(t) \/ StreamStops(t)
        PROVE  t \in Calls /\ Calling(t)
    BY <1>1 DEF Submit, StreamStops, Handles, chatVars, Calls
  <1>2. ASSUME NEW c \in Calls, Elsewhere(c)
        PROVE  Calling(c)
    BY <1>2 DEF Elsewhere, Handles, chatVars
  <1>3. ASSUME NEW s \in Sids, UpdateSession(s)
        PROVE  Still
    BY <1>3 DEF UpdateSession, gatewayVars, callVars
  <1>4. ASSUME Besides
        PROVE  Still
    BY <1>4 DEF Besides, Configures, Probes, OnErrand, Borrow, GiveBack, callVars, chatVars
  <1>5. ASSUME UNCHANGED playVars
        PROVE  Still
    BY <1>5 DEF playVars, gatewayVars, callVars, chatVars
  <1> HIDE DEF Still, Calling
  <1>6. \/ \E b \in BOOLEAN : CreateSession(b)
        \/ \E s \in Sids : DeleteSession(s)
        \/ \E t \in Turns, s \in Sids : Ask(t, s)
        \/ \E t \in Turns : AskInVain(t)
        \/ \E t \in Turns, b \in BOOLEAN : Store(t, b)
        \/ \E c \in Calls : Calling(c)
        \/ Still
    BY <1>1, <1>2, <1>3, <1>4, <1>5 DEF PlayNext
  <1> QED
    BY <1>6 DEF Still, Calling

\* The steps of a call once it was asked: no question is on its way after
\* them, nothing of an ended call changes, and a failed checkout is not undone.
LEMMA CallsInChat ==
  ASSUME CallTypes, Speaking, NEW c \in Calls, Arrive(c) \/ Handles(c)
  PROVE  /\ \A t \in Turns : phase'[t] # "asked"
         /\ \A t \in Turns : phase[t] = "ended" => phase'[t] = "ended"
         /\ starved \subseteq starved'
  <1> USE DEF CallTypes
  <1>0. Turns \subseteq Calls /\ Nobody \notin Turns
    BY CallAssumption DEF Calls
  <1>1. /\ busy = Nobody \/ busy = c
        /\ phase[c] # "ended" /\ phase'[c] # "asked"
        /\ \A d \in Calls \ {c} : phase'[d] = phase[d]
        /\ starved \subseteq starved'
    <2>1. CASE Arrive(c)
      <3>1. PICK a : Starve(c, a) \/ Refuse(c, a) \/ CallUpstream(c, a)
        BY <2>1 DEF Arrive
      <3> QED
        BY <3>1 DEF Starve, Refuse, CallUpstream, Enters, Concludes, Returns
    <2>2. CASE Answered(c) \/ Mangled(c) \/ Failed(c)
      BY <2>2 DEF Answered, Mangled, Failed, Awaits, Record, Ends, Concludes, Returns
    <2>3. CASE Primed(c)
      BY <2>3 DEF Primed, Awaits, Returns
    <2>4. CASE Log(c)
      BY <2>4 DEF Log
    <2>5. CASE Told(c) \/ Eof(c)
      BY <2>5 DEF Told, Eof, Flows, Record
    <2>6. CASE Cut(c) \/ Leave(c)
      BY <2>6 DEF Cut, Leave, BreaksOff, Flows
    <2> QED
      BY <2>1, <2>2, <2>3, <2>4, <2>5, <2>6 DEF Handles
  <1>2. ASSUME NEW t \in Turns, phase'[t] = "asked" PROVE FALSE
    <2>1. t # c /\ phase[t] = "asked"
      BY <1>0, <1>1, <1>2
    <2>2. busy = t
      BY <2>1 DEF Speaking
    <2> QED
      BY <1>0, <1>1, <2>1, <2>2
  <1> QED
    BY <1>0, <1>1, <1>2

\* The rows go on being what they were to a turn that is kept as it was.
LEMMA RecalledStays ==
  ASSUME NEW t \in Turns, Recalled(t), of'[t] = of[t], t \in spoke' => t \in spoke,
         t \notin starved' => t \notin starved,
         \A m \in msgs : m.sid = of[t].sid => m \in msgs'
  PROVE  Recalled(t)'
  <1>1. PICK m \in msgs : /\ Says(m, t, "user")
                          /\ t \in spoke /\ t \notin starved =>
                                \E n \in msgs : Says(n, t, "assistant") /\ m.id < n.id
    BY DEF Recalled
  <1>2. \A n : \A role : Says(n, t, role)' <=> Says(n, t, role)
    BY DEF Says
  <1>3. m \in msgs' /\ Says(m, t, "user")'
    BY <1>1, <1>2 DEF Says
  <1>4. ASSUME t \in spoke', t \notin starved'
        PROVE  \E n \in msgs' : Says(n, t, "assistant")' /\ m.id < n.id
    <2>1. PICK n \in msgs : Says(n, t, "assistant") /\ m.id < n.id
      BY <1>1, <1>4
    <2>2. n \in msgs'
      BY <2>1 DEF Says
    <2> QED
      BY <1>2, <2>1, <2>2
  <1> QED
    BY <1>3, <1>4 DEF Recalled

\* No question is on its way: there is nothing to be said of its prompt.
LEMMA NoQuestion ==
  ASSUME \A t \in Turns : phase'[t] # "asked"
  PROVE  NoTurnForgotten'
  BY DEF NoTurnForgotten

\* A new row has an id above all others.
LEMMA RowsGrow ==
  ASSUME ChatTypes, NEW session, NEW role, NEW t
  PROVE  LET r == Row(session, role, t)
         IN  /\ r.sid = session.sid /\ r.birth = session.birth /\ r.role = role /\ r.turn = t
             /\ \A m \in msgs : m.id < r.id
             /\ \E N \in Nat : \A m \in msgs \cup {r} : m.id \in 1 .. N
  <1> DEFINE r   == Row(session, role, t)
             ids == {m.id : m \in msgs}
  <1>1. PICK N \in Nat : \A m \in msgs : m.id \in 1 .. N
    BY DEF ChatTypes
  <1>2. ids \in SUBSET (1 .. N)
    BY <1>1
  <1>3. r.id = NextId(ids) /\ r.sid = session.sid /\ r.birth = session.birth
        /\ r.role = role /\ r.turn = t
    BY DEF Row
  <1>4. \E M \in Nat : (\A m \in msgs : m.id < r.id) /\ (\A m \in msgs \cup {r} : m.id \in 1 .. M)
    <2>1. CASE ids = {}
      <3>1. msgs = {}
        BY <2>1
      <3>2. r.id = 1
        BY <1>3, <2>1 DEF NextId
      <3> HIDE DEF r, ids
      <3>3. \A m \in msgs \cup {r} : m.id \in 1 .. 1
        BY <3>1, <3>2
      <3> QED
        BY <3>1, <3>3
    <2>2. CASE ids # {}
      <3> DEFINE k == CHOOSE i \in ids : \A j \in ids : j <= i
      <3>1. k \in ids /\ \A j \in ids : j <= k
        BY <1>2, <2>2, LastId
      <3>2. NextId(ids) = 1 + k
        BY <2>2 DEF NextId
      <3>3. \A m \in msgs : m.id \in ids
        OBVIOUS
      <3> HIDE DEF k, ids, r
      <3>4. k \in 1 .. N /\ r.id = 1 + k
        BY <1>2, <1>3, <3>1, <3>2
      <3>5. \A m \in msgs : m.id <= k /\ m.id \in 1 .. N
        BY <1>1, <3>1, <3>3
      <3>6. \A m \in msgs : m.id < r.id
        BY <3>4, <3>5
      <3>7. \A m \in msgs \cup {r} : m.id \in 1 .. (N + 1)
        BY <3>4, <3>5
      <3> QED
        BY <3>6, <3>7
    <2> QED
      BY <2>1, <2>2
  <1> HIDE DEF r
  <1>5. \E M \in Nat : \A m \in msgs \cup {r} : m.id \in 1 .. M
    BY <1>4
  <1> QED
    BY <1>3, <1>4, <1>5 DEF r

LEMMA TranscriptInit ==
  ASSUME PlayInit
  PROVE  Transcript
  <1> USE DEF PlayInit, ChatInit, GatewayInit, CallsInit
  <1>1. \A t \in Turns : phase[t] = "new" /\ of[t].sid = NoSid /\ of[t].birth = 0
    BY DEF Calls
  <1>2. ChatTypes
    BY <1>1 DEF ChatTypes
  <1>3. Speaking /\ NoTurnForgotten /\ Owned
    BY <1>1 DEF Speaking, NoTurnForgotten, Owned
  <1>4. Remembering
    BY <1>1 DEF Remembering, Lives
  <1> QED
    BY <1>2, <1>3, <1>4 DEF Transcript

\* A session is created: whoever had its id before is gone for good.
LEMMA CreateTranscript ==
  ASSUME Transcript, NEW b \in BOOLEAN, CreateSession(b)
  PROVE  Transcript'
  <1> DEFINE s == NextId(chats)
  <1>1. s \notin chats
    BY NextIdIsNew, ChatAssumption DEF Transcript, ChatTypes, Sids
  <1>2. /\ s \in Sids /\ chats' = chats \cup {s}
        /\ births' = births + 1 /\ birth' = [birth EXCEPT ![s] = births + 1]
        /\ UNCHANGED <<phase, busy, starved, msgs, prompt, of, spoke, late>>
    BY DEF CreateSession, gatewayVars, callVars
  <1> HIDE DEF s
  <1>3. /\ births \in Nat /\ birth'[s] = births + 1
        /\ \A x \in Sids : birth[x] \in Nat /\ birth[x] <= births
        /\ \A x \in Sids \ {s} : birth'[x] = birth[x]
    BY <1>2 DEF Transcript, ChatTypes
  <1>4. ChatTypes'
    <2>1. \A x \in Sids : birth'[x] <= births'
      BY <1>2, <1>3
    <2>2. \A t \in Turns : of'[t].birth \in Nat /\ of'[t].birth <= births'
      BY <1>2, <1>3 DEF Transcript, ChatTypes
    <2> QED
      BY <1>2, <1>3, <2>1, <2>2 DEF Transcript, ChatTypes
  <1>5. Speaking' /\ NoTurnForgotten'
    BY <1>2 DEF Transcript, Speaking, NoTurnForgotten, Says, Ended
  <1>6. Remembering'
    <2> SUFFICES ASSUME NEW t \in Turns, Lives(t)' PROVE Recalled(t)'
      BY DEF Remembering
    <2>1. of[t].birth \in Nat /\ of[t].birth <= births
      BY DEF Transcript, ChatTypes
    <2>2. of[t].sid # s
      BY <1>2, <1>3, <2>1 DEF Lives
    <2>3. Lives(t)
      BY <1>2, <1>3, <2>2 DEF Lives, Transcript, ChatTypes
    <2> QED
      BY <1>2, <2>3, RecalledStays DEF Transcript, Remembering
  <1>7. Owned'
    BY <1>1, <1>2, <1>3 DEF Transcript, Owned, ChatTypes
  <1> QED
    BY <1>4, <1>5, <1>6, <1>7 DEF Transcript

LEMMA DeleteTranscript ==
  ASSUME Transcript, NEW s \in Sids, DeleteSession(s)
  PROVE  Transcript'
  <1>1. /\ chats' = chats \ {s} /\ msgs' = {m \in msgs : m.sid # s}
        /\ UNCHANGED <<phase, busy, starved, birth, births, prompt, of, spoke, late>>
    BY DEF DeleteSession, Cascaded, gatewayVars, callVars
  <1>2. ChatTypes'
    BY <1>1 DEF Transcript, ChatTypes
  <1>3. Speaking' /\ NoTurnForgotten'
    BY <1>1 DEF Transcript, Speaking, NoTurnForgotten, Says, Ended
  <1>4. Remembering'
    <2> SUFFICES ASSUME NEW t \in Turns, Lives(t)' PROVE Recalled(t)'
      BY DEF Remembering
    <2>1. of[t].sid # s /\ Lives(t)
      BY <1>1 DEF Lives
    <2> QED
      BY <1>1, <2>1, RecalledStays DEF Transcript, Remembering
  <1>5. Owned'
    BY <1>1 DEF Transcript, Owned
  <1> QED
    BY <1>2, <1>3, <1>4, <1>5 DEF Transcript

\* While nothing is on the event loop no question is on its way.
LEMMA LoopIsFree ==
  ASSUME Speaking, busy = Nobody
  PROVE  \A t \in Turns : phase[t] # "asked"
  BY CallAssumption DEF Speaking

\* A question is stored: what its session remembers is what goes with it.
LEMMA AskTranscript ==
  ASSUME CallTypes, Transcript, NEW t \in Turns, NEW s \in Sids, Ask(t, s)
  PROVE  Transcript'
  <1> DEFINE here == [sid |-> s, birth |-> birth[s]]
             r    == Row(here, "user", t)
             all  == msgs \cup {r}
  <1>1. /\ phase[t] = "new" /\ busy = Nobody /\ s \in chats /\ msgs' = all
        /\ of' = [of EXCEPT ![t] = here]
        /\ \/ /\ phase' = [phase EXCEPT ![t] = "asked"] /\ busy' = t
              /\ prompt' = {m \in all : m.sid = s}
           \/ phase' = [phase EXCEPT ![t] = "ended"] /\ busy' = busy
        /\ UNCHANGED <<starved, chats, birth, births, spoke, late>>
    BY DEF Ask, History
  <1>2. /\ r.sid = s /\ r.birth = birth[s] /\ r.role = "user" /\ r.turn = t
        /\ \A m \in msgs : m.id < r.id
        /\ \E N \in Nat : \A m \in all : m.id \in 1 .. N
    BY RowsGrow DEF Transcript
  <1>3. /\ of'[t].sid = s /\ of'[t].birth = birth[s]
        /\ \A u \in Turns \ {t} : of'[u] = of[u]
    BY <1>1 DEF Transcript, ChatTypes
  <1>4. here.sid = s /\ here.birth = birth[s]
    OBVIOUS
  <1>5. /\ phase'[t] \in {"asked", "ended"} /\ (phase'[t] = "asked" => busy' = t)
        /\ \A u \in Turns \ {t} : phase'[u] = phase[u]
    BY <1>1 DEF CallTypes, Calls
  <1>6. PICK x : x = r
    OBVIOUS
  <1>7. msgs' = msgs \cup {x}
    BY <1>1, <1>6
  <1>8. /\ x.sid = s /\ x.birth = birth[s] /\ x.role = "user" /\ x.turn = t
        /\ \A m \in msgs : m.id < x.id
        /\ \E N \in Nat : \A m \in msgs' : m.id \in 1 .. N
    BY <1>2, <1>6, <1>7
  <1>9. ChatTypes'
    <2>1. of' = [u \in Turns |-> of'[u]]
      BY <1>1 DEF Transcript, ChatTypes
    <2>2. birth[s] \in Nat /\ birth[s] <= births
      BY DEF Transcript, ChatTypes
    <2>3. \A u \in Turns : of'[u].birth \in Nat /\ of'[u].birth <= births
      BY <1>3, <2>2 DEF Transcript, ChatTypes
    <2> QED
      BY <1>1, <1>8, <2>1, <2>3 DEF Transcript, ChatTypes
  <1> HIDE DEF here, r, all
  <1>10. \A u \in Turns : phase[u] # "asked"
    BY <1>1, LoopIsFree DEF Transcript
  <1>11. Speaking'
    <2>1. t \notin spoke
      BY <1>1 DEF Transcript, Speaking
    <2> QED
      BY <1>1, <1>5, <1>10, <2>1 DEF Transcript, Speaking
  <1>12. Remembering'
    <2> SUFFICES ASSUME NEW u \in Turns, Lives(u)' PROVE Recalled(u)'
      BY DEF Remembering
    <2>1. CASE u = t
      <3>1. x \in msgs' /\ Says(x, t, "user")'
        BY <1>3, <1>7, <1>8 DEF Says
      <3>2. t \notin spoke'
        BY <1>1 DEF Transcript, Speaking
      <3> QED
        BY <2>1, <3>1, <3>2 DEF Recalled
    <2>2. CASE u # t
      <3>1. Lives(u)
        BY <1>1, <1>3, <2>2 DEF Lives
      <3> QED
        BY <1>1, <1>3, <1>7, <2>2, <3>1, RecalledStays DEF Transcript, Remembering
    <2> QED
      BY <2>1, <2>2
  <1>13. Owned'
    BY <1>1, <1>7, <1>8 DEF Transcript, Owned
  <1>14. NoTurnForgotten'
    <2> SUFFICES ASSUME NEW w \in Turns, phase'[w] = "asked"
        PROVE  \E q \in prompt' :
                  /\ Says(q, w, "user")' /\ \A m \in prompt' \ {q} : m.id < q.id
                  /\ \A u \in Turns \ {w} : of'[u] = of'[w] =>
                        \E m \in prompt' \ {q} :
                           /\ Says(m, u, "user")'
                           /\ Ended(u)' /\ u \in spoke' /\ u \notin starved' =>
                                 \E n \in prompt' \ {q} : Says(n, u, "assistant")' /\ m.id < n.id
      BY DEF NoTurnForgotten
    <2>1. w = t
      BY <1>5, <1>10
    <2>2. prompt' = {m \in msgs' : m.sid = s}
      BY <1>1, <1>5, <2>1 DEF CallTypes, Calls
    <2>3. x \in prompt' /\ Says(x, t, "user")'
      BY <1>3, <1>7, <1>8, <2>2 DEF Says
    <2>4. \A m \in prompt' \ {x} : m \in msgs /\ m.id < x.id
      BY <1>7, <1>8, <2>2
    <2>5. ASSUME NEW m \in msgs, m.sid = s PROVE m \in prompt' \ {x}
      <3>1. m.id < x.id /\ x.id \in Int
        BY <1>7, <1>8
      <3> QED
        BY <1>7, <2>2, <2>5, <3>1
    <2>6. ASSUME NEW u \in Turns \ {t}, of'[u] = of'[t]
          PROVE  \E m \in prompt' \ {x} :
                    /\ Says(m, u, "user")'
                    /\ Ended(u)' /\ u \in spoke' /\ u \notin starved' =>
                          \E n \in prompt' \ {x} : Says(n, u, "assistant")' /\ m.id < n.id
      <3>1. of[u].sid = s /\ of[u].birth = birth[s]
        BY <1>3, <2>6
      <3>2. Recalled(u)
        BY <1>1, <3>1 DEF Lives, Transcript, Remembering
      <3>3. PICK m \in msgs : /\ Says(m, u, "user")
                              /\ u \in spoke /\ u \notin starved =>
                                    \E n \in msgs : Says(n, u, "assistant") /\ m.id < n.id
        BY <3>2 DEF Recalled
      <3>4. \A n : \A role : Says(n, u, role)' <=> Says(n, u, role)
        BY <1>3 DEF Says
      <3>5. m \in prompt' \ {x} /\ Says(m, u, "user")'
        BY <2>5, <3>1, <3>3, <3>4 DEF Says
      <3>6. ASSUME u \in spoke', u \notin starved'
            PROVE  \E n \in prompt' \ {x} : Says(n, u, "assistant")' /\ m.id < n.id
        <4>1. PICK n \in msgs : Says(n, u, "assistant") /\ m.id < n.id
          BY <1>1, <3>3, <3>6
        <4>2. n \in prompt' \ {x}
          BY <2>5, <3>1, <4>1 DEF Says
        <4> QED
          BY <3>4, <4>1, <4>2
      <3> QED
        BY <3>5, <3>6
    <2> QED
      BY <2>1, <2>3, <2>4, <2>6
  <1> QED
    BY <1>9, <1>11, <1>12, <1>13, <1>14 DEF Transcript

\* An answer is stored, or lost for want of a connection.
LEMMA StoreTranscript ==
  ASSUME CallTypes, Transcript, NEW t \in Turns, NEW b \in BOOLEAN, Store(t, b)
  PROVE  Transcript'
  <1> DEFINE kept == b /\ CanCheckOut(1)
  <1>1. /\ busy = t /\ phase[t] = "storing"
        /\ phase' = [phase EXCEPT ![t] = "ended"] /\ busy' = Nobody
        /\ spoke' = IF b THEN spoke \cup {t} ELSE spoke
        /\ starved' = IF b /\ ~ kept THEN starved \cup {t} ELSE starved
        /\ UNCHANGED <<chats, birth, births, prompt, of>>
    BY DEF Store
  <1>2. /\ msgs' = IF kept THEN msgs \cup {Row(of[t], "assistant", t)} ELSE msgs
        /\ late' = IF kept /\ ~ Lives(t) THEN late \cup {t} ELSE late
    BY DEF Store, Lives
  <1>3. PICK x : x = Row(of[t], "assistant", t)
    OBVIOUS
  <1>4. /\ x.sid = of[t].sid /\ x.birth = of[t].birth /\ x.role = "assistant" /\ x.turn = t
        /\ \A m \in msgs : m.id < x.id
        /\ \E N \in Nat : \A m \in msgs \cup {x} : m.id \in 1 .. N
    BY <1>3, RowsGrow DEF Transcript
  <1>5. msgs' = IF kept THEN msgs \cup {x} ELSE msgs
    BY <1>2, <1>3
  <1> HIDE DEF kept
  <1>6. ChatTypes'
    BY <1>1, <1>4, <1>5 DEF Transcript, ChatTypes
  <1>7. \A u \in Turns : u # t => phase'[u] = phase[u] /\ phase[u] # "asked"
    BY <1>1 DEF Transcript, Speaking, CallTypes, Calls
  <1>8. phase'[t] = "ended"
    BY <1>1 DEF CallTypes, Calls
  <1>9. Speaking' /\ NoTurnForgotten'
    <2>1. \A u \in Turns : phase'[u] # "asked"
      BY <1>7, <1>8
    <2> QED
      BY <1>1, <1>7, <1>8, <2>1, NoQuestion DEF Transcript, Speaking
  <1>10. Remembering'
    <2> SUFFICES ASSUME NEW u \in Turns, Lives(u)' PROVE Recalled(u)'
      BY DEF Remembering
    <2>1. Lives(u) /\ Recalled(u)
      BY <1>1 DEF Lives, Transcript, Remembering
    <2>2. CASE u # t \/ ~ b
      BY <1>1, <1>5, <2>1, <2>2, RecalledStays
    <2>3. CASE u = t /\ b
      <3>1. CASE kept
        <4>1. PICK m \in msgs : Says(m, t, "user")
          BY <2>1, <2>3 DEF Recalled
        <4>2. m \in msgs' /\ x \in msgs' /\ m.id < x.id
          BY <1>4, <1>5, <3>1, <4>1
        <4>3. Says(m, t, "user")' /\ Says(x, t, "assistant")'
          BY <1>1, <1>4, <4>1 DEF Says
        <4> QED
          BY <2>3, <4>2, <4>3 DEF Recalled
      <3>2. CASE ~ kept
        <4>1. PICK m \in msgs : Says(m, t, "user")
          BY <2>1, <2>3 DEF Recalled
        <4>2. m \in msgs' /\ Says(m, t, "user")' /\ t \in starved'
          BY <1>1, <1>5, <2>3, <3>2, <4>1 DEF Says
        <4> QED
          BY <2>3, <4>2 DEF Recalled
      <3> QED
        BY <3>1, <3>2
    <2> QED
      BY <2>2, <2>3
  <1>11. Owned'
    BY <1>1, <1>2, <1>4, <1>5 DEF Transcript, Owned, Lives
  <1> QED
    BY <1>6, <1>9, <1>10, <1>11 DEF Transcript

LEMMA TranscriptStep ==
  ASSUME CallTypes, Transcript, [PlayNext]_playVars
  PROVE  Transcript'
  \* The steps that leave the rows and the sessions alone.
  <1>q. ASSUME UNCHANGED <<chats, birth, births, msgs, of, spoke, late>>,
               starved \subseteq starved',
               \A t \in Turns : phase[t] = "ended" => phase'[t] = "ended",
               \A t \in Turns : phase'[t] # "asked"
        PROVE  Transcript'
    <2>1. ChatTypes' /\ Owned'
      BY <1>q DEF Transcript, ChatTypes, Owned
    <2>2. Speaking' /\ NoTurnForgotten'
      BY <1>q, NoQuestion DEF Transcript, Speaking
    <2>3. Remembering'
      <3> SUFFICES ASSUME NEW t \in Turns, Lives(t)' PROVE Recalled(t)'
        BY DEF Remembering
      <3>1. Recalled(t)
        BY <1>q DEF Lives, Transcript, Remembering
      <3> QED
        BY <1>q, <3>1, RecalledStays
    <2> QED
      BY <2>1, <2>2, <2>3 DEF Transcript
  <1>1. ASSUME NEW t \in Turns, AskInVain(t)
        PROVE  Transcript'
    <2>1. /\ busy = Nobody /\ phase' = [phase EXCEPT ![t] = "ended"]
          /\ starved \subseteq starved'
          /\ UNCHANGED <<chats, birth, births, msgs, of, spoke, late>>
      BY <1>1 DEF AskInVain, chatVars
    <2>2. \A u \in Turns : phase[u] # "asked"
      BY <2>1, LoopIsFree DEF Transcript
    <2>3. \A u \in Turns : phase'[u] = phase[u] \/ phase'[u] = "ended"
      BY <2>1 DEF CallTypes, Calls
    <2> QED
      BY <1>q, <2>1, <2>2, <2>3
  <1>2. ASSUME NEW c \in Calls, Arrive(c) \/ Handles(c),
               UNCHANGED <<chats, birth, births, msgs, of, spoke, late>>
        PROVE  Transcript'
    BY <1>q, <1>2, CallsInChat DEF Transcript
  <1>3. ASSUME UNCHANGED <<phase, busy, starved,
                           chats, birth, births, msgs, prompt, of, spoke, late>>
        PROVE  Transcript'
    BY <1>3 DEF Transcript, ChatTypes, Speaking, Remembering, Lives, Recalled, Says,
                NoTurnForgotten, Ended, Owned
  <1> QED
    BY <1>1, <1>2, <1>3, StepOfChats, CreateTranscript, DeleteTranscript, AskTranscript,
       StoreTranscript

LEMMA AlwaysTranscript == PlaySpec => [](CallTypes /\ Transcript)
  <1>1. PlayInit => CallTypes /\ Transcript
    BY ConnectedInit, TranscriptInit
  <1>2. CallTypes /\ Transcript /\ [PlayNext]_playVars => CallTypes' /\ Transcript'
    BY TypesStep, TranscriptStep
  <1> QED
    BY <1>1, <1>2, PTL DEF PlaySpec

\* A completion sends its question after everything its session was asked and, where
\* the answer had ended, answered before, for any sessions and turns, however they
\* overlap and whichever sessions are deleted meanwhile.
THEOREM NothingForgotten == PlaySpec => []NoTurnForgotten
  <1>1. Transcript => NoTurnForgotten
    BY DEF Transcript
  <1> QED
    BY <1>1, AlwaysTranscript, PTL

\* A session whose id was given out again finds nothing of an earlier one under it but
\* answers that were under way when that one was deleted.
THEOREM TranscriptsAreOwn == PlaySpec => []AnswersBelong
  <1>1. Transcript => AnswersBelong
    BY DEF Transcript, Owned, AnswersBelong
  <1> QED
    BY <1>1, AlwaysTranscript, PTL
================================================================================
