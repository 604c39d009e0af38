----------------------------- MODULE ComboRouting -----------------------------
(***************************************************************************)
(* Requests to one combo (src/backend/combo_routing.py, called by the      *)
(* gateway router): the lookup of the token saver, the candidates with the *)
(* account chosen for each, the order by strategy and quota, the calls     *)
(* upstream with the switches between accounts and members, and the usage   *)
(* record.  The handlers share one event loop and give it up only while    *)
(* they wait for the upstream; settings change at any time.                *)
(*                                                                         *)
(* Members are numbered in the order the strategy tries them: by priority, *)
(* for three_tier by tier first.                                           *)
(***************************************************************************)
EXTENDS ProviderAccounts, Sequences, SequencesExt

CONSTANTS
    Members, Via,   \* the combo's members; the provider of each
    Weight,         \* the weight of each
    Streamable,     \* members whose provider speaks the OpenAI format
    Quota,          \* quota_limit of each provider
    Unlimited,      \* the quota_limit NULL
    Reqs,
    Strategies,     \* the strategies to choose from
    Streams,        \* which kinds of request come: SUBSET BOOLEAN
    MaxSpent,       \* bound: usage records counted per provider and window
    EditedAccounts, \* bound: the accounts and the members whose settings change
    EditedMembers   \*        while requests run

ASSUME ComboAssumption ==
    /\ Members \subseteq Nat \ {0} /\ Members # {} /\ IsFiniteSet(Members)
    /\ Via \in [Members -> Providers] /\ Weight \in [Members -> Nat]
    /\ Streamable \subseteq Members
    /\ \A m \in Streamable, n \in Members : Via[m] = Via[n] => n \in Streamable
    /\ Unlimited \notin Nat /\ Quota \in [Providers -> Nat \cup {Unlimited}]
    /\ Strategies \subseteq {"fallback", "round_robin", "load_balance", "latency_cost"}
    /\ Streams \subseteq BOOLEAN /\ MaxSpent \in Nat
    /\ IsFiniteSet(Reqs) /\ Reqs # {}
    /\ EditedAccounts \subseteq Accounts /\ EditedMembers \subseteq Members

NoOne    == "no request"
NoMember == 0

VARIABLES
    strategy,   \* combo.strategy; "fallback" stands for three_tier too
    live,       \* members that are enabled and have a provider and a model
    cursor,     \* combo.last_used_index
    spent,      \* usage records in the quota window of a provider
    turn,       \* the request whose handler runs on the event loop
    pc, stream, \* where a request is; whether it asked for a stream
    cand,       \* its candidates, in the order of attempt
    acct,       \* the account chosen for each member
    creds,      \* the accounts to switch to, by provider: account_creds
    at, switch, \* the candidate and the credential (acct_cursor) in use
    key,        \* the account whose credential is in target.api_key
    tried,      \* history: members and accounts a request was sent to
    bill,       \* history: the usage record of a request
    dry,        \* history: providers out of quota when it was built
    spill,      \* history: usage by requests that knew the provider was dry
    rr          \* history: the last choice of round_robin, and whether it was saved

acctVars == <<enabled, book>>
reqVars  == <<pc, stream, cand, acct, creds, at, switch, key, tried, bill, dry>>
vars == <<acctVars, strategy, live, cursor, spent, spill, turn, reqVars, rr>>

Places  == {"new", "saver", "build", "call", "done", "failed", "broken", "cut"}
NoBill  == [prov |-> "none", acct |-> Legacy]
AnyAcct == Accounts \cup {Legacy}

TypeOK ==
    /\ AccountsOK
    /\ strategy \in Strategies /\ live \in SUBSET Members
    /\ cursor \in 0 .. Cardinality(Members) - 1
    /\ spent \in [Providers -> 0 .. MaxSpent] /\ spill \in [Providers -> 0 .. MaxSpent]
    /\ turn \in Reqs \cup {NoOne}
    /\ pc \in [Reqs -> Places] /\ stream \in [Reqs -> BOOLEAN]
    /\ cand \in [Reqs -> Seq(Members)] /\ acct \in [Reqs -> [Members -> AnyAcct]]
    /\ creds \in [Reqs -> [Providers -> Seq(Accounts)]]
    /\ at \in [Reqs -> Nat] /\ switch \in [Reqs -> Nat] /\ key \in [Reqs -> AnyAcct]
    /\ tried \in [Reqs -> SUBSET (Members \X AnyAcct)]
    /\ bill \in [Reqs -> [prov : Providers \cup {"none"}, acct : AnyAcct]]
    /\ dry \in [Reqs -> SUBSET Providers]
    /\ rr \in [member : Members \cup {NoMember}, list : Seq(Nat), saved : BOOLEAN]

Init ==
    /\ AccountsInit
    /\ strategy \in Strategies /\ live = Members
    /\ cursor \in 0 .. Cardinality(Members) - 1       \* where earlier requests left it
    /\ strategy # "round_robin" => cursor = 0
    /\ spent \in [Providers -> 0 .. MaxSpent] /\ spill = [p \in Providers |-> 0]
    /\ \A p \in Providers : spent[p] <= IF Quota[p] = Unlimited THEN 0 ELSE Quota[p]
    /\ turn = NoOne
    /\ pc = [r \in Reqs |-> "new"] /\ stream \in [Reqs -> Streams]
    /\ cand = [r \in Reqs |-> <<>>]
    /\ acct = [r \in Reqs |-> [m \in Members |-> Legacy]]
    /\ creds = [r \in Reqs |-> [p \in Providers |-> <<>>]]
    /\ at = [r \in Reqs |-> 1] /\ switch = [r \in Reqs |-> 1]
    /\ key = [r \in Reqs |-> Legacy]
    /\ tried = [r \in Reqs |-> {}] /\ bill = [r \in Reqs |-> NoBill]
    /\ dry = [r \in Reqs |-> {}]
    /\ rr = [member |-> NoMember, list |-> <<>>, saved |-> TRUE]

-----------------------------------------------------------------------------
(* Building the candidates.                                                *)

\* The members or accounts of S by number.
InOrder(S) ==
    [i \in 1 .. Cardinality(S) |-> CHOOSE n \in S : Cardinality({m \in S : m < n}) = i - 1]

\* build_candidates chooses an account for each member in turn, and every
\* choice is recorded before the next.
Built(granted) ==
    FoldLeft(LAMBDA s, m :
                 LET a == Chosen(s.book, granted, Via[m], Legacy)
                 IN  [book |-> Recorded(s.book, Via[m], a),
                      acct |-> [s.acct EXCEPT ![m] = a]],
             [book |-> book, acct |-> [m \in Members |-> Legacy]],
             InOrder(live))

\* Defect: quota is out only when it is overdrawn.
Drained_Below(p) == Quota[p] # Unlimited /\ spent[p] > Quota[p]
\* quota_status: remaining <= 0.
Drained(p)       == Quota[p] # Unlimited /\ spent[p] >= Quota[p]

\* quota_aware_order: exhausted members go to the end, none is dropped.
QuotaAware(S) ==
    InOrder({m \in S : ~Drained(Via[m])}) \o InOrder({m \in S : Drained(Via[m])})

\* The members a request may use, and the candidates they are.
Usable(r) == {m \in live : stream[r] => m \in Streamable}
Pool(r) == IF strategy = "fallback" THEN QuotaAware(Usable(r)) ELSE InOrder(Usable(r))

Cheapest(ms) ==
    CHOOSE m \in ToSet(ms) :
       \A n \in ToSet(ms) : Weight[m] < Weight[n] \/ (Weight[m] = Weight[n] /\ m <= n)

\* Defect: the cursor waits for a success.
NextCursor_Kept(n)   == cursor
NextCursor(n)        == (cursor + 1) % n

\* select_member chose m from ms and commits the cursor; when the commit fails, the
\* choice stands and the cursor stays where it was.
Rotates(ms, m) ==
    \E saved \in BOOLEAN :
       /\ cursor' = IF saved THEN NextCursor(Len(ms)) ELSE cursor
       /\ rr' = [member |-> m, list |-> ms, saved |-> saved]

\* The candidates in the order of attempt: select_member for a single attempt,
\* the first one for a stream that does not rotate.
Attempts(r, ms) ==
    IF ms = <<>> THEN {<<>>}
    ELSE IF strategy = "round_robin" THEN {<<ms[(cursor % Len(ms)) + 1]>>}
    ELSE IF stream[r] THEN {<<ms[1]>>}
    ELSE IF strategy = "load_balance" THEN {<<m>> : m \in ToSet(ms)}
    ELSE IF strategy = "latency_cost" THEN {<<Cheapest(ms)>>}
    ELSE {ms}

\* account_creds: get_valid_token of every enabled account of the provider that
\* raises nothing.  The empty API key is a credential here.
Resolvable(b, granted, p) ==
    {a \in enabled : Owner[a] = p /\ (a \in Refreshable => Yields(b, granted, a))}

Used == {Via[m] : m \in live}

-----------------------------------------------------------------------------
(* A request.                                                              *)

Arrive(r) ==
    /\ turn = NoOne /\ pc[r] = "new"
    /\ turn' = r /\ pc' = [pc EXCEPT ![r] = "saver"]
    /\ UNCHANGED <<acctVars, strategy, live, cursor, spent, spill, stream, cand, acct, creds,
                   at, switch, key, tried, bill, dry, rr>>

\* _resolve_saver_provider builds the candidates to look at the first.
Saver(r) ==
    /\ turn = r /\ pc[r] = "saver"
    /\ \E granted \in SUBSET Refreshable : book' = Built(granted).book
    /\ pc' = [pc EXCEPT ![r] = "build"]
    /\ UNCHANGED <<enabled, strategy, live, cursor, spent, spill, turn, stream, cand, acct, creds,
                   at, switch, key, tried, bill, dry, rr>>

\* build_candidates again, the selection and, unless it streams, account_creds;
\* then the first call upstream.
Build(r) ==
    /\ turn = r /\ pc[r] = "build"
    /\ \E granted \in SUBSET Refreshable :
          LET b  == Built(granted)
              ms == Pool(r)
              cs == [p \in Providers |->
                        IF stream[r] \/ p \notin Used THEN <<>>
                        ELSE InOrder(Resolvable(b.book, granted, p))]
          IN  \E try \in Attempts(r, ms) :
                 /\ book' = [b.book EXCEPT !.token =
                                [a \in Accounts |->
                                    IF a \in Refreshable /\ a \in ToSet(cs[Owner[a]])
                                    THEN "valid" ELSE @[a]]]
                 /\ acct' = [acct EXCEPT ![r] = b.acct]
                 /\ cand' = [cand EXCEPT ![r] = try]
                 /\ creds' = [creds EXCEPT ![r] = cs]
                 /\ pc' = [pc EXCEPT ![r] = IF try = <<>> THEN "failed" ELSE "call"]
                 /\ key' = [key EXCEPT ![r] = IF try = <<>> THEN Legacy ELSE b.acct[try[1]]]
                 /\ IF strategy = "round_robin" /\ ms # <<>>
                    THEN Rotates(ms, try[1])
                    ELSE UNCHANGED <<cursor, rr>>
    /\ dry' = [dry EXCEPT ![r] = {p \in Providers : Drained(p)}]
    /\ turn' = NoOne
    /\ UNCHANGED <<enabled, strategy, live, spent, spill, stream, at, switch, tried, bill>>

Member(r) == cand[r][at[r]]

\* The member of the turn was asked, with the credential in use.
Asked(r) == tried' = [tried EXCEPT ![r] = @ \cup {<<Member(r), key[r]>>}]

\* Defect: the member tried first is charged.
Billed_First(r) == [prov |-> Via[cand[r][1]], acct |-> acct[r][cand[r][1]]]
\* record_usage_from_result
Billed(r)       == [prov |-> Via[Member(r)], acct |-> acct[r][Member(r)]]

\* Only a provider with a quota_limit has a status to look up.
Charge(f, p) ==
    [f EXCEPT ![p] = IF @ < MaxSpent /\ Quota[p] # Unlimited THEN @ + 1 ELSE @]

\* The upstream answers, or a stream is read to its end.
Answered(r) ==
    /\ turn = NoOne /\ pc[r] = "call"
    /\ pc' = [pc EXCEPT ![r] = "done"]
    /\ Asked(r)
    /\ bill' = [bill EXCEPT ![r] = Billed(r)]
    /\ LET p == Billed(r).prov
       IN  /\ spent' = Charge(spent, p)
           /\ spill' = IF p \in dry[r] THEN Charge(spill, p) ELSE spill
    /\ UNCHANGED <<acctVars, strategy, live, cursor, turn, stream, cand, acct, creds, at, switch,
                   key, dry, rr>>

CanSwitch(r) ==
    strategy = "fallback" /\ ~stream[r] /\ switch[r] < Len(creds[r][Via[Member(r)]])

\* A limit, quota or auth error: the next account of the same provider.
SwitchAccount(r) ==
    /\ turn = NoOne /\ pc[r] = "call" /\ CanSwitch(r)
    /\ Asked(r)
    /\ switch' = [switch EXCEPT ![r] = @ + 1]
    /\ key' = [key EXCEPT ![r] = creds[r][Via[Member(r)]][switch'[r]]]
    /\ UNCHANGED <<acctVars, strategy, live, cursor, spent, spill, turn, pc, stream, cand, acct,
                   creds, at, bill, dry, rr>>

\* Defect: the last member is not tried.
HasNext_OneLess(r) == at[r] + 1 < Len(cand[r])
HasNext(r)         == at[r] < Len(cand[r])

NextAt(r) == at[r] + 1

\* Any other error, or no account is left: the next member, or the last error.
Refused(r) ==
    /\ turn = NoOne /\ pc[r] = "call"
    /\ Asked(r)
    /\ IF HasNext(r)
       THEN /\ at' = [at EXCEPT ![r] = NextAt(r)]
            /\ switch' = [switch EXCEPT ![r] = 1]
            /\ key' = [key EXCEPT ![r] = acct[r][cand[r][NextAt(r)]]]
            /\ UNCHANGED pc
       ELSE /\ pc' = [pc EXCEPT ![r] = "failed"]
            /\ UNCHANGED <<at, switch, key>>
    /\ UNCHANGED <<acctVars, strategy, live, cursor, spent, spill, turn, stream, cand, acct,
                   creds, bill, dry, rr>>

\* execute_combo catches UpstreamError and nothing else.  What chat_completion raises
\* besides, before or after the member was asked, ends the request: translate_request,
\* translate_response and translate_error on a body they do not expect, httpx on a URL
\* or a key that it cannot send.
Breaks(r) ==
    /\ turn = NoOne /\ pc[r] = "call"
    /\ pc' = [pc EXCEPT ![r] = "broken"]
    /\ Asked(r) \/ UNCHANGED tried
    /\ UNCHANGED <<acctVars, strategy, live, cursor, spent, spill, turn, stream, cand, acct,
                   creds, at, switch, key, bill, dry, rr>>

\* A stream breaks off, or its client leaves: no usage is recorded.
StreamCut(r) ==
    /\ turn = NoOne /\ pc[r] = "call" /\ stream[r]
    /\ pc' = [pc EXCEPT ![r] = "cut"]
    /\ Asked(r)
    /\ UNCHANGED <<acctVars, strategy, live, cursor, spent, spill, turn, stream, cand, acct,
                   creds, at, switch, key, bill, dry, rr>>

-----------------------------------------------------------------------------
(* The others.                                                             *)

EditAccount(a) ==
    /\ Edit(a) \/ Expires(a)
    /\ UNCHANGED <<strategy, live, cursor, spent, spill, turn, reqVars, rr>>

ToggleMember(m) ==
    /\ live' = IF m \in live THEN live \ {m} ELSE live \cup {m}
    /\ UNCHANGED <<acctVars, strategy, cursor, spent, spill, turn, reqVars, rr>>

\* The quota window of a provider ends.
NewWindow(p) ==
    /\ spent' = [spent EXCEPT ![p] = 0] /\ spill' = [spill EXCEPT ![p] = 0]
    /\ UNCHANGED <<acctVars, strategy, live, cursor, turn, reqVars, rr>>

Handler(r) ==
    \/ Saver(r) \/ Build(r) \/ Answered(r) \/ SwitchAccount(r) \/ Refused(r)
    \/ Breaks(r) \/ StreamCut(r)

Settings ==
    \/ \E a \in EditedAccounts : EditAccount(a)
    \/ \E m \in EditedMembers : ToggleMember(m)
    \/ \E p \in Providers : NewWindow(p)

Next == (\E r \in Reqs : Arrive(r) \/ Handler(r)) \/ Settings

Spec == Init /\ [][Next]_vars

-----------------------------------------------------------------------------
(* Properties                                                              *)

AskedMembers(r) == {e[1] : e \in tried[r]}

\* A fallback request reports the last error only after every candidate was asked;
\* none is lost to the order by quota or to the switches between accounts.  It ends
\* earlier only by an exception that is no UpstreamError, of the member whose turn it
\* was: the members before it were asked, those after it are not.
FailsOnlyAfterAll ==
    \A r \in Reqs :
       ~stream[r] /\ strategy = "fallback" =>
          /\ pc[r] = "failed" => ToSet(cand[r]) \subseteq AskedMembers(r)
          /\ pc[r] = "broken" => \A i \in 1 .. at[r] - 1 : cand[r][i] \in AskedMembers(r)

\* The usage record names the provider that served the request, also after
\* members before it failed; and those before it were asked, none was skipped.
ServerIsBilled ==
    \A r \in Reqs :
       pc[r] = "done" =>
          /\ bill[r].prov = Via[Member(r)]
          /\ \A i \in 1 .. at[r] : cand[r][i] \in AskedMembers(r)

\* With quota-aware routing a provider is charged beyond its quota only by
\* requests that took it as a last resort, and by those that were under way
\* together when it ran out.
QuotaOvershootBounded ==
    \A p \in Providers :
       strategy = "fallback" /\ Quota[p] # Unlimited =>
          spent[p] - spill[p] <= Quota[p] + Cardinality(Reqs) - 1

\* "the cursor advances even on failure so the next request does not repeat the
\* just-failed member" (combo_routing.py): two choices in a row differ.  Two
\* conditions, which the docstring does not name: both choose from the same list of
\* members (the list of a stream has only those that can stream, and members come
\* and go), and the cursor of the first was saved.
NextMemberDiffers ==
    [][\A r \in Reqs :
          ( /\ strategy = "round_robin" /\ pc[r] = "build" /\ pc'[r] = "call"
            /\ rr.saved /\ Pool(r) = rr.list /\ Len(rr.list) > 1 )
          => rr'.member # rr.member]_vars

-----------------------------------------------------------------------------
(* What the sources say and the code does not do.                          *)

\* "retry with the NEXT enabled account of the SAME provider" (execute_combo):
\* an account that was just refused is not asked again.
SwitchGoesToNewAccount ==
    [][\A r \in Reqs :
          switch'[r] > switch[r] => <<Member(r), key'[r]>> \notin tried'[r]]_vars
=============================================================================
