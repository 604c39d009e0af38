---------------------------- MODULE ConfigStore ----------------------------
(***************************************************************************)
(* The configuration tables and everybody who writes them: the CRUD        *)
(* routers of providers, accounts, combos and endpoints, model discovery,  *)
(* the OAuth sign-in, the gateway's usage records, and export and import.  *)
(*                                                                         *)
(* SQLite enforces no foreign key here, and a deleted row's id is given    *)
(* out again when it was the highest.  So that the model can tell a row    *)
(* from a later one with the same id, a provider, combo or endpoint is     *)
(* represented by its birth: a number that is never used twice.  A row     *)
(* that refers to it carries the id, which is all the code has, and the    *)
(* birth it was written for, which is history.                             *)
(*                                                                         *)
(* A handler is one step up to its network wait, and one step after it.    *)
(* The row a client means to change must exist; the provider or combo it   *)
(* links is not looked up, and may be an id that nobody has.               *)
(***************************************************************************)
EXTENDS Naturals, FiniteSets

CONSTANTS
    ProvIds, ComboIds, EndIds,                     \* bounds: the ids there are
    ModelIds, AccountIds, MemberIds, BindingIds,
    MaxBirth,    \* bound: providers, combos and endpoints ever made
    MaxBusy,     \* bound: handlers and sign-ins under way at once
    None

ASSUME ConfigAssumption ==
    /\ ProvIds \subseteq Nat \ {0} /\ ComboIds \subseteq Nat \ {0}
    /\ EndIds \subseteq Nat \ {0} /\ ModelIds \subseteq Nat \ {0}
    /\ AccountIds \subseteq Nat \ {0} /\ MemberIds \subseteq Nat \ {0}
    /\ BindingIds \subseteq Nat \ {0}
    /\ MaxBirth \in Nat /\ MaxBusy \in Nat

VARIABLES
    provs, combos, ends,    \* id -> birth
    models, accounts,       \* row id -> the provider it belongs to
    members,                \* row id -> the combo and the provider
    bindings,               \* row id -> the endpoint and its target
    usage,                  \* providers named by usage records
    busy,                   \* handlers that wait for the network
    signing,                \* OAUTH_STATES
    doc,                    \* an exported file
    births,                 \* history: births so far
    held,      \* history: births that ended while something still named them
    clobbered, \* history: births that ended under an imported row of their id
    merged     \* history: a file was merged

config == <<provs, combos, ends, models, accounts, members, bindings>>
vars   == <<config, usage, busy, signing, doc, births, held, clobbered, merged>>

Births   == 1 .. MaxBirth
NoRow    == 0
Linked   == Births \cup {NoRow}
OfProv   == [prov : ProvIds, of : Births]
Targets  == [type : {"provider"}, to : ProvIds, of : Linked]
            \cup [type : {"combo"}, to : ComboIds, of : Linked]
Member   == [combo : ComboIds, cof : Births, prov : ProvIds, of : Linked]
Binding  == [end : EndIds, eof : Births, target : Targets]
Handlers == [op : {"discover", "exchange", "serve"}, prov : ProvIds, of : Births]

IsTable(t, Ids, Rows) == DOMAIN t \subseteq Ids /\ \A i \in DOMAIN t : t[i] \in Rows

\* A configuration: the tables, as export_settings writes them.
IsConfig(c) ==
    /\ IsTable(c.provs, ProvIds, Births)
    /\ IsTable(c.combos, ComboIds, Births)
    /\ IsTable(c.ends, EndIds, Births)
    /\ IsTable(c.models, ModelIds, OfProv)
    /\ IsTable(c.accounts, AccountIds, OfProv)
    /\ IsTable(c.members, MemberIds, Member)
    /\ IsTable(c.bindings, BindingIds, Binding)

Exported ==
    [provs |-> provs, combos |-> combos, ends |-> ends, models |-> models,
     accounts |-> accounts, members |-> members, bindings |-> bindings]

TypeOK ==
    /\ IsConfig(Exported)
    /\ usage \subseteq OfProv
    /\ busy \subseteq Handlers /\ signing \subseteq OfProv
    /\ doc = None \/ IsConfig(doc)
    /\ births \in 0 .. MaxBirth
    /\ held \subseteq Births /\ clobbered \subseteq Births /\ merged \in BOOLEAN

Empty == [i \in {} |-> 0]

Init ==
    /\ provs = Empty /\ combos = Empty /\ ends = Empty /\ models = Empty
    /\ accounts = Empty /\ members = Empty /\ bindings = Empty
    /\ usage = {} /\ busy = {} /\ signing = {} /\ doc = None
    /\ births = 0 /\ held = {} /\ clobbered = {} /\ merged = FALSE

-----------------------------------------------------------------------------
(* Tables.                                                                 *)

\* INTEGER PRIMARY KEY without AUTOINCREMENT: one more than the highest id.
IsNext(i, t) ==
    /\ \A j \in DOMAIN t : j < i
    /\ i = 1 \/ i - 1 \in DOMAIN t

With(t, i, row)    == [j \in DOMAIN t \cup {i} |-> IF j = i THEN row ELSE t[j]]
Without(t, S)      == [j \in DOMAIN t \ S |-> t[j]]
Over(rows, t)      == [j \in DOMAIN rows \cup DOMAIN t |->
                          IF j \in DOMAIN rows THEN rows[j] ELSE t[j]]

Born == births < MaxBirth /\ births' = births + 1

\* Rows of a provider's, a combo's or an endpoint's children.
RowsOf(t, p)    == {i \in DOMAIN t : t[i].prov = p}
MembersOf(c)    == {i \in DOMAIN members : members[i].combo = c}
BindingsOf(e)   == {i \in DOMAIN bindings : bindings[i].end = e}
BindingsTo(p)   == {i \in DOMAIN bindings :
                       bindings[i].target.type = "provider" /\ bindings[i].target.to = p}

\* What a link to id i is made for: the row that has it, or nothing.
Meant(t, i) == IF i \in DOMAIN t THEN t[i] ELSE NoRow

\* Births that a handler or a sign-in still has in hand.
InHand == {h.of : h \in busy \cup signing}

\* One more of them may begin.
Free == Cardinality(busy) + Cardinality(signing) < MaxBusy

-----------------------------------------------------------------------------
(* Providers and their models.                                             *)

CreateProvider ==
    /\ Born
    /\ \E p \in ProvIds :
          /\ IsNext(p, provs)
          /\ provs' = With(provs, p, births')
          /\ busy' = busy \cup {[op |-> "discover", prov |-> p, of |-> births']}
    /\ Free
    /\ UNCHANGED <<combos, ends, models, accounts, members, bindings, usage, signing, doc, held,
                   clobbered, merged>>

Waits(op, p) ==
    /\ p \in DOMAIN provs /\ Free
    /\ busy' = busy \cup {[op |-> op, prov |-> p, of |-> provs[p]]}

Discover(p) ==
    /\ Waits("discover", p)
    /\ UNCHANGED <<config, usage, signing, doc, births, held, clobbered, merged>>

\* _discover_and_persist after the wait: the rows of the id it began with are
\* replaced by those it found, or stay when the fetch failed.
Discovered(h) ==
    /\ h \in busy /\ h.op = "discover"
    /\ busy' = busy \ {h}
    /\ LET kept == Without(models, RowsOf(models, h.prov))
       IN  \/ UNCHANGED models
           \/ models' = kept
           \/ \E i \in ModelIds :
                 IsNext(i, kept) /\ models' = With(kept, i, [prov |-> h.prov, of |-> h.of])
    /\ UNCHANGED <<provs, combos, ends, accounts, members, bindings, usage, signing, doc, births,
                   held, clobbered, merged>>

\* Defect: a provider with a history is deleted too.
Deletable_Always(p) == TRUE
\* The session would set provider_id of the usage records to NULL, which the
\* column refuses: the request fails and nothing is deleted.
Deletable(p)        == \A u \in usage : u.prov # p

\* Defect: the bindings stay.
Severed_Kept(p) == {}
Severed(p)      == BindingsTo(p)

DeleteProvider(p) ==
    /\ p \in DOMAIN provs /\ Deletable(p)
    /\ provs' = Without(provs, {p})
    /\ models' = Without(models, RowsOf(models, p))
    /\ members' = Without(members, RowsOf(members, p))
    /\ bindings' = Without(bindings, Severed(p))
    /\ accounts' = Without(accounts, RowsOf(accounts, p))
    /\ held' = held \cup ({provs[p]} \cap InHand)
    /\ UNCHANGED <<combos, ends, usage, busy, signing, doc, births, clobbered, merged>>

-----------------------------------------------------------------------------
(* Accounts and the OAuth sign-in.                                         *)

AddAccount(p, b) ==
    \E i \in AccountIds :
       IsNext(i, accounts) /\ accounts' = With(accounts, i, [prov |-> p, of |-> b])

CreateAccount(p) ==
    /\ p \in DOMAIN provs
    /\ AddAccount(p, provs[p])
    /\ UNCHANGED <<provs, combos, ends, models, members, bindings, usage, busy, signing, doc,
                   births, held, clobbered, merged>>

DeleteAccount(i) ==
    /\ i \in DOMAIN accounts
    /\ accounts' = Without(accounts, {i})
    /\ UNCHANGED <<provs, combos, ends, models, members, bindings, usage, busy, signing, doc,
                   births, held, clobbered, merged>>

OauthStart(p) ==
    /\ p \in DOMAIN provs /\ Free
    /\ signing' = signing \cup {[prov |-> p, of |-> provs[p]]}
    /\ UNCHANGED <<config, usage, busy, doc, births, held, clobbered, merged>>

\* The state is used up; the provider is looked up by the id it holds.
OauthCallback(s) ==
    /\ s \in signing
    /\ signing' = signing \ {s}
    /\ busy' = IF s.prov \in DOMAIN provs
               THEN busy \cup {[op |-> "exchange", prov |-> s.prov, of |-> s.of]}
               ELSE busy
    /\ UNCHANGED <<config, usage, doc, births, held, clobbered, merged>>

\* The token exchange failed, or its account is stored.
Exchanged(h) ==
    /\ h \in busy /\ h.op = "exchange"
    /\ busy' = busy \ {h}
    /\ UNCHANGED accounts \/ AddAccount(h.prov, h.of)
    /\ UNCHANGED <<provs, combos, ends, models, members, bindings, usage, signing, doc, births,
                   held, clobbered, merged>>

-----------------------------------------------------------------------------
(* Combos and their members.                                               *)

MemberRow(c, b, p) == [combo |-> c, cof |-> b, prov |-> p, of |-> Meant(provs, p)]

\* With no member or one; more are created like the members added later.
CreateCombo ==
    /\ Born
    /\ \E c \in ComboIds :
          /\ IsNext(c, combos) /\ combos' = With(combos, c, births')
          /\ \/ UNCHANGED members
             \/ \E p \in ProvIds, i \in MemberIds :
                   IsNext(i, members) /\ members' = With(members, i, MemberRow(c, births', p))
    /\ UNCHANGED <<provs, ends, models, accounts, bindings, usage, busy, signing, doc, held,
                   clobbered, merged>>

DeleteCombo(c) ==
    /\ c \in DOMAIN combos
    /\ combos' = Without(combos, {c})
    /\ members' = Without(members, MembersOf(c))
    /\ UNCHANGED <<provs, ends, models, accounts, bindings, usage, busy, signing, doc, births,
                   held, clobbered, merged>>

CreateMember(c, p) ==
    /\ c \in DOMAIN combos
    /\ \E i \in MemberIds :
          IsNext(i, members) /\ members' = With(members, i, MemberRow(c, combos[c], p))
    /\ UNCHANGED <<provs, combos, ends, models, accounts, bindings, usage, busy, signing, doc,
                   births, held, clobbered, merged>>

UpdateMember(i, p) ==
    /\ i \in DOMAIN members
    /\ members' = With(members, i, MemberRow(members[i].combo, members[i].cof, p))
    /\ UNCHANGED <<provs, combos, ends, models, accounts, bindings, usage, busy, signing, doc,
                   births, held, clobbered, merged>>

DeleteMember(i) ==
    /\ i \in DOMAIN members
    /\ members' = Without(members, {i})
    /\ UNCHANGED <<provs, combos, ends, models, accounts, bindings, usage, busy, signing, doc,
                   births, held, clobbered, merged>>

-----------------------------------------------------------------------------
(* Endpoints and their binding.                                            *)

\* What a client can name as a target.
Nameable ==
    {[type |-> "provider", to |-> p, of |-> Meant(provs, p)] : p \in ProvIds}
    \cup {[type |-> "combo", to |-> c, of |-> Meant(combos, c)] : c \in ComboIds}

\* _replace_binding
ReplaceBinding(e, b, t) ==
    LET kept == Without(bindings, BindingsOf(e))
    IN  \E i \in BindingIds :
           /\ IsNext(i, kept)
           /\ bindings' = With(kept, i, [end |-> e, eof |-> b, target |-> t])

CreateEndpoint ==
    /\ Born
    /\ \E e \in EndIds :
          /\ IsNext(e, ends) /\ ends' = With(ends, e, births')
          /\ UNCHANGED bindings \/ \E t \in Nameable : ReplaceBinding(e, births', t)
    /\ UNCHANGED <<provs, combos, models, accounts, members, usage, busy, signing, doc, held,
                   clobbered, merged>>

\* update_endpoint with a binding, and bind_endpoint.
BindEndpoint(e, t) ==
    /\ e \in DOMAIN ends
    /\ ReplaceBinding(e, ends[e], t)
    /\ UNCHANGED <<provs, combos, ends, models, accounts, members, usage, busy, signing, doc,
                   births, held, clobbered, merged>>

Unbound(e) == Without(bindings, BindingsOf(e))

UnbindEndpoint(e) ==
    /\ e \in DOMAIN ends
    /\ bindings' = Unbound(e)
    /\ UNCHANGED <<provs, combos, ends, models, accounts, members, usage, busy, signing, doc,
                   births, held, clobbered, merged>>

DeleteEndpoint(e) ==
    /\ e \in DOMAIN ends
    /\ ends' = Without(ends, {e})
    /\ bindings' = Without(bindings, BindingsOf(e))
    /\ UNCHANGED <<provs, combos, models, accounts, members, usage, busy, signing, doc, births,
                   held, clobbered, merged>>

-----------------------------------------------------------------------------
(* The gateway.                                                            *)

\* resolve_target: a name or a bare model leads to a provider with a model.
Advertising == {models[i].prov : i \in DOMAIN models} \cap DOMAIN provs

\* build_candidates: members whose provider is there.
Candidates(c) == {members[i].prov : i \in MembersOf(c)} \cap DOMAIN provs

\* _route_via_endpoint: the providers a binding leads to.
Bound(b) ==
    IF b.target.type = "provider" THEN {b.target.to} \cap DOMAIN provs
    ELSE IF b.target.to \in DOMAIN combos THEN Candidates(b.target.to) ELSE {}

Reachable ==
    Advertising \cup UNION {Candidates(c) : c \in DOMAIN combos}
                \cup UNION {Bound(bindings[i]) : i \in DOMAIN bindings}

Request(p) ==
    /\ p \in Reachable
    /\ Waits("serve", p)
    /\ UNCHANGED <<config, usage, signing, doc, births, held, clobbered, merged>>

\* The upstream failed, or record_usage writes the id the request began with.
Answered(h) ==
    /\ h \in busy /\ h.op = "serve"
    /\ busy' = busy \ {h}
    /\ usage' \in {usage, usage \cup {[prov |-> h.prov, of |-> h.of]}}
    /\ UNCHANGED <<config, signing, doc, births, held, clobbered, merged>>

-----------------------------------------------------------------------------
(* Export and import.  An import that fails is rolled back.                *)

Export ==
    /\ doc' = Exported
    /\ UNCHANGED <<config, usage, busy, signing, births, held, clobbered, merged>>

Restored(c) ==
    /\ provs' = c.provs /\ combos' = c.combos /\ ends' = c.ends /\ models' = c.models
    /\ accounts' = c.accounts /\ members' = c.members /\ bindings' = c.bindings

\* The rows of t whose id is missing from the file or is another row there.
Lost(rows, t) == {p \in DOMAIN t : p \notin DOMAIN rows \/ rows[p] # t[p]}

\* import_settings with mode replace.  The usage records stay.
ImportReplace ==
    /\ doc # None
    /\ Restored(doc)
    /\ held' = held \cup ({provs[p] : p \in Lost(doc.provs, provs)}
                            \cap (InHand \cup {u.of : u \in usage}))
    /\ UNCHANGED <<usage, busy, signing, doc, births, clobbered, merged>>

\* The rows of t that another row of the file takes the place of.
Clobbered(rows, t) == {t[i] : i \in Lost(rows, t) \cap DOMAIN rows}

\* import_settings with mode merge: an upsert by id.
ImportMerge ==
    /\ doc # None
    /\ Restored([provs |-> Over(doc.provs, provs), combos |-> Over(doc.combos, combos),
                 ends |-> Over(doc.ends, ends), models |-> Over(doc.models, models),
                 accounts |-> Over(doc.accounts, accounts),
                 members |-> Over(doc.members, members),
                 bindings |-> Over(doc.bindings, bindings)])
    /\ clobbered' = clobbered \cup Clobbered(doc.provs, provs)
                              \cup Clobbered(doc.combos, combos) \cup Clobbered(doc.ends, ends)
    /\ merged' = TRUE
    /\ UNCHANGED <<usage, busy, signing, doc, births, held>>

-----------------------------------------------------------------------------
Providers ==
    \/ CreateProvider
    \/ \E p \in ProvIds : Discover(p) \/ DeleteProvider(p)
    \/ \E h \in busy : Discovered(h)

Accounts ==
    \/ \E p \in ProvIds : CreateAccount(p) \/ OauthStart(p)
    \/ \E i \in AccountIds : DeleteAccount(i)
    \/ \E s \in signing : OauthCallback(s)
    \/ \E h \in busy : Exchanged(h)

Combos ==
    \/ CreateCombo
    \/ \E c \in ComboIds : DeleteCombo(c) \/ \E p \in ProvIds : CreateMember(c, p)
    \/ \E i \in MemberIds : DeleteMember(i) \/ \E p \in ProvIds : UpdateMember(i, p)

Endpoints ==
    \/ CreateEndpoint
    \/ \E e \in EndIds :
          UnbindEndpoint(e) \/ DeleteEndpoint(e) \/ \E t \in Nameable : BindEndpoint(e, t)

Gateway ==
    \/ \E p \in ProvIds : Request(p)
    \/ \E h \in busy : Answered(h)

Next == Providers \/ Accounts \/ Combos \/ Endpoints \/ Gateway
        \/ Export \/ ImportReplace \/ ImportMerge

Spec == Init /\ [][Next]_vars

-----------------------------------------------------------------------------
(* Properties                                                              *)

\* Id i of the table t is still the row that it was when the link was made.
Stands(t, i, of) == i \in DOMAIN t /\ (t[i] = of \/ of \in clobbered)

\* A member names the combo, and the provider if there was one, it was made for.
MembersStand(P, C, M) ==
    \A i \in DOMAIN M :
       /\ Stands(C, M[i].combo, M[i].cof)
       /\ M[i].of # NoRow => Stands(P, M[i].prov, M[i].of)

\* A binding names the endpoint it was made for, and the provider if it was made
\* to one that there was.
BindingsStand(P, E, B) ==
    \A i \in DOMAIN B :
       /\ Stands(E, B[i].end, B[i].eof)
       /\ B[i].target.type = "provider" /\ B[i].target.of # NoRow =>
             Stands(P, B[i].target.to, B[i].target.of)

OneBinding(B) == merged \/ \A i, j \in DOMAIN B : B[i].end = B[j].end => i = j

\* What an operator linked to a provider that was there stays linked to the very
\* thing: a member, and an endpoint's binding, never name a row that is gone, nor
\* another row that was given its id; and an endpoint has one binding.  Only a
\* merged file may put another row in the place of the one that was meant, or add
\* a second binding.  A link that was made to an id nobody had (NoRow) is excepted:
\* the handlers do not look, and the next provider with the id inherits it.
TargetsStand ==
    /\ MembersStand(provs, combos, members)
    /\ BindingsStand(provs, ends, bindings)
    /\ OneBinding(bindings)

Told(P, r) == (r.prov \in DOMAIN P /\ P[r.prov] = r.of) \/ r.of \in held \cup clobbered

RowsTell(P, T) == \A i \in DOMAIN T : Told(P, T[i])

\* A model, an account or a usage record counts for the provider it came from.
\* It can come to count for another one only when that provider went away while
\* the discovery, the sign-in or the request was under way, or by an import.
RowsTellTheirProvider ==
    /\ RowsTell(provs, models) /\ RowsTell(provs, accounts)
    /\ \A u \in usage : Told(provs, u)
=============================================================================
