------------------------- MODULE ConfigStoreProofs -------------------------
(***************************************************************************)
(* Proofs about ConfigStore, for all sets of ids and all bounds.           *)
(*                                                                         *)
(* The invariants of the tables are not inductive alone: an import brings  *)
(* in the tables of a file, and a handler writes what it read before its   *)
(* wait.  IInv adds that the file was as sound as the tables (FileStands)  *)
(* and that whatever a handler has in hand either still tells its provider *)
(* or was recorded as held when the provider went away (HandlersTold).     *)
(***************************************************************************)
EXTENDS ConfigStore, TLAPS

FileStands ==
    doc # None =>
       /\ MembersStand(doc.provs, doc.combos, doc.members)
       /\ BindingsStand(doc.provs, doc.ends, doc.bindings)
       /\ OneBinding(doc.bindings)
       /\ RowsTell(doc.provs, doc.models) /\ RowsTell(doc.provs, doc.accounts)

HandlersTold == \A h \in busy \cup signing : Told(provs, h)

IInv ==
    /\ TypeOK
    /\ TargetsStand
    /\ RowsTellTheirProvider
    /\ HandlersTold
    /\ FileStands

-----------------------------------------------------------------------------
(* Tables.                                                                 *)

\* A table with one more, with fewer, or with imported rows is a table.
LEMMA WithTable ==
    ASSUME NEW t, NEW Ids, NEW Rows, IsTable(t, Ids, Rows), NEW i \in Ids, NEW r \in Rows
    PROVE  IsTable(With(t, i, r), Ids, Rows)
BY DEF IsTable, With

LEMMA WithoutTable ==
    ASSUME NEW t, NEW Ids, NEW Rows, IsTable(t, Ids, Rows), NEW S
    PROVE  IsTable(Without(t, S), Ids, Rows)
BY DEF IsTable, Without

LEMMA OverTable ==
    ASSUME NEW t, NEW f, NEW Ids, NEW Rows, IsTable(t, Ids, Rows), IsTable(f, Ids, Rows)
    PROVE  IsTable(Over(f, t), Ids, Rows)
BY DEF IsTable, Over

\* The next id is a new one.
LEMMA NextIsNew ==
    ASSUME NEW t, NEW Ids, Ids \subseteq Nat, DOMAIN t \subseteq Ids, NEW i \in Ids, IsNext(i, t)
    PROVE  i \notin DOMAIN t
BY DEF IsNext

-----------------------------------------------------------------------------
(* Types.                                                                  *)

LEMMA TypeInit == Init => TypeOK
<1>1. ASSUME NEW Ids, NEW Rows PROVE IsTable(Empty, Ids, Rows)
      BY DEF IsTable, Empty
<1>2. Init => IsConfig(Exported)
      BY <1>1 DEF Init, IsConfig, Exported
<1>3. Init => births \in 0 .. MaxBirth
      BY ConfigAssumption DEF Init
<1> QED  BY <1>2, <1>3 DEF Init, TypeOK

\* Every step keeps the types.
LEMMA TypeStep == TypeOK /\ [Next]_vars => TypeOK'
<1> SUFFICES ASSUME TypeOK, [Next]_vars PROVE TypeOK'
    OBVIOUS
<1> USE ConfigAssumption, WithTable, WithoutTable, OverTable
        DEF TypeOK, IsConfig, Exported, config, OfProv, Births
<1>1. CASE CreateProvider
      <2> PICK p \in ProvIds : /\ provs' = With(provs, p, births')
                               /\ busy' = busy \cup {[op |-> "discover", prov |-> p, of |-> births']}
          BY <1>1 DEF CreateProvider
      <2>1. births' \in 1 .. MaxBirth
            BY <1>1 DEF CreateProvider, Born
      <2> QED  BY <1>1, <2>1 DEF CreateProvider, Handlers
<1>2. ASSUME NEW p \in ProvIds, Discover(p) PROVE TypeOK'
      <2>1. provs[p] \in Births
            BY <1>2 DEF Discover, Waits, IsTable
      <2> QED  BY <1>2, <2>1 DEF Discover, Waits, Handlers
<1>3. ASSUME NEW h \in busy, Discovered(h) PROVE TypeOK'
      <2> DEFINE kept == Without(models, RowsOf(models, h.prov))
                 row  == [prov |-> h.prov, of |-> h.of]
      <2>1. row \in OfProv
            BY DEF Handlers
      <2>2. IsTable(models', ModelIds, OfProv)
            <3>1. IsTable(kept, ModelIds, OfProv)
                  OBVIOUS
            <3>2. \/ models' = models \/ models' = kept
                  \/ \E i \in ModelIds : models' = With(kept, i, row)
                  BY <1>3 DEF Discovered
            <3>3. ASSUME NEW i \in ModelIds PROVE IsTable(With(kept, i, row), ModelIds, OfProv)
                  BY ONLY <3>1, <2>1, <3>3, WithTable
            <3> QED  BY <3>1, <3>2, <3>3
      <2> QED  BY <1>3, <2>2 DEF Discovered
<1>4. ASSUME NEW p \in ProvIds, DeleteProvider(p) PROVE TypeOK'
      <2>1. provs[p] \in Births
            BY <1>4 DEF DeleteProvider, IsTable
      <2>2. held' \subseteq Births
            BY <1>4, <2>1 DEF DeleteProvider
      <2>3. /\ IsTable(provs', ProvIds, Births) /\ IsTable(models', ModelIds, OfProv)
            /\ IsTable(accounts', AccountIds, OfProv) /\ IsTable(members', MemberIds, Member)
            /\ IsTable(bindings', BindingIds, Binding)
            BY <1>4 DEF DeleteProvider
      <2> QED  BY <1>4, <2>2, <2>3 DEF DeleteProvider
<1>5. ASSUME NEW p \in ProvIds, CreateAccount(p) PROVE TypeOK'
      <2>1. [prov |-> p, of |-> provs[p]] \in OfProv
            BY <1>5 DEF CreateAccount, IsTable
      <2>2. ASSUME NEW i \in AccountIds, NEW r \in OfProv
            PROVE  IsTable(With(accounts, i, r), AccountIds, OfProv)
            OBVIOUS
      <2>3. IsTable(accounts', AccountIds, OfProv)
            BY <1>5, <2>1, <2>2 DEF CreateAccount, AddAccount
      <2> QED  BY <1>5, <2>3 DEF CreateAccount
<1>6. ASSUME NEW p \in ProvIds, OauthStart(p) PROVE TypeOK'
      <2>1. [prov |-> p, of |-> provs[p]] \in OfProv
            BY <1>6 DEF OauthStart, IsTable
      <2> QED  BY <1>6, <2>1 DEF OauthStart
<1>7. ASSUME NEW i \in AccountIds, DeleteAccount(i) PROVE TypeOK'
      BY <1>7 DEF DeleteAccount
<1>8. ASSUME NEW s \in signing, OauthCallback(s) PROVE TypeOK'
      BY <1>8 DEF OauthCallback, Handlers
<1>9. ASSUME NEW h \in busy, Exchanged(h) PROVE TypeOK'
      <2>1. [prov |-> h.prov, of |-> h.of] \in OfProv
            BY DEF Handlers
      <2>2. ASSUME NEW i \in AccountIds, NEW r \in OfProv
            PROVE  IsTable(With(accounts, i, r), AccountIds, OfProv)
            OBVIOUS
      <2>3. IsTable(accounts', AccountIds, OfProv)
            BY <1>9, <2>1, <2>2 DEF Exchanged, AddAccount
      <2> QED  BY <1>9, <2>3 DEF Exchanged
<1>l. /\ \A p : Meant(provs, p) \in Linked
      /\ \A c : Meant(combos, c) \in Linked
      BY DEF Meant, Linked, IsTable
<1>10. CASE CreateCombo
      <2>1. births' \in 1 .. MaxBirth
            BY <1>10 DEF CreateCombo, Born
      <2>2. IsTable(combos', ComboIds, Births)
            BY <1>10, <2>1 DEF CreateCombo
      <2>3. IsTable(members', MemberIds, Member)
            <3>1. ASSUME NEW c \in ComboIds, NEW p \in ProvIds
                  PROVE  MemberRow(c, births', p) \in Member
                  BY <1>l, <2>1 DEF MemberRow, Member
            <3> QED  BY <1>10, <3>1 DEF CreateCombo
      <2> QED  BY <1>10, <2>1, <2>2, <2>3 DEF CreateCombo, Born
<1>11. ASSUME NEW c \in ComboIds, DeleteCombo(c) PROVE TypeOK'
      BY <1>11 DEF DeleteCombo
<1>12. ASSUME NEW c \in ComboIds, NEW p \in ProvIds, CreateMember(c, p) PROVE TypeOK'
      <2>1. MemberRow(c, combos[c], p) \in Member
            BY <1>l, <1>12 DEF CreateMember, MemberRow, Member, IsTable
      <2> QED  BY <1>12, <2>1 DEF CreateMember
<1>13. ASSUME NEW i \in MemberIds, NEW p \in ProvIds, UpdateMember(i, p) PROVE TypeOK'
      <2>1. MemberRow(members[i].combo, members[i].cof, p) \in Member
            BY <1>l, <1>13 DEF UpdateMember, MemberRow, Member, IsTable
      <2> QED  BY <1>13, <2>1 DEF UpdateMember
<1>14. ASSUME NEW i \in MemberIds, DeleteMember(i) PROVE TypeOK'
      BY <1>14 DEF DeleteMember
<1>15. Nameable \subseteq Targets
      BY <1>l DEF Nameable, Targets
<1>16. ASSUME NEW e \in EndIds, NEW b \in Births, NEW t \in Targets, ReplaceBinding(e, b, t)
       PROVE  IsTable(bindings', BindingIds, Binding)
      <2>1. [end |-> e, eof |-> b, target |-> t] \in Binding
            BY DEF Binding
      <2> QED  BY <1>16, <2>1 DEF ReplaceBinding
<1>17. CASE CreateEndpoint
      <2>1. births' \in 1 .. MaxBirth
            BY <1>17 DEF CreateEndpoint, Born
      <2> QED  BY <1>17, <1>15, <1>16, <2>1 DEF CreateEndpoint, Born
<1>18. ASSUME NEW e \in EndIds, NEW t \in Nameable, BindEndpoint(e, t) PROVE TypeOK'
      <2>1. ends[e] \in Births
            BY <1>18 DEF BindEndpoint, IsTable
      <2> QED  BY <1>18, <1>15, <1>16, <2>1 DEF BindEndpoint
<1>19. ASSUME NEW e \in EndIds, UnbindEndpoint(e) PROVE TypeOK'
      BY <1>19 DEF UnbindEndpoint, Unbound
<1>20. ASSUME NEW e \in EndIds, DeleteEndpoint(e) PROVE TypeOK'
      BY <1>20 DEF DeleteEndpoint
<1>21. ASSUME NEW p \in ProvIds, Request(p) PROVE TypeOK'
      <2>1. provs[p] \in Births
            BY <1>21 DEF Request, Waits, IsTable
      <2> QED  BY <1>21, <2>1 DEF Request, Waits, Handlers
<1>22. ASSUME NEW h \in busy, Answered(h) PROVE TypeOK'
      BY <1>22 DEF Answered, Handlers
<1>23. CASE Export
      BY <1>23 DEF Export
<1>24. \A t, f : IsTable(t, ProvIds, Births) => {t[p] : p \in Lost(f, t)} \subseteq Births
      BY DEF IsTable, Lost
<1>25. CASE ImportReplace
      BY <1>25, <1>24 DEF ImportReplace, Restored
<1>26. CASE ImportMerge
      <2>1. ASSUME NEW Ids, NEW t, NEW f, IsTable(t, Ids, Births)
            PROVE  Clobbered(f, t) \subseteq Births
            BY <2>1 DEF IsTable, Lost, Clobbered
      <2>2. clobbered' \subseteq Births
            BY <1>26, <2>1 DEF ImportMerge
      <2> QED  BY <1>26, <2>2 DEF ImportMerge, Restored
<1>27. CASE UNCHANGED vars
      BY <1>27 DEF vars
<1> QED
      BY <1>1, <1>2, <1>3, <1>4, <1>5, <1>6, <1>7, <1>8, <1>9, <1>10, <1>11, <1>12, <1>13,
         <1>14, <1>17, <1>18, <1>19, <1>20, <1>21, <1>22, <1>23, <1>25, <1>26, <1>27
      DEF Next, Providers, Accounts, Combos, Endpoints, Gateway

\* The tables hold rows of their kind, and so do exported files and handlers.
THEOREM TypeCorrect == Spec => []TypeOK
<1>1. Init => TypeOK
      BY TypeInit
<1>2. TypeOK /\ [Next]_vars => TypeOK'
      BY TypeStep
<1> QED  BY <1>1, <1>2, PTL DEF Spec

-----------------------------------------------------------------------------
(* What is linked stays linked.                                            *)

\* A new row breaks no link, and a row without links may go.
LEMMA ReplacedBinding ==
    ASSUME TypeOK, TargetsStand, NEW e \in DOMAIN ends', NEW b, NEW t,
           ReplaceBinding(e, b, t), ends'[e] = b,
           t.type = "provider" /\ t.of # NoRow => Stands(provs, t.to, t.of),
           UNCHANGED <<provs, clobbered, merged>>,
           \A d \in DOMAIN ends : d \in DOMAIN ends' /\ ends'[d] = ends[d]
    PROVE  BindingsStand(provs, ends, bindings)' /\ OneBinding(bindings)'
<1> DEFINE kept == Without(bindings, BindingsOf(e))
           row  == [end |-> e, eof |-> b, target |-> t]
<1>1. PICK i \in BindingIds : IsNext(i, kept) /\ bindings' = With(kept, i, row)
      BY DEF ReplaceBinding
<1>2. DOMAIN bindings' = DOMAIN kept \cup {i} /\ bindings'[i] = row
      BY <1>1 DEF With
<1>3. \A j \in DOMAIN kept : j \in DOMAIN bindings /\ kept[j] = bindings[j] /\ kept[j].end # e
      BY DEF Without, BindingsOf
<1>4. i \notin DOMAIN kept
      BY <1>1, ConfigAssumption DEF IsNext
<1>5. \A j \in DOMAIN kept : bindings'[j] = bindings[j]
      BY <1>1, <1>3, <1>4 DEF With
<1>6. BindingsStand(provs, ends, bindings)'
      BY <1>2, <1>3, <1>5 DEF BindingsStand, TargetsStand, Stands
<1>7. OneBinding(bindings)'
      BY <1>2, <1>3, <1>5 DEF OneBinding, TargetsStand
<1> QED  BY <1>6, <1>7

LEMMA TargetsStep == TypeOK /\ TargetsStand /\ FileStands /\ [Next]_vars => TargetsStand'
<1> SUFFICES ASSUME TypeOK, TargetsStand, FileStands, [Next]_vars PROVE TargetsStand'
    OBVIOUS
<1> USE ConfigAssumption
<1>t. /\ DOMAIN provs \subseteq ProvIds /\ DOMAIN combos \subseteq ComboIds
      /\ DOMAIN ends \subseteq EndIds /\ DOMAIN members \subseteq MemberIds
      BY DEF TypeOK, IsConfig, Exported, IsTable
<1>0. CASE UNCHANGED <<provs, combos, ends, members, bindings, clobbered, merged>>
      BY <1>0 DEF TargetsStand, MembersStand, BindingsStand, OneBinding, Stands
<1>1. CASE CreateProvider
      <2> PICK p \in ProvIds : IsNext(p, provs) /\ provs' = With(provs, p, births')
          BY <1>1 DEF CreateProvider
      <2>1. p \notin DOMAIN provs
            BY <1>t, NextIsNew
      <2>2. \A q \in DOMAIN provs : q \in DOMAIN provs' /\ provs'[q] = provs[q]
            BY <2>1 DEF With
      <2>3. UNCHANGED <<combos, ends, members, bindings, clobbered, merged>>
            BY <1>1 DEF CreateProvider
      <2> QED  BY <2>2, <2>3 DEF TargetsStand, MembersStand, BindingsStand, OneBinding, Stands
<1>2. ASSUME NEW p \in ProvIds, DeleteProvider(p) PROVE TargetsStand'
      <2>1. UNCHANGED <<combos, ends, clobbered, merged>>
            BY <1>2 DEF DeleteProvider
      <2>2. \A q \in DOMAIN provs \ {p} : q \in DOMAIN provs' /\ provs'[q] = provs[q]
            BY <1>2 DEF DeleteProvider, Without
      <2>3. \A i \in DOMAIN members' :
               i \in DOMAIN members /\ members'[i] = members[i] /\ members[i].prov # p
            BY <1>2 DEF DeleteProvider, Without, RowsOf
      <2>4. \A i \in DOMAIN bindings' :
               /\ i \in DOMAIN bindings /\ bindings'[i] = bindings[i]
               /\ bindings[i].target.type = "provider" => bindings[i].target.to # p
            BY <1>2 DEF DeleteProvider, Without, Severed, BindingsTo
      <2>5. MembersStand(provs, combos, members)'
            BY <2>1, <2>2, <2>3 DEF TargetsStand, MembersStand, Stands
      <2>6. BindingsStand(provs, ends, bindings)'
            BY <2>1, <2>2, <2>4 DEF TargetsStand, BindingsStand, Stands
      <2>7. OneBinding(bindings)'
            BY <2>1, <2>4 DEF TargetsStand, OneBinding
      <2> QED  BY <2>5, <2>6, <2>7 DEF TargetsStand
<1>3. ASSUME NEW C, NEW i, NEW r, members' = With(members, i, r),
             r.of # NoRow => Stands(provs, r.prov, r.of), Stands(C, r.combo, r.cof),
             \A c \in DOMAIN combos : c \in DOMAIN C /\ C[c] = combos[c]
      PROVE  \A j \in DOMAIN members' :
                /\ Stands(C, members'[j].combo, members'[j].cof)
                /\ members'[j].of # NoRow => Stands(provs, members'[j].prov, members'[j].of)
      BY <1>3 DEF With, TargetsStand, MembersStand, Stands
<1>m. \A p : Meant(provs, p) # NoRow => Stands(provs, p, Meant(provs, p))
      BY DEF Meant, Stands
<1>4. CASE CreateCombo
      <2> PICK c \in ComboIds : IsNext(c, combos) /\ combos' = With(combos, c, births')
             /\ \/ UNCHANGED members
                \/ \E p \in ProvIds, i \in MemberIds :
                      members' = With(members, i, MemberRow(c, births', p))
          BY <1>4 DEF CreateCombo
      <2>1. \A d \in DOMAIN combos : d \in DOMAIN combos' /\ combos'[d] = combos[d]
            BY <1>t, NextIsNew DEF With
      <2>2. c \in DOMAIN combos' /\ combos'[c] = births'
            BY DEF With
      <2>3. UNCHANGED <<provs, ends, bindings, clobbered, merged>>
            BY <1>4 DEF CreateCombo
      <2>4. MembersStand(provs, combos, members)'
            <3>1. CASE UNCHANGED members
                  BY <3>1, <2>1, <2>3 DEF TargetsStand, MembersStand, Stands
            <3>2. ASSUME NEW p \in ProvIds, NEW i \in MemberIds,
                         members' = With(members, i, MemberRow(c, births', p))
                  PROVE  MembersStand(provs, combos, members)'
                  <4>1. Stands(combos', c, births')
                        BY <2>2 DEF Stands
                  <4>2. \A j \in DOMAIN members' :
                           /\ Stands(combos', members'[j].combo, members'[j].cof)
                           /\ members'[j].of # NoRow =>
                                 Stands(provs, members'[j].prov, members'[j].of)
                        BY <3>2, <4>1, <2>1, <1>3, <1>m DEF MemberRow
                  <4> QED  BY <4>2, <2>3 DEF MembersStand, Stands
            <3> QED  BY <3>1, <3>2
      <2> QED  BY <2>3, <2>4 DEF TargetsStand, BindingsStand, OneBinding, Stands
<1>5. ASSUME NEW c \in ComboIds, DeleteCombo(c) PROVE TargetsStand'
      <2>1. UNCHANGED <<provs, ends, bindings, clobbered, merged>>
            BY <1>5 DEF DeleteCombo
      <2>2. \A d \in DOMAIN combos \ {c} : d \in DOMAIN combos' /\ combos'[d] = combos[d]
            BY <1>5 DEF DeleteCombo, Without
      <2>3. \A i \in DOMAIN members' :
               i \in DOMAIN members /\ members'[i] = members[i] /\ members[i].combo # c
            BY <1>5 DEF DeleteCombo, Without, MembersOf
      <2>4. MembersStand(provs, combos, members)'
            BY <2>1, <2>2, <2>3 DEF TargetsStand, MembersStand, Stands
      <2> QED  BY <2>1, <2>4 DEF TargetsStand, BindingsStand, OneBinding, Stands
<1>6. ASSUME NEW c \in ComboIds, NEW p \in ProvIds, CreateMember(c, p) PROVE TargetsStand'
      <2>1. UNCHANGED <<provs, combos, ends, bindings, clobbered, merged>>
            BY <1>6 DEF CreateMember
      <2>2. MembersStand(provs, combos, members)'
            BY <1>6, <2>1, <1>3, <1>m DEF CreateMember, MemberRow, MembersStand, Stands
      <2> QED  BY <2>1, <2>2 DEF TargetsStand, BindingsStand, OneBinding, Stands
<1>7. ASSUME NEW i \in MemberIds, NEW p \in ProvIds, UpdateMember(i, p) PROVE TargetsStand'
      <2>1. UNCHANGED <<provs, combos, ends, bindings, clobbered, merged>>
            BY <1>7 DEF UpdateMember
      <2>2. Stands(combos, members[i].combo, members[i].cof)
            BY <1>7 DEF UpdateMember, TargetsStand, MembersStand, Stands
      <2>3. MembersStand(provs, combos, members)'
            BY <1>7, <2>1, <2>2, <1>3, <1>m DEF UpdateMember, MemberRow, MembersStand, Stands
      <2> QED  BY <2>1, <2>3 DEF TargetsStand, BindingsStand, OneBinding, Stands
<1>8. ASSUME NEW i \in MemberIds, DeleteMember(i) PROVE TargetsStand'
      BY <1>8 DEF DeleteMember, Without, TargetsStand, MembersStand, BindingsStand, OneBinding,
                  Stands
<1>9. ASSUME NEW t \in Nameable
      PROVE  t.type = "provider" /\ t.of # NoRow => Stands(provs, t.to, t.of)
      BY <1>m DEF Nameable
<1>10. CASE CreateEndpoint
      <2> PICK e \in EndIds : /\ IsNext(e, ends) /\ ends' = With(ends, e, births')
                              /\ UNCHANGED bindings
                                 \/ \E t \in Nameable : ReplaceBinding(e, births', t)
          BY <1>10 DEF CreateEndpoint
      <2>1. \A d \in DOMAIN ends : d \in DOMAIN ends' /\ ends'[d] = ends[d]
            BY <1>t, NextIsNew DEF With
      <2>2. e \in DOMAIN ends' /\ ends'[e] = births'
            BY DEF With
      <2>3. UNCHANGED <<provs, combos, members, clobbered, merged>>
            BY <1>10 DEF CreateEndpoint
      <2>4. BindingsStand(provs, ends, bindings)' /\ OneBinding(bindings)'
            <3>1. CASE UNCHANGED bindings
                  BY <3>1, <2>1, <2>3 DEF TargetsStand, BindingsStand, OneBinding, Stands
            <3>2. ASSUME NEW t \in Nameable, ReplaceBinding(e, births', t)
                  PROVE  BindingsStand(provs, ends, bindings)' /\ OneBinding(bindings)'
                  BY <3>2, <2>1, <2>2, <2>3, <1>9, ReplacedBinding
            <3> QED  BY <3>1, <3>2
      <2> QED  BY <2>3, <2>4 DEF TargetsStand, MembersStand, Stands
<1>11. ASSUME NEW e \in EndIds, NEW t \in Nameable, BindEndpoint(e, t) PROVE TargetsStand'
      <2>1. UNCHANGED <<provs, combos, ends, members, clobbered, merged>>
            BY <1>11 DEF BindEndpoint
      <2>2. BindingsStand(provs, ends, bindings)' /\ OneBinding(bindings)'
            BY <1>11, <2>1, <1>9, ReplacedBinding DEF BindEndpoint
      <2> QED  BY <2>1, <2>2 DEF TargetsStand, MembersStand, Stands
<1>12. ASSUME NEW e \in EndIds, UnbindEndpoint(e) PROVE TargetsStand'
      BY <1>12 DEF UnbindEndpoint, Unbound, Without, TargetsStand, MembersStand, BindingsStand,
                   Stands,
                   OneBinding
<1>13. ASSUME NEW e \in EndIds, DeleteEndpoint(e) PROVE TargetsStand'
      <2>1. UNCHANGED <<provs, combos, members, clobbered, merged>>
            BY <1>13 DEF DeleteEndpoint
      <2>2. \A d \in DOMAIN ends \ {e} : d \in DOMAIN ends' /\ ends'[d] = ends[d]
            BY <1>13 DEF DeleteEndpoint, Without
      <2>3. \A i \in DOMAIN bindings' :
               i \in DOMAIN bindings /\ bindings'[i] = bindings[i] /\ bindings[i].end # e
            BY <1>13 DEF DeleteEndpoint, Without, BindingsOf
      <2>4. BindingsStand(provs, ends, bindings)'
            BY <2>1, <2>2, <2>3 DEF TargetsStand, BindingsStand, Stands
      <2> QED  BY <2>1, <2>3, <2>4 DEF TargetsStand, MembersStand, OneBinding, Stands
<1>14. CASE ImportReplace
      BY <1>14 DEF ImportReplace, Restored, FileStands, TargetsStand, MembersStand, BindingsStand,
                   Stands,
                   OneBinding
<1>15. CASE ImportMerge
      <2>1. /\ doc # None /\ merged' = TRUE
            /\ provs' = Over(doc.provs, provs) /\ combos' = Over(doc.combos, combos)
            /\ ends' = Over(doc.ends, ends) /\ members' = Over(doc.members, members)
            /\ bindings' = Over(doc.bindings, bindings)
            /\ clobbered' = clobbered \cup Clobbered(doc.provs, provs)
                              \cup Clobbered(doc.combos, combos) \cup Clobbered(doc.ends, ends)
            BY <1>15 DEF ImportMerge, Restored
      <2>2. ASSUME NEW f, NEW t, NEW i \in DOMAIN t, NEW b, t[i] = b
            PROVE  i \in DOMAIN Over(f, t) /\ (Over(f, t)[i] = b \/ b \in Clobbered(f, t))
            BY <2>2 DEF Over, Clobbered, Lost
      <2>3. ASSUME NEW f, NEW t, NEW i \in DOMAIN f
            PROVE  i \in DOMAIN Over(f, t) /\ Over(f, t)[i] = f[i]
            BY DEF Over
      <2>4. ASSUME NEW f, NEW t, NEW i \in DOMAIN Over(f, t)
            PROVE  \/ i \in DOMAIN f /\ Over(f, t)[i] = f[i]
                   \/ i \in DOMAIN t /\ Over(f, t)[i] = t[i]
            BY DEF Over
      <2>5. ASSUME NEW f, NEW t, NEW i \in DOMAIN t PROVE i \in DOMAIN Over(f, t)
            BY DEF Over
      <2>6. MembersStand(provs, combos, members)'
            <3> SUFFICES ASSUME NEW i \in DOMAIN members'
                PROVE  /\ Stands(combos, members[i].combo, members[i].cof)'
                       /\ members'[i].of # NoRow =>
                             Stands(provs, members[i].prov, members[i].of)'
                BY DEF MembersStand, Stands
            <3>1. CASE i \in DOMAIN doc.members /\ members'[i] = doc.members[i]
                  BY <3>1, <2>1, <2>3 DEF FileStands, MembersStand, Stands
            <3>2. CASE i \in DOMAIN members /\ members'[i] = members[i]
                  BY <3>2, <2>1, <2>2, <2>5 DEF TargetsStand, MembersStand, Stands
            <3> QED  BY <3>1, <3>2, <2>1, <2>4
      <2>7. BindingsStand(provs, ends, bindings)'
            <3> SUFFICES ASSUME NEW i \in DOMAIN bindings'
                PROVE  /\ Stands(ends, bindings[i].end, bindings[i].eof)'
                       /\ /\ bindings'[i].target.type = "provider"
                          /\ bindings'[i].target.of # NoRow
                          => Stands(provs, bindings[i].target.to, bindings[i].target.of)'
                BY DEF BindingsStand, Stands
            <3>1. CASE i \in DOMAIN doc.bindings /\ bindings'[i] = doc.bindings[i]
                  BY <3>1, <2>1, <2>3 DEF FileStands, BindingsStand, Stands
            <3>2. CASE i \in DOMAIN bindings /\ bindings'[i] = bindings[i]
                  BY <3>2, <2>1, <2>2, <2>5 DEF TargetsStand, BindingsStand, Stands
            <3> QED  BY <3>1, <3>2, <2>1, <2>4
      <2> QED  BY <2>1, <2>6, <2>7 DEF TargetsStand, OneBinding
<1> QED
      <2>1. ASSUME NEW p \in ProvIds,
                   Discover(p) \/ CreateAccount(p) \/ OauthStart(p) \/ Request(p)
            PROVE  TargetsStand'
            BY <2>1, <1>0 DEF Discover, CreateAccount, OauthStart, Request, config
      <2>2. ASSUME NEW h \in busy, Discovered(h) \/ Exchanged(h) \/ Answered(h)
            PROVE  TargetsStand'
            BY <2>2, <1>0 DEF Discovered, Exchanged, Answered, config
      <2>3. ASSUME NEW s \in signing, OauthCallback(s) PROVE TargetsStand'
            BY <2>3, <1>0 DEF OauthCallback, config
      <2>4. ASSUME NEW i \in AccountIds, DeleteAccount(i) PROVE TargetsStand'
            BY <2>4, <1>0 DEF DeleteAccount
      <2>5. CASE Export \/ UNCHANGED vars
            BY <2>5, <1>0 DEF Export, vars, config
      <2> QED  BY <2>1, <2>2, <2>3, <2>4, <2>5, <1>1, <1>2, <1>4, <1>5, <1>6, <1>7, <1>8, <1>10,
                  <1>11, <1>12, <1>13, <1>14, <1>15
               DEF Next, Providers, Accounts, Combos, Endpoints, Gateway

-----------------------------------------------------------------------------
(* What was written for a provider tells it.                               *)

\* Told lasts as long as the provider stays or its birth is held or clobbered.
LEMMA RowsStep ==
    TypeOK /\ RowsTellTheirProvider /\ HandlersTold /\ FileStands /\ [Next]_vars
    => RowsTellTheirProvider' /\ HandlersTold'
<1> SUFFICES ASSUME TypeOK, RowsTellTheirProvider, HandlersTold, FileStands, [Next]_vars
             PROVE  RowsTellTheirProvider' /\ HandlersTold'
    OBVIOUS
<1> USE ConfigAssumption DEF RowsTell
<1>t. DOMAIN provs \subseteq ProvIds
      BY DEF TypeOK, IsConfig, Exported, IsTable
<1>0. CASE UNCHANGED <<provs, models, accounts, usage, busy, signing, held, clobbered>>
      BY <1>0 DEF RowsTellTheirProvider, HandlersTold, Told
<1>k. ASSUME \A q \in DOMAIN provs : q \in DOMAIN provs' /\ provs'[q] = provs[q],
             UNCHANGED <<held, clobbered>>, NEW r, Told(provs, r)
      PROVE  Told(provs, r)'
      BY <1>k DEF Told
<1>1. CASE CreateProvider
      <2> PICK p \in ProvIds : /\ IsNext(p, provs) /\ provs' = With(provs, p, births')
                               /\ busy' = busy \cup {[op |-> "discover", prov |-> p, of |-> births']}
          BY <1>1 DEF CreateProvider
      <2>1. \A q \in DOMAIN provs : q \in DOMAIN provs' /\ provs'[q] = provs[q]
            BY <1>t, NextIsNew DEF With
      <2>2. p \in DOMAIN provs' /\ provs'[p] = births'
            BY DEF With
      <2>3. UNCHANGED <<models, accounts, usage, signing, held, clobbered>>
            BY <1>1 DEF CreateProvider
      <2> QED  BY <2>1, <2>2, <2>3 DEF RowsTellTheirProvider, HandlersTold, Told
<1>2. ASSUME NEW op, NEW p, Waits(op, p),
             UNCHANGED <<provs, models, accounts, usage, signing, held, clobbered>>
      PROVE  RowsTellTheirProvider' /\ HandlersTold'
      BY <1>2 DEF Waits, RowsTellTheirProvider, HandlersTold, Told
<1>3. ASSUME NEW h \in busy, Discovered(h)
      PROVE  RowsTellTheirProvider' /\ HandlersTold'
      <2> DEFINE row == [prov |-> h.prov, of |-> h.of]
      <2>1. UNCHANGED <<provs, accounts, usage, signing, held, clobbered>> /\ busy' \subseteq busy
            BY <1>3 DEF Discovered
      <2>2. Told(provs, row)
            BY DEF HandlersTold, Told
      <2>3. \A j \in DOMAIN models' : Told(provs, models'[j])
            <3>1. \A j \in DOMAIN models' :
                     (j \in DOMAIN models /\ models'[j] = models[j]) \/ models'[j] = row
                  BY <1>3 DEF Discovered, With, Without
            <3> QED  BY <3>1, <2>2 DEF RowsTellTheirProvider
      <2> QED  BY <2>1, <2>3 DEF RowsTellTheirProvider, HandlersTold, Told
<1>4. ASSUME NEW p \in ProvIds, DeleteProvider(p)
      PROVE  RowsTellTheirProvider' /\ HandlersTold'
      <2>1. UNCHANGED <<usage, busy, signing, clobbered>> /\ held \subseteq held'
            BY <1>4 DEF DeleteProvider
      <2>2. \A q \in DOMAIN provs \ {p} : q \in DOMAIN provs' /\ provs'[q] = provs[q]
            BY <1>4 DEF DeleteProvider, Without
      <2>3. ASSUME NEW r, Told(provs, r), r.prov # p PROVE Told(provs, r)'
            BY <2>1, <2>2, <2>3 DEF Told
      <2>4. RowsTell(provs, models)'
            <3>1. \A i \in DOMAIN models' :
                     i \in DOMAIN models /\ models'[i] = models[i] /\ models[i].prov # p
                  BY <1>4 DEF DeleteProvider, Without, RowsOf
            <3> QED  BY <3>1, <2>1, <2>2 DEF RowsTellTheirProvider, Told
      <2>5. RowsTell(provs, accounts)'
            <3>1. \A i \in DOMAIN accounts' :
                     i \in DOMAIN accounts /\ accounts'[i] = accounts[i] /\ accounts[i].prov # p
                  BY <1>4 DEF DeleteProvider, Without, RowsOf
            <3> QED  BY <3>1, <2>1, <2>2 DEF RowsTellTheirProvider, Told
      <2>6. (\A u \in usage : Told(provs, u))'
            <3>1. \A u \in usage : u.prov # p
                  BY <1>4 DEF DeleteProvider, Deletable
            <3> QED  BY <3>1, <2>1, <2>2 DEF RowsTellTheirProvider, Told
      <2>7. HandlersTold'
            <3> SUFFICES ASSUME NEW h \in busy \cup signing PROVE Told(provs, h)'
                BY <2>1 DEF HandlersTold
            <3>1. Told(provs, h)
                  BY DEF HandlersTold
            <3>2. CASE h.prov # p
                  BY <3>1, <3>2, <2>3
            <3>3. CASE h.prov = p /\ p \in DOMAIN provs /\ provs[p] = h.of
                  BY <1>4, <3>3 DEF DeleteProvider, InHand, Told
            <3>4. CASE h.of \in held \cup clobbered
                  BY <3>4, <2>1 DEF Told
            <3> QED  BY <3>1, <3>2, <3>3, <3>4 DEF Told
      <2> QED  BY <2>4, <2>5, <2>6, <2>7 DEF RowsTellTheirProvider
<1>5. ASSUME NEW p, NEW b, AddAccount(p, b), Told(provs, [prov |-> p, of |-> b]),
             UNCHANGED <<provs, models, usage, signing, held, clobbered>>, busy' \subseteq busy
      PROVE  RowsTellTheirProvider' /\ HandlersTold'
      <2>1. \A j \in DOMAIN accounts' :
                 \/ j \in DOMAIN accounts /\ accounts'[j] = accounts[j]
                 \/ accounts'[j] = [prov |-> p, of |-> b]
            BY <1>5 DEF AddAccount, With
      <2> QED  BY <1>5, <2>1 DEF RowsTellTheirProvider, HandlersTold, Told
<1>6. ASSUME NEW p \in ProvIds, CreateAccount(p)
      PROVE  RowsTellTheirProvider' /\ HandlersTold'
      <2>1. Told(provs, [prov |-> p, of |-> provs[p]])
            BY <1>6 DEF CreateAccount, Told
      <2> QED  BY <1>6, <2>1, <1>5 DEF CreateAccount
<1>7. ASSUME NEW i \in AccountIds, DeleteAccount(i)
      PROVE  RowsTellTheirProvider' /\ HandlersTold'
      BY <1>7 DEF DeleteAccount, Without, RowsTellTheirProvider, HandlersTold, Told
<1>8. ASSUME NEW p \in ProvIds, OauthStart(p)
      PROVE  RowsTellTheirProvider' /\ HandlersTold'
      BY <1>8 DEF OauthStart, config, RowsTellTheirProvider, HandlersTold, Told
<1>9. ASSUME NEW s \in signing, OauthCallback(s)
      PROVE  RowsTellTheirProvider' /\ HandlersTold'
      BY <1>9 DEF OauthCallback, config, RowsTellTheirProvider, HandlersTold, Told
<1>10. ASSUME NEW h \in busy, Exchanged(h)
      PROVE  RowsTellTheirProvider' /\ HandlersTold'
      <2>1. Told(provs, [prov |-> h.prov, of |-> h.of])
            BY DEF HandlersTold, Told
      <2>2. UNCHANGED <<provs, models, usage, signing, held, clobbered>> /\ busy' \subseteq busy
            BY <1>10 DEF Exchanged
      <2>3. CASE UNCHANGED accounts
            BY <2>2, <2>3 DEF RowsTellTheirProvider, HandlersTold, Told
      <2> QED  BY <1>10, <2>1, <2>2, <2>3, <1>5 DEF Exchanged
<1>11. ASSUME NEW h \in busy, Answered(h)
      PROVE  RowsTellTheirProvider' /\ HandlersTold'
      <2>1. Told(provs, [prov |-> h.prov, of |-> h.of])
            BY DEF HandlersTold, Told
      <2>2. /\ UNCHANGED <<provs, models, accounts, signing, held, clobbered>>
            /\ busy' \subseteq busy /\ usage' \subseteq usage \cup {[prov |-> h.prov, of |-> h.of]}
            BY <1>11 DEF Answered, config
      <2> QED  BY <2>1, <2>2 DEF RowsTellTheirProvider, HandlersTold, Told
<1>12. CASE ImportReplace
      <2>1. /\ doc # None /\ UNCHANGED <<usage, busy, signing, clobbered>> /\ held \subseteq held'
            /\ provs' = doc.provs /\ models' = doc.models /\ accounts' = doc.accounts
            BY <1>12 DEF ImportReplace, Restored
      <2>2. ASSUME NEW r \in usage \cup busy \cup signing, Told(provs, r)
            PROVE  Told(provs, r)'
            <3>1. CASE r.of \in held \cup clobbered
                  BY <3>1, <2>1 DEF Told
            <3>2. CASE r.prov \in DOMAIN provs /\ provs[r.prov] = r.of
                  <4>1. CASE r.prov \in Lost(doc.provs, provs)
                        BY <1>12, <3>2, <4>1 DEF ImportReplace, InHand, Told
                  <4>2. CASE r.prov \notin Lost(doc.provs, provs)
                        BY <2>1, <3>2, <4>2 DEF Lost, Told
                  <4> QED  BY <4>1, <4>2
            <3> QED  BY <2>2, <3>1, <3>2 DEF Told
      <2>3. RowsTell(provs, models)' /\ RowsTell(provs, accounts)'
            BY <2>1 DEF FileStands, Told
      <2>4. (\A u \in usage : Told(provs, u))'
            BY <2>1, <2>2 DEF RowsTellTheirProvider
      <2>5. HandlersTold'
            BY <2>1, <2>2 DEF HandlersTold
      <2> QED  BY <2>3, <2>4, <2>5 DEF RowsTellTheirProvider
<1>13. CASE ImportMerge
      <2>1. /\ doc # None /\ UNCHANGED <<usage, busy, signing, held>>
            /\ provs' = Over(doc.provs, provs)
            /\ models' = Over(doc.models, models) /\ accounts' = Over(doc.accounts, accounts)
            /\ clobbered \subseteq clobbered' /\ Clobbered(doc.provs, provs) \subseteq clobbered'
            BY <1>13 DEF ImportMerge, Restored
      <2>2. ASSUME NEW r, Told(provs, r) \/ Told(doc.provs, r) PROVE Told(provs, r)'
            BY <2>1, <2>2 DEF Told, Over, Clobbered, Lost
      <2>3. ASSUME NEW f, NEW t, NEW i \in DOMAIN Over(f, t)
            PROVE  \/ i \in DOMAIN f /\ Over(f, t)[i] = f[i]
                   \/ i \in DOMAIN t /\ Over(f, t)[i] = t[i]
            BY DEF Over
      <2>4. RowsTell(provs, models)'
            <3>1. \A i \in DOMAIN models' : Told(provs, models'[i]) \/ Told(doc.provs, models'[i])
                  BY <2>1, <2>3 DEF RowsTellTheirProvider, FileStands
            <3> QED  BY <3>1, <2>2
      <2>5. RowsTell(provs, accounts)'
            <3>1. \A i \in DOMAIN accounts' :
                     Told(provs, accounts'[i]) \/ Told(doc.provs, accounts'[i])
                  BY <2>1, <2>3 DEF RowsTellTheirProvider, FileStands
            <3> QED  BY <3>1, <2>2
      <2>6. (\A u \in usage : Told(provs, u))' /\ HandlersTold'
            BY <2>1, <2>2 DEF RowsTellTheirProvider, HandlersTold
      <2> QED  BY <2>4, <2>5, <2>6 DEF RowsTellTheirProvider
<1> QED
      <2>1. ASSUME NEW p \in ProvIds, Discover(p) \/ Request(p)
            PROVE  RowsTellTheirProvider' /\ HandlersTold'
            BY <2>1, <1>2 DEF Discover, Request, config
      <2>2. ASSUME Combos PROVE RowsTellTheirProvider' /\ HandlersTold'
            BY <2>2, <1>0 DEF Combos, CreateCombo, DeleteCombo, CreateMember, UpdateMember, DeleteMember
      <2>3. ASSUME Endpoints PROVE RowsTellTheirProvider' /\ HandlersTold'
            BY <2>3, <1>0 DEF Endpoints, CreateEndpoint, BindEndpoint, UnbindEndpoint, DeleteEndpoint
      <2>4. CASE Export \/ UNCHANGED vars
            BY <2>4, <1>0 DEF Export, vars, config
      <2> QED  BY <2>1, <2>2, <2>3, <2>4, <1>1, <1>3, <1>4, <1>6, <1>7, <1>8, <1>9, <1>10, <1>11,
                  <1>12, <1>13
               DEF Next, Providers, Accounts, Gateway

-----------------------------------------------------------------------------
(* The file.                                                               *)

\* An exported file is as sound as the tables were, and stays so: what excuses
\* a row only grows.
LEMMA FileStep ==
    TargetsStand /\ RowsTellTheirProvider /\ FileStands /\ [Next]_vars => FileStands'
<1> SUFFICES ASSUME TargetsStand, RowsTellTheirProvider, FileStands, [Next]_vars
             PROVE  FileStands'
    OBVIOUS
<1> USE DEF FileStands, MembersStand, BindingsStand, OneBinding, RowsTell, Told, Stands
<1>1. CASE Export
      BY <1>1 DEF Export, Exported, config, TargetsStand, RowsTellTheirProvider
<1>2. ASSUME UNCHANGED doc, held \subseteq held', clobbered \subseteq clobbered',
             merged => merged'
      PROVE  FileStands'
      BY <1>2
<1>3. CASE Providers
      BY <1>2, <1>3 DEF Providers, CreateProvider, Discover, DeleteProvider, Discovered
<1>4. CASE Accounts
      BY <1>2, <1>4 DEF Accounts, CreateAccount, DeleteAccount, OauthStart, OauthCallback, Exchanged
<1>5. CASE Combos
      BY <1>2, <1>5 DEF Combos, CreateCombo, DeleteCombo, CreateMember, UpdateMember, DeleteMember
<1>6. CASE Endpoints
      BY <1>2, <1>6 DEF Endpoints, CreateEndpoint, BindEndpoint, UnbindEndpoint, DeleteEndpoint
<1>7. CASE Gateway
      BY <1>2, <1>7 DEF Gateway, Request, Answered
<1>8. CASE ImportReplace \/ ImportMerge
      BY <1>2, <1>8 DEF ImportReplace, ImportMerge
<1>9. CASE UNCHANGED vars
      BY <1>2, <1>9 DEF vars
<1> QED
      BY <1>1, <1>3, <1>4, <1>5, <1>6, <1>7, <1>8, <1>9 DEF Next

-----------------------------------------------------------------------------
(* The theorems.                                                           *)

LEMMA Invariant == Spec => []IInv
<1>1. Init => IInv
      BY TypeInit DEF Init, Empty, IInv, TargetsStand, MembersStand, BindingsStand, OneBinding,
                      Stands, RowsTellTheirProvider, RowsTell, HandlersTold, FileStands
<1>2. IInv /\ [Next]_vars => IInv'
      BY TypeStep, TargetsStep, RowsStep, FileStep DEF IInv
<1> QED  BY <1>1, <1>2, PTL DEF Spec

\* A combo's member and an endpoint's binding to a provider always name the very
\* rows they were made for, if those were there, and an endpoint has one binding,
\* until a merged file puts other rows in their place: whatever is deleted,
\* recreated under the same id, exported and restored, in any order.
THEOREM LinksStand == Spec => []TargetsStand
<1>1. IInv => TargetsStand
      BY DEF IInv
<1> QED  BY <1>1, Invariant, PTL

\* Models, accounts and usage records of one provider count for another one only
\* if the first went away with a handler under way, or by an import.
THEOREM RowsTellTruth == Spec => []RowsTellTheirProvider
<1>1. IInv => RowsTellTheirProvider
      BY DEF IInv
<1> QED  BY <1>1, Invariant, PTL
=============================================================================
