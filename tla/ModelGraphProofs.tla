-------------------------- MODULE ModelGraphProofs --------------------------
(***************************************************************************)
(* Theorems about ModelGraph: its types, the histories of its rows and     *)
(* what a snapshot keeps.  The invariant, TableInv, joins the one of       *)
(* model_versions with what each call of Put and each analysis has in      *)
(* hand; the imports have an invariant of their own further down.          *)
(***************************************************************************)
EXTENDS ModelGraph, ModelVersionsProofs

\* What a call of Put has in hand: a key, once it is resolved a pin, a version at
\* most one above MAX(version), and in the end its row.
PutKept(c, q) ==
  /\ q.stage # "new" => q.key \in Keys
  /\ q.stage \in {"check", "next", "insert", "inserted", "lost", "conflict"} => q.pin \in Pins
  /\ q.stage = "insert" => 1 <= q.next /\ q.next <= Latest(rows, q.key) + 1
  /\ q.stage \in {"inserted", "lost"} =>
       /\ q.next \in Nat \ {0}
       /\ [key |-> q.key, version |-> q.next, pin |-> q.pin, blob |-> c] \in rows

\* An analysis that reads is of one of the kinds, at one of its statements.
AnaKept(q) ==
  /\ q.stage = "new" => q.at = 0 /\ q.read = {}
  /\ q.stage = "read" => q.kind \in Kinds /\ q.at <= Len(ReadOrder(q.kind))

\* The imports share one tenant, which each of them has before it registers
\* anything.
TenantKept ==
  /\ \A x, y \in tenants : x = y
  /\ \A i \in AdminRequests :
       /\ imp[i].tenant \in tenants \cup {NoTenant}
       /\ imp[i].stage \in {"register", "active", "done"} => imp[i].tenant \in tenants

TableInv ==
  /\ MInv
  /\ GTypeOK
  /\ \A k \in Keys : Latest(rows, k) \in Nat
  /\ RowHistoriesDense
  /\ \A c \in Callers : PutKept(c, put[c])
  /\ \A a \in Readers : AnaKept(ana[a])
  /\ TenantKept

----------------------------------------------------------------------------
(* Which step changes what.                                                *)

\* Whatever a step does to model_versions is a step of ModelVersions.
LEMMA GraphModelStep == ASSUME [GNext]_gvars PROVE [MNext]_mvars
<1>1. ModelNext => MNext
  BY DEF ModelNext, HTTPModelRequest, MNext, ModelRequest
<1>2. ASSUME NEW w \in Writers, Write(w) PROVE UNCHANGED mvars
  BY <1>2 DEF Write, mvars
<1>3. ASSUME NEW c \in Callers, PutStep(c) \/ PutAbandon(c) PROVE UNCHANGED mvars
  BY <1>3 DEF PutStep, PutResolve, PutCheck, PutNext, PutInsert, PutAbandon, mvars
<1>4. ASSUME NEW i \in AdminRequests, ImportStart(i) \/ ImportCrash(i) PROVE UNCHANGED mvars
  BY <1>4 DEF ImportStart, ImportCrash, mvars
<1>5. ASSUME NEW i \in AdminRequests, ImportStep(i) PROVE MNext \/ UNCHANGED mvars
  <2>1. ImportModel(i) => MNext
    BY DEF ImportModel, MNext, ModelRequest
  <2>2. ImportTenant(i) \/ ImportCreateTenant(i) \/ ImportRegister(i) \/ ImportPut(i)
          \/ ImportDone(i) \/ ImportError(i) => UNCHANGED mvars
    BY DEF ImportTenant, ImportCreateTenant, ImportRegister, ImportPut, ImportDone,
       ImportError, mvars
  <2> QED
    BY <1>5, <2>1, <2>2 DEF ImportStep
<1>6. ASSUME NEW a \in Readers, Analyse(a) \/ AnaRead(a) \/ AnaReadCut(a) \/ AnaAnswer(a)
      PROVE  UNCHANGED mvars
  BY <1>6 DEF Analyse, AnaRead, AnaReadCut, AnaAnswer, mvars
<1>7. UNCHANGED gvars => UNCHANGED mvars
  BY DEF gvars, mvars
<1> QED
  BY <1>1, <1>2, <1>3, <1>4, <1>5, <1>6, <1>7 DEF GNext

\* The steps that leave rows and the calls of Put alone.
LEMMA OtherSteps ==
  ASSUME [GNext]_gvars
  PROVE  \/ UNCHANGED <<rows, put>>
         \/ \E w \in Writers : Write(w)
         \/ \E c \in Callers : PutStep(c) \/ PutAbandon(c)
         \/ \E i \in AdminRequests : ImportPut(i)
<1>1. ModelNext => UNCHANGED <<rows, put>>
  BY ZenonT(60) DEF ModelNext
<1>2. ASSUME NEW i \in AdminRequests, ImportStart(i) \/ ImportCrash(i) \/ ImportStep(i)
      PROVE  ImportPut(i) \/ UNCHANGED <<rows, put>>
  BY <1>2 DEF ImportStart, ImportCrash, ImportStep, ImportTenant, ImportCreateTenant,
     ImportRegister, ImportModel, ImportDone, ImportError
<1>3. ASSUME NEW a \in Readers, Analyse(a) \/ AnaRead(a) \/ AnaReadCut(a) \/ AnaAnswer(a)
      PROVE  UNCHANGED <<rows, put>>
  BY <1>3 DEF Analyse, AnaRead, AnaReadCut, AnaAnswer
<1>4. UNCHANGED gvars => UNCHANGED <<rows, put>>
  BY DEF gvars
<1> QED
  BY <1>1, <1>2, <1>3, <1>4 DEF GNext

\* The steps that change an analysis.
LEMMA AnaSteps ==
  ASSUME [GNext]_gvars
  PROVE  \/ UNCHANGED ana
         \/ \E a \in Readers : Analyse(a) \/ AnaRead(a) \/ AnaReadCut(a) \/ AnaAnswer(a)
<1>1. ModelNext => UNCHANGED ana
  BY DEF ModelNext
<1>2. ASSUME NEW w \in Writers, Write(w) PROVE UNCHANGED ana
  BY <1>2 DEF Write
<1>3. ASSUME NEW c \in Callers, PutStep(c) \/ PutAbandon(c) PROVE UNCHANGED ana
  BY <1>3, ZenonT(60) DEF PutStep, PutResolve, PutCheck, PutNext, PutInsert, PutAbandon
<1>4. ASSUME NEW i \in AdminRequests, ImportStart(i) \/ ImportCrash(i) \/ ImportStep(i)
      PROVE  UNCHANGED ana
  BY <1>4, ZenonT(60) DEF ImportStart, ImportCrash, ImportStep, ImportTenant, ImportCreateTenant,
     ImportRegister, ImportModel, ImportPut, ImportDone, ImportError
<1>5. UNCHANGED gvars => UNCHANGED ana
  BY DEF gvars
<1> QED
  BY <1>1, <1>2, <1>3, <1>4, <1>5 DEF GNext

\* The steps that change an import or the registries.
LEMMA ImportSteps ==
  ASSUME [GNext]_gvars
  PROVE  \/ UNCHANGED <<tenants, registry, imp>>
         \/ \E i \in AdminRequests : ImportStart(i) \/ ImportStep(i) \/ ImportCrash(i)
<1>1. ModelNext => UNCHANGED <<tenants, registry, imp>>
  BY DEF ModelNext, reg
<1>2. ASSUME NEW w \in Writers, Write(w) PROVE UNCHANGED <<tenants, registry, imp>>
  BY <1>2 DEF Write, reg
<1>3. ASSUME NEW c \in Callers, PutStep(c) \/ PutAbandon(c)
      PROVE  UNCHANGED <<tenants, registry, imp>>
  BY <1>3 DEF PutStep, PutResolve, PutCheck, PutNext, PutInsert, PutAbandon, reg
<1>4. ASSUME NEW a \in Readers, Analyse(a) \/ AnaRead(a) \/ AnaReadCut(a) \/ AnaAnswer(a)
      PROVE  UNCHANGED <<tenants, registry, imp>>
  BY <1>4 DEF Analyse, AnaRead, AnaReadCut, AnaAnswer, reg
<1>5. UNCHANGED gvars => UNCHANGED <<tenants, registry, imp>>
  BY DEF gvars
<1> QED
  BY <1>1, <1>2, <1>3, <1>4, <1>5 DEF GNext

----------------------------------------------------------------------------
(* The types.                                                              *)

\* The model version that an import pins its rows to is a pin.
LEMMA ImportPinTyped ==
  ASSUME MInv, GraphAssumption, NEW i \in AdminRequests, mreq[i].stage = "ok"
  PROVE  <<mreq[i].key, mreq[i].next>> \in Pins /\ <<mreq[i].key, mreq[i].next>> # NoPin
<1>1. mreq[i].key \in ModelIDs /\ mreq[i].next \in Nat \ {0}
  BY DEF MInv, PendingModel
<1> QED
  BY <1>1 DEF Pins, GraphAssumption

\* Imports write registries and their own state within their types.
LEMMA ImportTypes ==
  ASSUME GraphAssumption, MInv, GTypeOK, TenantKept, [GNext]_gvars
  PROVE  /\ tenants' \subseteq TenantIDs
         /\ registry' \subseteq TenantIDs \X Entries
         /\ imp' \in [AdminRequests -> ImportStates]
<1>t. /\ tenants \subseteq TenantIDs /\ registry \subseteq TenantIDs \X Entries
      /\ imp \in [AdminRequests -> ImportStates]
  BY DEF GTypeOK
<1>a. \A a \in Readers : ana[a].read \subseteq Keys \cup Entries
  BY DEF GTypeOK, AnaStates
<1>0. ASSUME NEW i \in AdminRequests PROVE imp[i] \in ImportStates
  BY <1>t
<1>1. CASE UNCHANGED <<tenants, registry, imp>>
  BY <1>1, <1>t
<1>2. ASSUME NEW i \in AdminRequests, NEW q \in ImportStates,
             imp' = [imp EXCEPT ![i] = q]
      PROVE  imp' \in [AdminRequests -> ImportStates]
  BY <1>2, <1>t, ZenonT(60)
<1>3. ASSUME NEW i \in AdminRequests, ImportStart(i)
      PROVE  imp' \in [AdminRequests -> ImportStates]
  <2>1. ASSUME NEW s \in {{}, ContractKeys}, NEW b \in Bundles,
               imp' = [imp EXCEPT ![i].stage = "tenant", ![i].skip = s,
                                  ![i].bundle = b, ![i].left = b]
        PROVE  imp' \in [AdminRequests -> ImportStates]
    <3> DEFINE q == [imp[i] EXCEPT !.stage = "tenant", !.skip = s, !.bundle = b, !.left = b]
    <3>1. b \in SUBSET Keys
      BY DEF GraphAssumption
    <3>2. imp[i] \in ImportStates
      BY <1>0
    <3>3. q \in ImportStates
      BY <3>1, <3>2 DEF ImportStates
    <3>4. imp' = [imp EXCEPT ![i] = q]
      BY <2>1, ZenonT(60)
    <3> QED
      BY <1>2, <3>3, <3>4
  <2>2. ASSUME NEW s \in {{}, ContractKeys}, NEW a \in Readers,
               imp' = [imp EXCEPT ![i].stage = "tenant", ![i].skip = s, ![i].file = a,
                                ![i].entries = ana[a].read \cap Entries,
                                ![i].bundle = ana[a].read \cap Keys,
                                ![i].left = ana[a].read \cap Keys]
        PROVE  imp' \in [AdminRequests -> ImportStates]
    <3> DEFINE en == ana[a].read \cap Entries
               ks == ana[a].read \cap Keys
               q == [imp[i] EXCEPT !.stage = "tenant", !.skip = s, !.file = a, !.entries = en,
                                   !.bundle = ks, !.left = ks]
    <3>1. en \in SUBSET Entries /\ ks \in SUBSET Keys
      OBVIOUS
    <3>2. imp[i] \in ImportStates
      BY <1>0
    <3>4. imp' = [imp EXCEPT ![i] = q]
      BY <2>2, ZenonT(60)
    <3> HIDE DEF en, ks
    <3>3. q \in ImportStates
      BY <3>1, <3>2 DEF ImportStates
    <3> HIDE DEF q
    <3> QED
      BY <1>2, <3>3, <3>4
  <2> QED
    BY <1>3, <2>1, <2>2 DEF ImportStart
<1>4. ASSUME NEW i \in AdminRequests, ImportTenant(i) \/ ImportCreateTenant(i)
      PROVE  tenants' \subseteq TenantIDs /\ imp' \in [AdminRequests -> ImportStates]
  <2>1. CASE imp' = [imp EXCEPT ![i].stage = "create"] /\ UNCHANGED tenants
    <3>1. imp[i] \in ImportStates
      BY <1>0
    <3>2. [imp[i] EXCEPT !.stage = "create"] \in ImportStates
      BY <3>1 DEF ImportStates
    <3>3. imp' = [imp EXCEPT ![i] = [imp[i] EXCEPT !.stage = "create"]]
      BY <2>1
    <3> QED
      BY <1>2, <1>t, <2>1, <3>2, <3>3
  <2>2. ASSUME NEW x \in TenantIDs, tenants' \subseteq tenants \cup {x},
               imp' = [imp EXCEPT ![i].stage = "register", ![i].tenant = x]
        PROVE  tenants' \subseteq TenantIDs /\ imp' \in [AdminRequests -> ImportStates]
    <3> DEFINE q == [imp[i] EXCEPT !.stage = "register", !.tenant = x]
    <3>1. imp[i] \in ImportStates
      BY <1>0
    <3>2. q \in ImportStates
      BY <3>1 DEF ImportStates
    <3>3. imp' = [imp EXCEPT ![i] = q]
      BY <2>2, ZenonT(60)
    <3> HIDE DEF q
    <3> QED
      BY <1>2, <1>t, <2>2, <3>2, <3>3
  <2> QED
    BY <1>4, <1>t, <2>1, <2>2 DEF ImportTenant, ImportCreateTenant, TenantCreated, reg
<1>5. ASSUME NEW i \in AdminRequests, ImportRegister(i)
      PROVE  registry' \subseteq TenantIDs \X Entries /\ imp' \in [AdminRequests -> ImportStates]
  <2>1. PICK x \in imp[i].entries :
          /\ registry' = registry \cup {<<imp[i].tenant, x>>}
          /\ imp' = [imp EXCEPT ![i].entries = @ \ {x}]
    BY <1>5 DEF ImportRegister
  <2> DEFINE q == [imp[i] EXCEPT !.entries = @ \ {x}]
  <2>0. imp[i] \in ImportStates
    BY <1>0
  <2>2. q \in ImportStates /\ x \in Entries
    BY <2>0 DEF ImportStates
  <2>3. imp' = [imp EXCEPT ![i] = q]
    BY <2>1
  <2> HIDE DEF q
  <2>4. imp' \in [AdminRequests -> ImportStates]
    BY <1>2, <2>2, <2>3
  <2>5. imp[i].tenant \in TenantIDs
    BY <1>5, <1>t DEF ImportRegister, TenantKept
  <2>6. registry' \subseteq TenantIDs \X Entries
    BY <1>t, <2>1, <2>2, <2>5
  <2> QED
    BY <2>4, <2>6
<1>6. ASSUME NEW i \in AdminRequests,
             ImportModel(i) \/ ImportDone(i) \/ ImportError(i) \/ ImportCrash(i)
      PROVE  imp' \in [AdminRequests -> ImportStates]
  <2>1. \E x \in {"active", "done", "stopped"} : imp' = [imp EXCEPT ![i].stage = x]
    BY <1>6 DEF ImportModel, ImportDone, ImportError, ImportCrash
  <2>2. PICK x \in {"active", "done", "stopped"} :
          imp' = [imp EXCEPT ![i] = [imp[i] EXCEPT !.stage = x]]
    BY <2>1
  <2>3. [imp[i] EXCEPT !.stage = x] \in ImportStates
    BY <1>0 DEF ImportStates
  <2> QED
    BY <1>2, <2>2, <2>3
<1>7. ASSUME NEW i \in AdminRequests, ImportPut(i)
      PROVE  imp' \in [AdminRequests -> ImportStates]
  <2> DEFINE pin == <<mreq[i].key, mreq[i].next>>
  <2>1. pin \in Pins
    BY <1>7, ImportPinTyped DEF ImportPut, ImportReady
  <2>2. PICK k : imp' = [imp EXCEPT ![i].left = @ \ {k}, ![i].pin = pin]
    BY <1>7 DEF ImportPut
  <2> HIDE DEF pin
  <2> DEFINE l == imp[i].left \ {k}
             q == [imp[i] EXCEPT !.left = l, !.pin = pin]
  <2>3. imp[i] \in ImportStates
    BY <1>0
  <2>4. l \in SUBSET Keys
    BY <2>3 DEF ImportStates
  <2>5. imp' = [imp EXCEPT ![i] = q]
    BY <2>2, ZenonT(60)
  <2> HIDE DEF l
  <2>6. q \in ImportStates
    BY <2>1, <2>3, <2>4 DEF ImportStates
  <2> HIDE DEF q
  <2> QED
    BY <1>2, <2>5, <2>6
<1>8. ASSUME NEW i \in AdminRequests, ImportStart(i) \/ ImportStep(i) \/ ImportCrash(i)
      PROVE  /\ ImportTenant(i) \/ ImportCreateTenant(i) \/ UNCHANGED tenants
             /\ ImportRegister(i) \/ UNCHANGED registry
  BY <1>8, ZenonT(60) DEF ImportStep, ImportStart, ImportTenant, ImportCreateTenant, ImportRegister,
     ImportModel, ImportPut, ImportDone, ImportError, ImportCrash, reg
<1>9. ASSUME NEW i \in AdminRequests, ImportStart(i) \/ ImportStep(i) \/ ImportCrash(i)
      PROVE  /\ tenants' \subseteq TenantIDs
             /\ registry' \subseteq TenantIDs \X Entries
             /\ imp' \in [AdminRequests -> ImportStates]
  BY <1>t, <1>3, <1>4, <1>5, <1>6, <1>7, <1>8, <1>9 DEF ImportStep
<1> QED
  BY <1>1, <1>9, ImportSteps

\* No analysis makes more than six statements.
LEMMA ReadOrderLength ==
  ASSUME GraphAssumption, NEW kind \in Kinds
  PROVE  Len(ReadOrder(kind)) \in 0 .. 6
<1>1. kind \in {"graph", "paths", "gaps", "export", "fullexport"}
  BY DEF GraphAssumption
<1> QED
  BY <1>1 DEF ReadOrder, loadGraph, PathsReads, detectGaps, ExportReads, FullExportReads

\* What a pin is resolved to is a model version.
LEMMA EnabledIsPin ==
  ASSUME MInv, NEW m \in LatestEnabled
  PROVE  <<m.key, m.version>> \in Pins
BY DEF LatestEnabled, Enabled, MInv, MTypeOK, ModelRows, Pins

\* A snapshot holds keys.
LEMMA ContentTyped ==
  ASSUME GTypeOK, NEW p
  PROVE  Content(p) \subseteq Keys /\ Pinned(p) \subseteq Keys
BY DEF GTypeOK, GraphRows, Content, Snapshot, Pinned

\* Analyses and exports stay within their types, at one of their statements.
LEMMA AnaTypes ==
  ASSUME GraphAssumption, MInv, GTypeOK, \A a \in Readers : AnaKept(ana[a]), [GNext]_gvars
  PROVE  /\ ana' \in [Readers -> AnaStates]
         /\ \A a \in Readers : AnaKept(ana[a])'
<1>t. ana \in [Readers -> AnaStates]
  BY DEF GTypeOK
<1>1. CASE UNCHANGED ana
  BY <1>1, <1>t DEF AnaKept
<1>2. ASSUME NEW a \in Readers, NEW q \in AnaStates,
             AnaKept(q),
             ana' = [ana EXCEPT ![a] = q]
      PROVE  /\ ana' \in [Readers -> AnaStates]
             /\ \A b \in Readers : AnaKept(ana[b])'
  <2>1. ana' \in [Readers -> AnaStates]
    BY <1>2, <1>t
  <2>2. \A b \in Readers : ana'[b] = q \/ ana'[b] = ana[b]
    BY <1>2, <1>t
  <2> QED
    BY <1>2, <2>1, <2>2 DEF AnaKept
<1>3. ASSUME NEW a \in Readers, Analyse(a)
      PROVE  /\ ana' \in [Readers -> AnaStates]
             /\ \A b \in Readers : AnaKept(ana[b])'
  <2>0. ana[a] \in AnaStates /\ ana[a].stage = "new" /\ ana[a].at = 0
    BY <1>3, <1>t DEF Analyse, AnaKept
  <2>1. ASSUME NEW kind \in Kinds, NEW m \in LatestEnabled,
               ana' = [ana EXCEPT ![a].stage = "read", ![a].kind = kind,
                                  ![a].pin = <<m.key, m.version>>,
                                  ![a].base = Pinned(<<m.key, m.version>>)]
        PROVE  /\ ana' \in [Readers -> AnaStates]
               /\ \A b \in Readers : AnaKept(ana[b])'
    <3> DEFINE pin == <<m.key, m.version>>
               ks == Pinned(pin)
               q == [ana[a] EXCEPT !.stage = "read", !.kind = kind, !.pin = pin, !.base = ks]
    <3>1. pin \in Pins /\ ks \in SUBSET Keys
      BY EnabledIsPin, ContentTyped
    <3>2. ana' = [ana EXCEPT ![a] = q]
      BY <1>t, <2>1
    <3> HIDE DEF pin, ks
    <3>3. q \in AnaStates
      BY <2>0, <3>1 DEF AnaStates
    <3>4. q.stage = "read" /\ q.kind = kind /\ q.at = 0
      BY <2>0 DEF AnaStates
    <3>5. 0 <= Len(ReadOrder(kind))
      BY ReadOrderLength
    <3> HIDE DEF q
    <3>6. AnaKept(q)
      BY <3>4, <3>5 DEF AnaKept
    <3> QED
      BY <1>2, <3>2, <3>3, <3>6
  <2>2. ASSUME NEW kind \in Kinds,
               ana' = [ana EXCEPT ![a].stage = "failed", ![a].kind = kind]
        PROVE  /\ ana' \in [Readers -> AnaStates]
               /\ \A b \in Readers : AnaKept(ana[b])'
    <3> DEFINE q == [ana[a] EXCEPT !.stage = "failed", !.kind = kind]
    <3>1. q \in AnaStates /\ AnaKept(q)
      BY <2>0 DEF AnaStates, AnaKept
    <3>2. ana' = [ana EXCEPT ![a] = q]
      BY <1>t, <2>2
    <3> HIDE DEF q
    <3> QED
      BY <1>2, <3>1, <3>2
  <2> QED
    BY <1>3, <2>1, <2>2 DEF Analyse
<1>4. ASSUME NEW a \in Readers, Reading(a), NEW new \in SUBSET RowsRead(a),
             ana' = [ana EXCEPT ![a].at = @ + 1, ![a].read = @ \cup new]
      PROVE  /\ ana' \in [Readers -> AnaStates]
             /\ \A b \in Readers : AnaKept(ana[b])'
  <2> DEFINE p == ana[a]
             n == p.at + 1
             ks == p.read \cup new
             q == [p EXCEPT !.at = n, !.read = ks]
  <2>0. p \in AnaStates /\ p.stage = "read" /\ p.kind \in Kinds
    BY <1>4, <1>t DEF Reading, AnaKept
  <2>1. p.at \in Nat /\ Len(ReadOrder(p.kind)) \in 0 .. 6 /\ p.at < Len(ReadOrder(p.kind))
    BY <1>4, <2>0, ReadOrderLength DEF Reading, AnaStates
  <2>a. \A x \in Nat, l \in 0 .. 6 : x < l => x + 1 \in 0 .. 6 /\ x + 1 <= l
    OBVIOUS
  <2>2. n \in 0 .. 6 /\ n <= Len(ReadOrder(p.kind))
    BY <2>1, <2>a, Zenon
  <2>3. RowsRead(a) \subseteq Keys \cup Entries
    BY ContentTyped DEF RowsRead, Registered
  <2>4. ks \in SUBSET (Keys \cup Entries)
    BY <2>0, <2>3 DEF AnaStates
  <2>5. ana' = [ana EXCEPT ![a] = q]
    BY <1>t, <1>4
  <2> HIDE DEF n, ks
  <2>6. q \in AnaStates
    BY <2>0, <2>2, <2>4 DEF AnaStates
  <2>7. q.stage = "read" /\ q.kind = p.kind /\ q.at = n
    BY <2>0 DEF AnaStates
  <2> HIDE DEF q
  <2>8. AnaKept(q)
    BY <2>0, <2>2, <2>7 DEF AnaKept
  <2> QED
    BY <1>2, <2>5, <2>6, <2>8
<1>5. ASSUME NEW a \in Readers, NEW st \in {"ok", "failed"},
             ana' = [ana EXCEPT ![a].stage = st]
      PROVE  /\ ana' \in [Readers -> AnaStates]
             /\ \A b \in Readers : AnaKept(ana[b])'
  <2> DEFINE q == [ana[a] EXCEPT !.stage = st]
  <2>0. ana[a] \in AnaStates
    BY <1>t
  <2>1. q \in AnaStates /\ AnaKept(q)
    BY <2>0 DEF AnaStates, AnaKept
  <2>2. ana' = [ana EXCEPT ![a] = q]
    BY <1>5
  <2> HIDE DEF q
  <2> QED
    BY <1>2, <2>1, <2>2
<1>6. ASSUME NEW a \in Readers, AnaRead(a) \/ AnaReadCut(a) \/ AnaAnswer(a)
      PROVE  /\ ana' \in [Readers -> AnaStates]
             /\ \A b \in Readers : AnaKept(ana[b])'
  <2>1. CASE AnaRead(a)
    BY <1>4, <2>1 DEF AnaRead
  <2>2. CASE AnaReadCut(a)
    BY <1>4, <1>5, <2>2 DEF AnaReadCut
  <2>3. CASE AnaAnswer(a)
    BY <1>5, <2>3 DEF AnaAnswer
  <2> QED
    BY <1>6, <2>1, <2>2, <2>3
<1> QED
  BY <1>1, <1>3, <1>6, AnaSteps

\* The tenant of the imports is created once and kept.
LEMMA TenantStep ==
  ASSUME GTypeOK, TenantKept, [GNext]_gvars
  PROVE  TenantKept'
<1>t. imp \in [AdminRequests -> ImportStates]
  BY DEF GTypeOK
<1>1. CASE UNCHANGED <<tenants, registry, imp>>
  BY <1>1 DEF TenantKept
<1>2. ASSUME NEW i \in AdminRequests, ImportTenant(i) \/ ImportCreateTenant(i)
      PROVE  TenantKept'
  <2>1. /\ \A s \in AdminRequests \ {i} : imp'[s] = imp[s]
        /\ \/ imp'[i].stage = "create" /\ imp'[i].tenant = imp[i].tenant
           \/ imp'[i].tenant \in tenants'
        /\ tenants \subseteq tenants'
    BY <1>2, <1>t DEF ImportTenant, ImportCreateTenant, ImportStates, reg
  <2>2. \A x, y \in tenants' : x = y
    <3>1. CASE UNCHANGED tenants
      BY <3>1 DEF TenantKept
    <3>2. ASSUME NEW x \in TenantCreated, tenants' = tenants \cup {x}
          PROVE  \A y, z \in tenants' : y = z
      BY <3>2 DEF TenantCreated, TenantKept
    <3> QED
      BY <1>2, <3>1, <3>2 DEF ImportTenant, ImportCreateTenant, reg
  <2> QED
    BY <2>1, <2>2 DEF TenantKept
<1>3. ASSUME NEW i \in AdminRequests,
             \/ ImportStart(i) \/ ImportRegister(i) \/ ImportModel(i) \/ ImportPut(i)
             \/ ImportDone(i) \/ ImportError(i) \/ ImportCrash(i)
      PROVE  TenantKept'
  <2> DEFINE Kept == /\ imp'[i].tenant = imp[i].tenant
                     /\ \A s \in AdminRequests \ {i} : imp'[s] = imp[s]
                     /\ imp'[i].stage \in {"register", "active", "done"} =>
                          imp[i].stage \in {"register", "active"}
  <2>0. imp[i] \in ImportStates
    BY <1>t, ZenonT(60)
  <2>a. ASSUME ImportStart(i) PROVE Kept
    <3>1. ASSUME NEW f, NEW s, NEW en, NEW b,
                 imp' = [imp EXCEPT ![i].stage = "tenant", ![i].skip = s, ![i].file = f,
                              ![i].entries = en, ![i].bundle = b, ![i].left = b]
          PROVE  Kept
      BY <1>t, <2>0, <3>1 DEF ImportStates
    <3>2. ASSUME NEW s, NEW b,
                 imp' = [imp EXCEPT ![i].stage = "tenant", ![i].skip = s,
                                    ![i].bundle = b, ![i].left = b]
          PROVE  Kept
      BY <1>t, <2>0, <3>2 DEF ImportStates
    <3>3. ASSUME NEW s, NEW a \in Readers,
                 imp' = [imp EXCEPT ![i].stage = "tenant", ![i].skip = s, ![i].file = a,
                                ![i].entries = ana[a].read \cap Entries,
                                ![i].bundle = ana[a].read \cap Keys,
                                ![i].left = ana[a].read \cap Keys]
          PROVE  Kept
      <4> DEFINE en == ana[a].read \cap Entries
                 b == ana[a].read \cap Keys
      <4>1. imp' = [imp EXCEPT ![i].stage = "tenant", ![i].skip = s, ![i].file = a,
                              ![i].entries = en, ![i].bundle = b, ![i].left = b]
        BY <3>3
      <4> HIDE DEF en, b, Kept
      <4> QED
        BY <3>1, <4>1
    <3> HIDE DEF Kept
    <3> QED
      BY <2>a, <3>2, <3>3 DEF ImportStart
  <2>b. ASSUME ImportRegister(i) PROVE Kept
    <3>1. PICK x : imp' = [imp EXCEPT ![i].entries = @ \ {x}]
      BY <2>b DEF ImportRegister
    <3>2. imp[i].stage = "register"
      BY <2>b DEF ImportRegister
    <3> QED
      BY <1>t, <2>0, <3>1, <3>2 DEF ImportStates
  <2>c. ASSUME ImportPut(i) PROVE Kept
    <3>1. PICK k, pin : imp' = [imp EXCEPT ![i].left = @ \ {k}, ![i].pin = pin]
      BY <2>c DEF ImportPut
    <3>2. imp[i].stage = "active"
      BY <2>c DEF ImportPut, ImportReady
    <3> QED
      BY <1>t, <2>0, <3>1, <3>2 DEF ImportStates
  <2>d. ASSUME ImportModel(i) \/ ImportDone(i) \/ ImportError(i) \/ ImportCrash(i) PROVE Kept
    <3>1. PICK x \in {"active", "done", "stopped"} :
            /\ imp' = [imp EXCEPT ![i].stage = x]
            /\ x # "stopped" => imp[i].stage \in {"register", "active"}
      BY <2>d DEF ImportModel, ImportDone, ImportReady, ImportError, ImportCrash
    <3> QED
      BY <1>t, <2>0, <3>1 DEF ImportStates
  <2> HIDE DEF Kept
  <2>1. Kept
    BY <1>3, <2>a, <2>b, <2>c, <2>d, ZenonT(60)
  <2>3. UNCHANGED tenants
    BY <1>3 DEF ImportStart, ImportRegister, ImportModel, ImportPut, ImportDone,
       ImportError, ImportCrash, reg
  <2> QED
    BY <2>1, <2>3 DEF TenantKept, Kept
<1> QED
  BY <1>1, <1>2, <1>3, ImportSteps DEF ImportStep

----------------------------------------------------------------------------
(* The calls of Put.                                                       *)

\* The rows of a key after one step: at most the one of an INSERT is new.
LEMMA RowsStep ==
  ASSUME [GNext]_gvars
  PROVE  \/ UNCHANGED rows
         \/ \E c \in Callers :
              /\ put[c].stage = "insert" /\ RowAllowed(put[c])
              /\ rows' = rows \cup {[key |-> put[c].key, version |-> put[c].next,
                                    pin |-> put[c].pin, blob |-> c]}
              /\ put' = [put EXCEPT ![c].stage = "inserted"]
              /\ PutInsert(c)
<1>1. ASSUME NEW w \in Writers, Write(w) PROVE UNCHANGED rows
  BY <1>1 DEF Write
<1>2. ASSUME NEW i \in AdminRequests, ImportPut(i) PROVE UNCHANGED rows
  BY <1>2 DEF ImportPut
<1>3. ASSUME NEW c \in Callers, PutStep(c) \/ PutAbandon(c), ~ PutInsert(c) PROVE UNCHANGED rows
  BY <1>3 DEF PutStep, PutResolve, PutCheck, PutNext, PutAbandon
<1>4. ASSUME NEW c \in Callers, PutInsert(c), ~ RowAllowed(put[c]) PROVE UNCHANGED rows
  BY <1>4 DEF PutInsert
<1>5. ASSUME NEW c \in Callers, PutInsert(c), RowAllowed(put[c])
      PROVE  /\ put[c].stage = "insert"
             /\ rows' = rows \cup {[key |-> put[c].key, version |-> put[c].next,
                                    pin |-> put[c].pin, blob |-> c]}
             /\ put' = [put EXCEPT ![c].stage = "inserted"]
  BY <1>5 DEF PutInsert
<1> QED
  BY <1>1, <1>2, <1>3, <1>4, <1>5, OtherSteps

TableKept ==
  /\ \A k \in Keys : Latest(rows, k) \in Nat
  /\ RowHistoriesDense
  /\ put \in [Callers -> PutStates]
  /\ rows \subseteq GraphRows
  /\ \A c \in Callers : PutKept(c, put[c])

\* A call moves on without writing.
LEMMA PutMoves ==
  ASSUME TableKept, UNCHANGED rows,
         NEW c \in Callers, NEW q \in PutStates, PutKept(c, q),
         put' = [put EXCEPT ![c] = q]
  PROVE  TableKept'
<1>1. put' \in [Callers -> PutStates]
  BY DEF TableKept
<1>2. \A d \in Callers : put'[d] = IF d = c THEN q ELSE put[d]
  BY DEF TableKept
<1>3. \A d \in Callers : PutKept(d, put'[d])
  BY <1>2 DEF TableKept
<1>4. \A d \in Callers : PutKept(d, put[d])'
  BY <1>3 DEF PutKept
<1> QED
  BY <1>1, <1>4 DEF TableKept, RowHistoriesDense

\* The row of an INSERT that the primary key lets through.
LEMMA PutInserts ==
  ASSUME TableKept, NEW c \in Callers, put[c].stage = "insert", RowAllowed(put[c]),
         rows' = rows \cup {[key |-> put[c].key, version |-> put[c].next,
                             pin |-> put[c].pin, blob |-> c]},
         put' = [put EXCEPT ![c].stage = "inserted"]
  PROVE  TableKept'
<1> DEFINE p == put[c]
           x == [key |-> p.key, version |-> p.next, pin |-> p.pin, blob |-> c]
           q == [p EXCEPT !.stage = "inserted"]
<1>1. p \in PutStates /\ PutKept(c, p)
  BY DEF TableKept
<1>2. p.key \in Keys /\ p.pin \in Pins /\ p.next \in Nat /\ 1 <= p.next
      /\ p.next <= Latest(rows, p.key) + 1
  BY <1>1 DEF PutKept, PutStates
<1>3. x.key = p.key /\ x.version = p.next /\ x \in GraphRows
  BY <1>2 DEF GraphRows
<1>4. rows' = rows \cup {x} /\ put' = [put EXCEPT ![c] = q]
  OBVIOUS
<1>5. /\ q \in PutStates /\ q.stage = "inserted" /\ q.key = p.key /\ q.next = p.next
      /\ q.pin = p.pin
  BY <1>1 DEF PutStates, PutStages
<1>6. x = [key |-> p.key, version |-> p.next, pin |-> p.pin, blob |-> c]
  OBVIOUS
<1> HIDE DEF x, q
<1>7. /\ Latest(rows', p.key) = Latest(rows, p.key) + 1
      /\ DenseKey(rows', p.key)
  BY <1>2, <1>3, <1>4, InsertNext DEF TableKept, RowHistoriesDense, RowAllowed
<1>8. \A k \in Keys \ {p.key} : /\ Latest(rows', k) = Latest(rows, k)
                               /\ DenseKey(rows', k)
  BY <1>3, <1>4, InsertElsewhere DEF TableKept, RowHistoriesDense
<1>9. UniqueRows(rows')
  BY <1>3, <1>4, InsertUnique DEF TableKept, RowHistoriesDense, RowAllowed
<1>10. \A k \in Keys : /\ Latest(rows', k) \in Nat
                       /\ Latest(rows, k) <= Latest(rows', k)
                       /\ DenseKey(rows', k)
  BY <1>2, <1>7, <1>8 DEF TableKept
<1>11. put' \in [Callers -> PutStates] /\ rows' \subseteq GraphRows
  BY <1>3, <1>4, <1>5 DEF TableKept
<1>12. ASSUME NEW d \in Callers PROVE PutKept(d, put[d])'
  <2>1. CASE d = c
    <3>1. put'[d] = q
      BY <1>4, <2>1 DEF TableKept
    <3> QED
      BY <1>2, <1>4, <1>5, <1>6, <2>1, <3>1 DEF PutKept
  <2>2. CASE d # c
    <3>1. put'[d] = put[d] /\ put[d] \in PutStates /\ PutKept(d, put[d])
      BY <1>4, <2>2 DEF TableKept
    <3>a. put[d].stage = "insert" =>
            /\ put[d].key \in Keys /\ put[d].next \in Nat
            /\ put[d].next <= Latest(rows, put[d].key) + 1
            /\ Latest(rows, put[d].key) \in Nat
      BY <3>1 DEF PutKept, PutStates, TableKept
    <3>2. put[d].stage = "insert" => put[d].next <= Latest(rows', put[d].key) + 1
      <4>1. put[d].stage = "insert" =>
              /\ Latest(rows', put[d].key) \in Nat
              /\ Latest(rows, put[d].key) <= Latest(rows', put[d].key)
        BY <1>10, <3>a
      <4> QED
        BY <3>a, <4>1
    <3> QED
      BY <1>4, <3>1, <3>2 DEF PutKept
  <2> QED
    BY <2>1, <2>2
<1> QED
  BY <1>9, <1>10, <1>11, <1>12 DEF TableKept, RowHistoriesDense

\* The steps of a call of Put, of its caller and of its connection.
LEMMA PutStepKept ==
  ASSUME GraphAssumption, MInv, TableKept, NEW c \in Callers, PutStep(c) \/ PutAbandon(c)
  PROVE  TableKept'
<1> DEFINE p == put[c]
<1>0. p \in PutStates /\ PutKept(c, p)
  BY DEF TableKept
<1>1. ASSUME NEW m \in LatestEnabled, p.stage = "resolve", UNCHANGED rows,
             put' = [put EXCEPT ![c].stage = "check", ![c].pin = <<m.key, m.version>>]
      PROVE  TableKept'
  <2> DEFINE pin == <<m.key, m.version>>
             q == [p EXCEPT !.stage = "check", !.pin = pin]
  <2>1. pin \in Pins
    BY EnabledIsPin
  <2>2. put' = [put EXCEPT ![c] = q]
    BY <1>1, ZenonT(60)
  <2> HIDE DEF pin
  <2>3. q \in PutStates /\ q.stage = "check" /\ q.key = p.key /\ q.pin = pin
    BY <1>0, <2>1 DEF PutStates, PutStages
  <2> HIDE DEF q
  <2>4. PutKept(c, q)
    BY <1>0, <1>1, <2>1, <2>3 DEF PutKept
  <2> QED
    BY <1>1, <2>2, <2>3, <2>4, PutMoves
<1>2. ASSUME NEW st \in PutStages \ {"new"}, UNCHANGED rows, p.stage # "new",
             st \in {"check", "next", "insert", "inserted", "lost", "conflict"} =>
               p.stage \in {"check", "next", "insert", "inserted"},
             st # "insert", st # "inserted", st = "lost" => p.stage = "inserted",
             put' = [put EXCEPT ![c].stage = st]
      PROVE  TableKept'
  <2> DEFINE q == [p EXCEPT !.stage = st]
  <2>1. put' = [put EXCEPT ![c] = q]
    BY <1>2
  <2>2. q \in PutStates /\ q.stage = st /\ q.key = p.key /\ q.pin = p.pin /\ q.next = p.next
    BY <1>0 DEF PutStates
  <2> HIDE DEF q
  <2>3. PutKept(c, q)
    BY <1>0, <1>2, <2>2 DEF PutKept
  <2> QED
    BY <1>2, <2>1, <2>2, <2>3, PutMoves
<1>3. CASE PutResolve(c)
  <2>1. CASE LatestEnabled = {}
    BY <1>2, <1>3, <2>1 DEF PutResolve, PutStages
  <2>2. CASE LatestEnabled # {}
    BY <1>1, <1>3, <2>2 DEF PutResolve
  <2> QED
    BY <2>1, <2>2
<1>4. CASE PutCheck(c)
  <2>1. PICK st \in {"next", "conflict"} : put' = [put EXCEPT ![c].stage = st]
    BY <1>4 DEF PutCheck
  <2> QED
    BY <1>2, <1>4, <2>1 DEF PutCheck, PutStages
<1>5. CASE PutNext(c)
  <2> DEFINE n == Latest(rows, p.key) + 1
             q == [p EXCEPT !.stage = "insert", !.next = n]
  <2>0. p.key \in Keys /\ p.pin \in Pins
    BY <1>0, <1>5 DEF PutNext, PutKept
  <2>1. Latest(rows, p.key) \in Nat
    BY <2>0 DEF TableKept
  <2>2. n \in Nat /\ 1 <= n
    BY <2>1
  <2>3. put' = [put EXCEPT ![c] = q]
    BY <1>5, ZenonT(60) DEF PutNext
  <2>4. /\ q \in PutStates /\ q.stage = "insert" /\ q.key = p.key /\ q.pin = p.pin
        /\ q.next = n
    <3> HIDE DEF n
    <3> QED
      BY <1>0, <2>2 DEF PutStates, PutStages
  <2>5. q.next <= Latest(rows, q.key) + 1
    BY <2>1, <2>4
  <2> HIDE DEF q, n
  <2>6. PutKept(c, q)
    BY <2>0, <2>2, <2>4, <2>5 DEF PutKept
  <2> QED
    BY <1>5, <2>3, <2>4, <2>6, PutMoves DEF PutNext
<1>6. CASE PutInsert(c)
  <2>1. CASE RowAllowed(p)
    BY <1>6, <2>1, PutInserts DEF PutInsert
  <2>2. CASE ~ RowAllowed(p)
    BY <1>2, <1>6, <2>2 DEF PutInsert, PutStages
  <2> QED
    BY <2>1, <2>2
<1>7. CASE PutAbandon(c)
  BY <1>2, <1>7 DEF PutAbandon, PutStages
<1> QED
  BY <1>3, <1>4, <1>5, <1>6, <1>7 DEF PutStep

\* A new call, of a request or of an import.
LEMMA CallKept ==
  ASSUME GraphAssumption, TableKept, UNCHANGED rows,
         NEW c \in Callers, NEW k \in Keys, NEW pin \in Pins \cup {NoPin},
         NEW e \in Nat \cup {NoVersion},
         put' = [put EXCEPT ![c] = Call(k, pin, e)]
  PROVE  TableKept'
<1> DEFINE q == Call(k, pin, e)
<1>1. q \in PutStates
  BY DEF Call, PutStates, PutStages
<1>2. q.stage \in {"resolve", "check"} /\ q.key = k /\ (q.stage = "check" => q.pin \in Pins)
  BY DEF Call
<1> HIDE DEF q
<1>3. PutKept(c, q)
  BY <1>2 DEF PutKept
<1> QED
  BY <1>1, <1>3, PutMoves DEF q

\* Every step keeps the rows dense and what each call of Put has in hand.
LEMMA TableStep ==
  ASSUME GraphAssumption, MInv, GTypeOK, TableKept, [GNext]_gvars
  PROVE  TableKept'
<1>1. CASE UNCHANGED <<rows, put>>
  BY <1>1 DEF TableKept, RowHistoriesDense, PutKept
<1>2. ASSUME NEW w \in Writers, Write(w) PROVE TableKept'
  <2>1. PICK k \in Keys, p \in (ModelIDs \X (1 .. MaxPinVersion)) \cup {NoPin},
             e \in (0 .. MaxExpected) \cup {NoVersion} :
          put' = [put EXCEPT ![w] = Call(k, p, e)]
    BY <1>2 DEF Write
  <2>2. p \in Pins \cup {NoPin} /\ e \in Nat \cup {NoVersion} /\ w \in Callers
    BY DEF Pins, GraphAssumption, Callers
  <2>3. UNCHANGED rows
    BY <1>2 DEF Write
  <2> QED
    BY <2>1, <2>2, <2>3, CallKept
<1>3. ASSUME NEW i \in AdminRequests, ImportPut(i) PROVE TableKept'
  <2>1. PICK k \in NextItems(i) : put' = [put EXCEPT ![i] = Call(k, ImportPin(i), NoVersion)]
    BY <1>3 DEF ImportPut
  <2>2. k \in Keys
    BY DEF NextItems, Due, GTypeOK, ImportStates
  <2>3. ImportPin(i) \in Pins
    BY <1>3, ImportPinTyped DEF ImportPut, ImportReady, ImportPin
  <2>4. UNCHANGED rows /\ i \in Callers
    BY <1>3 DEF ImportPut, Callers
  <2> QED
    BY <2>1, <2>2, <2>3, <2>4, CallKept
<1> QED
  BY <1>1, <1>2, <1>3, PutStepKept, OtherSteps

----------------------------------------------------------------------------
(* The theorems.                                                           *)

\* Nothing is stored and nothing has started.
LEMMA TableInit == ASSUME ModelAssumption, GraphAssumption, GInit PROVE TableInv
<1>1. MInv
  BY MInitInv DEF GInit
<1>2. \A k \in Keys : Latest(rows, k) \in Nat /\ DenseKey(rows, k)
  BY EmptyTable DEF GInit
<1>3. RowHistoriesDense
  BY <1>2 DEF GInit, RowHistoriesDense, UniqueRows
<1>4. put \in [Callers -> PutStates] /\ \A c \in Callers : PutKept(c, put[c])
  BY DEF GInit, PutStates, PutStages, PutKept
<1>5. imp \in [AdminRequests -> ImportStates] /\ TenantKept
  BY DEF GInit, ImportStates, TenantKept
<1>6. ana \in [Readers -> AnaStates] /\ \A a \in Readers : AnaKept(ana[a])
  <2>1. ana \in [Readers -> AnaStates]
    BY DEF GInit, AnaStates
  <2>2. \A a \in Readers : ana[a].stage = "new" /\ ana[a].at = 0 /\ ana[a].read = {}
    BY DEF GInit
  <2> QED
    BY <2>1, <2>2 DEF AnaKept
<1>7. GTypeOK
  BY <1>1, <1>4, <1>5, <1>6 DEF GInit, GTypeOK, MInv
<1> QED
  BY <1>1, <1>2, <1>3, <1>4, <1>5, <1>6, <1>7 DEF TableInv

\* Every step keeps the invariant.
LEMMA TableNext ==
  ASSUME ModelAssumption, GraphAssumption, TableInv, [GNext]_gvars
  PROVE  TableInv'
<1>1. MInv'
  BY GraphModelStep, MNextInv DEF TableInv
<1>2. TableKept
  BY DEF TableInv, TableKept, GTypeOK
<1>3. TableKept'
  BY <1>2, TableStep DEF TableInv
<1>4. TenantKept'
  BY TenantStep DEF TableInv
<1>5. /\ tenants' \subseteq TenantIDs
      /\ registry' \subseteq TenantIDs \X Entries
      /\ imp' \in [AdminRequests -> ImportStates]
  BY ImportTypes DEF TableInv
<1>6. ana' \in [Readers -> AnaStates] /\ \A a \in Readers : AnaKept(ana[a])'
  BY AnaTypes DEF TableInv
<1>7. GTypeOK'
  BY <1>1, <1>3, <1>5, <1>6 DEF GTypeOK, MInv, TableKept
<1> QED
  BY <1>1, <1>3, <1>4, <1>6, <1>7 DEF TableInv, TableKept

\* For every number of imports, writers, readers and keys.
THEOREM GraphInvariant == GSpec => []TableInv
<1>1. GInit => TableInv
  BY TableInit, ModelAssumption, GraphAssumption
<1>2. TableInv /\ [GNext]_gvars => TableInv'
  BY TableNext, ModelAssumption, GraphAssumption
<1> QED
  BY <1>1, <1>2, PTL DEF GSpec

\* Every variable of the graph tables, the imports and the analyses has its type.
THEOREM GraphTypes == GSpec => []GTypeOK
<1>1. TableInv => GTypeOK
  BY DEF TableInv
<1> QED
  BY <1>1, GraphInvariant, PTL

\* Whatever imports and requests race on a key of one of the four tables, its
\* rows are versions 1..n, each once.
THEOREM GraphDensity == GSpec => []RowHistoriesDense
<1>1. TableInv => RowHistoriesDense
  BY DEF TableInv
<1> QED
  BY <1>1, GraphInvariant, PTL

\* The row that DISTINCT ON (key) ... ORDER BY version DESC picks exists for
\* every key that was ever pinned to the model version.
LEMMA ContentIsPinned ==
  ASSUME TableInv, NEW p
  PROVE  Content(p) = Pinned(p)
<1>1. Content(p) \subseteq Pinned(p)
  BY DEF Content, Snapshot, Pinned
<1>2. ASSUME NEW x \in rows, x.pin = p PROVE x.key \in Content(p)
  <2> DEFINE k == x.key
             n == Latest(rows, k)
             S == {y.version : y \in {z \in rows : z.pin = p /\ z.key = k}}
  <2>1. k \in Keys /\ n \in Nat /\ Versions(rows, k) = 1 .. n
    BY DEF TableInv, GTypeOK, GraphRows, RowHistoriesDense, DenseKey
  <2>2. S \subseteq Versions(rows, k) /\ S # {}
    BY <1>2 DEF Versions
  <2>3. S \in SUBSET (0 .. n)
    BY <2>1, <2>2
  <2> HIDE DEF S, n
  <2>4. Max(S) \in S /\ \A v \in S : v <= Max(S)
    BY <2>1, <2>2, <2>3, MaxOfBounded
  <2>5. PICK y \in rows : y.pin = p /\ y.key = k /\ y.version = Max(S)
    BY <2>4 DEF S
  <2>6. \A z \in rows : z.pin = p /\ z.key = k => z.version <= y.version
    BY <2>4, <2>5 DEF S
  <2> QED
    BY <2>5, <2>6 DEF Content, Snapshot
<1>3. Pinned(p) \subseteq Content(p)
  BY <1>2 DEF Pinned
<1> QED
  BY <1>1, <1>3

\* A row is never removed or changed, so what was pinned stays pinned.
LEMMA PinnedGrows ==
  ASSUME [GNext]_gvars, NEW p
  PROVE  rows \subseteq rows' /\ Pinned(p) \subseteq Pinned(p)'
<1>1. rows \subseteq rows'
  BY RowsStep
<1> QED
  BY <1>1 DEF Pinned

\* A key never leaves the snapshot of a model version it was written to.
THEOREM GraphSnapshotsGrow == GSpec => SnapshotsGrow
<1> DEFINE A == \A p \in {x.pin : x \in rows} : Content(p) \subseteq Content(p)'
           B == \A p : Content(p) = Pinned(p)
<1>1. TableInv => B
  BY ContentIsPinned
<1>2. B /\ B' /\ [GNext]_gvars => A
  BY PinnedGrows
<1>3. A => [A]_gvars
  OBVIOUS
<1> QED
  BY <1>1, <1>2, <1>3, GraphInvariant, PTL DEF GSpec, SnapshotsGrow
----------------------------------------------------------------------------
(***************************************************************************)
(* Imports and exports.  What an import has done is spread over its own    *)
(* state, the request that creates its model version, its call of Put and  *)
(* three tables; ImportInv relates them for one import at a time:          *)
(* EntriesKept is about the registries, PinKept about the model version,   *)
(* ItemsKept about the rows.                                               *)
(***************************************************************************)

\* What of the bundle has been put or is being put.
Moved(i) == imp[i].bundle \ imp[i].left

EntriesKept(i) ==
  /\ imp[i].stage = "new" => imp[i].entries = Entries /\ imp[i].file = NoFile
  /\ imp[i].stage \in {"tenant", "create", "register"} => mreq[i].stage = "new"
  /\ imp[i].stage \in {"active", "done"} => imp[i].entries = {}
  /\ imp[i].file # NoFile => imp[i].file \in Readers /\ Exported(imp[i].file)
  /\ imp[i].stage \in {"tenant", "create"} => Listed(i) \subseteq imp[i].entries
  /\ imp[i].stage \in {"register", "active", "done"} =>
       \A x \in Listed(i) \ imp[i].entries : <<imp[i].tenant, x>> \in registry

PinKept(i) ==
  /\ imp[i].stage \in {"new", "tenant", "create", "register"} => imp[i].pin = NoPin
  /\ imp[i].pin = NoPin => put[i].stage = "new" /\ imp[i].left = imp[i].bundle
  /\ imp[i].pin # NoPin =>
       /\ mreq[i].stage = "ok" /\ imp[i].pin = <<mreq[i].key, mreq[i].next>>
       /\ put[i].stage \notin {"new", "resolve"} /\ put[i].pin = imp[i].pin
       /\ put[i].key \in Moved(i)
  /\ imp[i].left \subseteq imp[i].bundle /\ Moved(i) \cap imp[i].skip = {}
  /\ imp[i].stage = "done" => Due(i) = {} /\ put[i].stage \in {"new", "inserted"}

ItemsKept(i) ==
  /\ \A k \in Moved(i) : k = put[i].key \/ k \in PutBy(i)
  /\ \A x \in rows : x.blob = i => x.pin = imp[i].pin /\ x.key \in Moved(i)
  /\ ClosedGraph(imp[i].bundle) =>
       \A e \in Moved(i) \cap Edges : Ends(e) \subseteq PutBy(i)

\* The bundle of a file is what the export has read.
FileKept(i) ==
  imp[i].file # NoFile => imp[i].bundle = ana[imp[i].file].read \cap Keys

\* What an analysis has read, and what its model version had at the beginning, is
\* in the snapshot; it has all of the latter from each table whose rows.Err it has
\* looked at.
ReadKept(a) ==
  /\ ana[a].read \cap Keys \subseteq Pinned(ana[a].pin)
  /\ ana[a].base \subseteq Pinned(ana[a].pin)
  /\ \A t \in 1 .. ana[a].at :
       RowsErrChecked(ana[a].kind, ReadOrder(ana[a].kind)[t]) =>
         ana[a].base \cap ReadOrder(ana[a].kind)[t] \subseteq ana[a].read
  /\ ana[a].stage = "ok" => ana[a].kind \in Kinds /\ ana[a].at = Len(ReadOrder(ana[a].kind))

\* Two requests that have written wrote different versions.
Wrote(r) == mreq[r].stage \in {"inserted", "ok", "lost"}

WroteApart ==
  \A r, s \in AdminRequests :
    r # s /\ Wrote(r) /\ Wrote(s) =>
      <<mreq[r].key, mreq[r].next>> # <<mreq[s].key, mreq[s].next>>

ImportInv ==
  /\ TableInv
  /\ WroteApart
  /\ \A i \in AdminRequests : EntriesKept(i) /\ PinKept(i) /\ ItemsKept(i) /\ FileKept(i)
  /\ \A a \in Readers : ReadKept(a)

----------------------------------------------------------------------------
(* Which step changes what of one import.                                  *)

\* The state of an import changes by its own actions only.
LEMMA OtherImports ==
  ASSUME [GNext]_gvars, NEW i \in AdminRequests, imp \in [AdminRequests -> ImportStates]
  PROVE  \/ ImportStart(i) \/ ImportStep(i) \/ ImportCrash(i)
         \/ imp'[i] = imp[i]
<1>1. ASSUME NEW j \in AdminRequests \ {i}, ImportStart(j) \/ ImportCrash(j)
      PROVE  imp'[i] = imp[i]
  BY <1>1 DEF ImportStart, ImportCrash
<1>2. ASSUME NEW j \in AdminRequests \ {i}, ImportStep(j) PROVE imp'[i] = imp[i]
  BY <1>2 DEF ImportStep, ImportTenant, ImportCreateTenant, ImportRegister, ImportModel,
     ImportPut, ImportDone, ImportError
<1> QED
  BY <1>1, <1>2, ImportSteps

\* Its call of Put changes when it puts an item, or by the statements of that
\* call.
LEMMA OtherPuts ==
  ASSUME GraphAssumption, [GNext]_gvars, NEW i \in AdminRequests, put \in [Callers -> PutStates]
  PROVE  \/ ImportPut(i)
         \/ (PutStep(i) \/ PutAbandon(i)) /\ UNCHANGED imp
         \/ put'[i] = put[i]
<1>0. i \in Callers /\ i \notin Writers
  BY DEF Callers, GraphAssumption
<1>1. ASSUME NEW w \in Writers, Write(w) PROVE put'[i] = put[i]
  BY <1>0, <1>1 DEF Write
<1>2. ASSUME NEW c \in Callers \ {i}, PutStep(c) \/ PutAbandon(c) PROVE put'[i] = put[i]
  BY <1>0, <1>2 DEF PutStep, PutResolve, PutCheck, PutNext, PutInsert, PutAbandon
<1>3. ASSUME NEW j \in AdminRequests \ {i}, ImportPut(j) PROVE put'[i] = put[i]
  BY <1>0, <1>3 DEF ImportPut
<1>4. PutStep(i) \/ PutAbandon(i) => UNCHANGED imp
  BY DEF PutStep, PutResolve, PutCheck, PutNext, PutInsert, PutAbandon
<1> QED
  BY <1>1, <1>2, <1>3, <1>4, OtherSteps

\* A request that an import has not created yet is not started by anybody else,
\* and one that has been answered stays as it is.
LEMMA OtherRequests ==
  ASSUME [GNext]_gvars, NEW i \in AdminRequests, mreq \in [AdminRequests -> AdminStates]
  PROVE  \/ mreq'[i] = mreq[i]
         \/ imp[i].stage = "new" /\ UNCHANGED imp /\ mreq[i].stage = "new"
         \/ mreq[i].stage \notin {"new", "ok"}
         \/ ImportModel(i)
<1> DEFINE Goal == \/ mreq'[i] = mreq[i]
                   \/ imp[i].stage = "new" /\ UNCHANGED imp /\ mreq[i].stage = "new"
                   \/ mreq[i].stage \notin {"new", "ok"}
                   \/ ImportModel(i)
<1>1. ASSUME NEW r \in AdminRequests \ {i}, ModelRequest(r) PROVE mreq'[i] = mreq[i]
  BY <1>1 DEF ModelRequest, CreateModel, SetModelStatus, SetModelStatusNotFound, ModelStep,
     StartInsert, NextModelVersion, InsertModel, InsertModelRefused, RespondModel, AbandonModel
<1>2. ASSUME ModelStep(i) \/ AbandonModel(i) PROVE mreq[i].stage \notin {"new", "ok"}
  BY <1>2 DEF ModelStep, StartInsert, NextModelVersion, InsertModel, InsertModelRefused,
     RespondModel, AbandonModel
<1>3. HTTPModelRequest(i) => imp[i].stage = "new" /\ mreq[i].stage = "new"
  BY DEF HTTPModelRequest, CreateModel, SetModelStatus, SetModelStatusNotFound
<1>4. ASSUME ModelNext PROVE Goal
  <2>1. Tick => mreq'[i] = mreq[i]
    BY DEF Tick
  <2>2. \A r \in AdminRequests : HTTPModelRequest(r) => ModelRequest(r)
    BY DEF HTTPModelRequest, ModelRequest
  <2>3. \A r \in AdminRequests : ModelStep(r) \/ AbandonModel(r) => ModelRequest(r)
    BY DEF ModelRequest
  <2> QED
    BY <1>1, <1>2, <1>3, <1>4, <2>1, <2>2, <2>3 DEF ModelNext
<1>5. ASSUME NEW j \in AdminRequests \ {i}, ImportModel(j) PROVE mreq'[i] = mreq[i]
  BY <1>1, <1>5, ZenonT(60) DEF ImportModel, ModelRequest
<1>6. ASSUME NEW j \in AdminRequests, ImportStart(j) \/ ImportStep(j) \/ ImportCrash(j),
             ~ ImportModel(j)
      PROVE  UNCHANGED mreq
  BY <1>6 DEF ImportStart, ImportStep, ImportCrash, ImportTenant, ImportCreateTenant,
     ImportRegister, ImportPut, ImportDone, ImportError
<1>7. ASSUME NEW w \in Writers, Write(w) PROVE UNCHANGED mreq
  BY <1>7 DEF Write
<1>8. ASSUME NEW c \in Callers, PutStep(c) \/ PutAbandon(c) PROVE UNCHANGED mreq
  BY <1>8 DEF PutStep, PutResolve, PutCheck, PutNext, PutInsert, PutAbandon
<1>9. ASSUME NEW a \in Readers, Analyse(a) \/ AnaRead(a) \/ AnaReadCut(a) \/ AnaAnswer(a)
      PROVE  UNCHANGED mreq
  BY <1>9 DEF Analyse, AnaRead, AnaReadCut, AnaAnswer
<1>10. UNCHANGED gvars => UNCHANGED mreq
  BY DEF gvars
<1> QED
  BY <1>4, <1>5, <1>6, <1>7, <1>8, <1>9, <1>10 DEF GNext

\* What an export has read does not change after it.
LEMMA ExportedStays ==
  ASSUME [GNext]_gvars, NEW a \in Readers, Exported(a), ana \in [Readers -> AnaStates]
  PROVE  ana'[a] = ana[a] /\ Exported(a)'
<1>1. ASSUME NEW b \in Readers, Analyse(b) \/ AnaRead(b) \/ AnaReadCut(b) \/ AnaAnswer(b)
      PROVE  ana'[a] = ana[a]
  BY <1>1, ZenonT(60) DEF Exported, Analyse, AnaRead, AnaReadCut, AnaAnswer, Reading
<1>2. ana'[a] = ana[a]
  BY <1>1, AnaSteps
<1> QED
  BY <1>2 DEF Exported

\* Nothing is ever removed from types and statuses.
LEMMA RegistryGrows == ASSUME [GNext]_gvars PROVE registry \subseteq registry'
<1>1. ASSUME NEW i \in AdminRequests, ImportStart(i) \/ ImportStep(i) \/ ImportCrash(i)
      PROVE  registry \subseteq registry'
  BY <1>1 DEF ImportStep, ImportStart, ImportTenant, ImportCreateTenant, ImportRegister,
     ImportModel, ImportPut, ImportDone, ImportError, ImportCrash, reg
<1> QED
  BY <1>1, ImportSteps

----------------------------------------------------------------------------
(* The parts of the invariant, step by step.                               *)

\* A primary key that lets two INSERTs through does so for different versions.
LEMMA ApartStep ==
  ASSUME ModelAssumption, MInv, WroteApart, [MNext]_mvars
  PROVE  WroteApart'
<1>0. ASSUME NEW r \in AdminRequests, Wrote(r)
      PROVE  HasModel(mreq[r].key, mreq[r].next)
  BY <1>0 DEF MInv, PendingModel, Wrote
<1>1. CASE UNCHANGED mreq
  BY <1>1 DEF WroteApart, Wrote
<1>2. ASSUME NEW r \in AdminRequests, InsertModel(r) PROVE WroteApart'
  <2>1. PICK k \in ModelKeys(mreq[r]) :
          /\ ~ HasModel(k, mreq[r].next)
          /\ mreq' = [mreq EXCEPT ![r].stage = "inserted", ![r].key = k]
    BY <1>2 DEF InsertModel, ModelVersionFree
  <2>2. mreq \in [AdminRequests -> AdminStates] /\ mreq[r] \in AdminStates
    BY DEF MInv, MTypeOK
  <2>3. mreq'[r].key = k /\ mreq'[r].next = mreq[r].next
    BY <2>1, <2>2 DEF AdminStates
  <2>4. \A t \in AdminRequests \ {r} : mreq'[t] = mreq[t]
    BY <2>1, <2>2
  <2>5. ASSUME NEW t \in AdminRequests \ {r}, Wrote(t)
        PROVE  <<mreq[t].key, mreq[t].next>> # <<k, mreq[r].next>>
    BY <1>0, <2>1, <2>5
  <2> QED
    BY <2>3, <2>4, <2>5 DEF WroteApart, Wrote
<1>3. ASSUME NEW r \in AdminRequests, ModelRequest(r), ~ InsertModel(r) PROVE WroteApart'
  <2>1. mreq \in [AdminRequests -> AdminStates] /\ mreq[r] \in AdminStates
    BY DEF MInv, MTypeOK
  <2>2. /\ \A t \in AdminRequests \ {r} : mreq'[t] = mreq[t]
        /\ Wrote(r)' => Wrote(r) /\ mreq'[r].key = mreq[r].key /\ mreq'[r].next = mreq[r].next
    <3>1. CASE CreateModel(r) \/ SetModelStatus(r)
      <4>1. PICK k, st : mreq' = [mreq EXCEPT ![r].stage = "create", ![r].key = k, ![r].status = st]
        BY <3>1 DEF CreateModel, SetModelStatus
      <4> QED
        BY <2>1, <4>1 DEF Wrote, AdminStates
    <3>2. CASE SetModelStatusNotFound(r) \/ InsertModelRefused(r)
      BY <2>1, <3>2 DEF SetModelStatusNotFound, InsertModelRefused, Wrote, AdminStates
    <3>3. CASE StartInsert(r) \/ NextModelVersion(r)
      BY <2>1, <3>3 DEF StartInsert, NextModelVersion, Wrote, AdminStates
    <3>4. CASE RespondModel(r) \/ AbandonModel(r)
      BY <2>1, <3>4 DEF RespondModel, AbandonModel, Wrote, AdminStates
    <3> QED
      BY <1>3, <3>1, <3>2, <3>3, <3>4 DEF ModelRequest, ModelStep
  <2> QED
    BY <2>2 DEF WroteApart, Wrote
<1>4. Tick => UNCHANGED mreq
  BY DEF Tick
<1>5. UNCHANGED mvars => UNCHANGED mreq
  BY DEF mvars
<1> QED
  BY <1>1, <1>2, <1>3, <1>4, <1>5 DEF MNext

\* Every step keeps what an import knows of the registries.
LEMMA EntriesStep ==
  ASSUME GraphAssumption, TableInv, [GNext]_gvars, NEW i \in AdminRequests, EntriesKept(i)
  PROVE  EntriesKept(i)'
<1> DEFINE m == imp[i]
<1>t. /\ imp \in [AdminRequests -> ImportStates] /\ m \in ImportStates
      /\ ana \in [Readers -> AnaStates]
      /\ mreq \in [AdminRequests -> AdminStates]
  BY DEF TableInv, GTypeOK, MTypeOK
<1>f. m.file # NoFile => /\ m.file \in Readers /\ ana'[m.file] = ana[m.file]
                         /\ ana[m.file].stage = "ok"
                         /\ ana[m.file].kind \in {"export", "fullexport"}
  BY <1>t, ExportedStays DEF EntriesKept, Exported
<1>r. registry \subseteq registry'
  BY RegistryGrows
<1>q. \/ mreq'[i] = mreq[i]
      \/ m.stage = "new" /\ UNCHANGED imp
      \/ mreq[i].stage \notin {"new", "ok"}
      \/ ImportModel(i)
  BY <1>t, OtherRequests
<1>1. CASE imp'[i] = m
  <2>1. Listed(i)' = Listed(i)
    BY <1>1, <1>f DEF Listed
  <2>2. m.stage \in {"tenant", "create", "register"} => mreq'[i].stage = "new"
    <3>1. ~ ImportModel(i) \/ m.stage = "active"
      BY <1>1, <1>t DEF ImportModel, ImportStates
    <3> QED
      BY <1>q, <3>1 DEF EntriesKept, Exported
  <2> QED
    BY <1>1, <1>f, <1>r, <2>1, <2>2 DEF EntriesKept, Exported
<1>2. CASE ImportStart(i)
  <2>0. m.stage = "new" /\ m.file = NoFile /\ m.entries = Entries /\ mreq'[i].stage = "new"
    BY <1>2 DEF ImportStart, EntriesKept
  <2>1. CASE /\ imp'[i].stage = "tenant" /\ imp'[i].file = NoFile /\ imp'[i].entries = Entries
    <3>1. Listed(i)' = Entries
      BY <2>1 DEF Listed
    <3> QED
      BY <2>0, <2>1, <3>1 DEF EntriesKept, Exported
  <2>2. ASSUME NEW a \in Readers, Exported(a), imp'[i].stage = "tenant",
               imp'[i].file = a, imp'[i].entries = ana[a].read \cap Entries
        PROVE  EntriesKept(i)'
    <3>1. ana'[a] = ana[a] /\ Exported(a)' /\ a # NoFile
      BY <1>t, <2>2, ExportedStays DEF GraphAssumption
    <3>2. Listed(i)' = imp'[i].entries
      BY <2>2, <3>1 DEF Listed
    <3> QED
      BY <2>0, <2>2, <3>1, <3>2 DEF EntriesKept, Exported
  <2>3. ASSUME NEW s, NEW b,
               imp' = [imp EXCEPT ![i].stage = "tenant", ![i].skip = s,
                                  ![i].bundle = b, ![i].left = b]
        PROVE  EntriesKept(i)'
    <3>1. imp'[i].stage = "tenant" /\ imp'[i].file = NoFile /\ imp'[i].entries = Entries
      BY <1>t, <2>0, <2>3 DEF ImportStates
    <3> QED
      BY <2>1, <3>1
  <2>4. ASSUME NEW s, NEW a \in Readers, Exported(a),
               imp' = [imp EXCEPT ![i].stage = "tenant", ![i].skip = s, ![i].file = a,
                                ![i].entries = ana[a].read \cap Entries,
                                ![i].bundle = ana[a].read \cap Keys,
                                ![i].left = ana[a].read \cap Keys]
        PROVE  EntriesKept(i)'
    <3> DEFINE en == ana[a].read \cap Entries
               ks == ana[a].read \cap Keys
    <3>1. imp' = [imp EXCEPT ![i].stage = "tenant", ![i].skip = s, ![i].file = a, ![i].entries = en,
                           ![i].bundle = ks, ![i].left = ks]
      BY <2>4
    <3> HIDE DEF en, ks
    <3>2. imp'[i].stage = "tenant" /\ imp'[i].file = a /\ imp'[i].entries = en
      BY <1>t, <3>1 DEF ImportStates
    <3> QED
      BY <2>2, <2>4, <3>2 DEF en
  <2> QED
    BY <1>2, <2>3, <2>4 DEF ImportStart
<1>3. ASSUME ImportTenant(i) \/ ImportCreateTenant(i) \/ ImportRegister(i)
      PROVE  EntriesKept(i)'
  <2>1. /\ imp'[i].file = m.file /\ mreq'[i] = mreq[i]
        /\ m.stage \in {"tenant", "create", "register"}
    BY <1>3, <1>t DEF ImportTenant, ImportCreateTenant, ImportRegister, ImportStates
  <2>2. Listed(i)' = Listed(i)
    BY <1>f, <2>1 DEF Listed
  <2>3. CASE ImportTenant(i) \/ ImportCreateTenant(i)
    <3>1. /\ imp'[i].stage \in {"create", "register"} /\ imp'[i].entries = m.entries
          /\ m.stage \in {"tenant", "create"}
      BY <1>t, <2>3 DEF ImportTenant, ImportCreateTenant, ImportStates
    <3> QED
      BY <1>f, <2>1, <2>2, <3>1 DEF EntriesKept, Exported
  <2>4. CASE ImportRegister(i)
    <3>1. m.stage = "register" /\ imp'[i].stage = "register" /\ imp'[i].tenant = m.tenant
      BY <1>t, <2>4 DEF ImportRegister, ImportStates
    <3>2. PICK x : /\ registry' = registry \cup {<<m.tenant, x>>}
                   /\ imp' = [imp EXCEPT ![i].entries = @ \ {x}]
      BY <2>4 DEF ImportRegister
    <3>3. imp'[i].entries = m.entries \ {x}
      BY <1>t, <3>2 DEF ImportStates
    <3>4. \A y \in Listed(i) \ (m.entries \ {x}) : <<m.tenant, y>> \in registry'
      BY <3>1, <3>2 DEF EntriesKept, Exported
    <3> QED
      BY <1>f, <2>1, <2>2, <3>1, <3>3, <3>4 DEF EntriesKept, Exported
  <2> QED
    BY <1>3, <2>3, <2>4
<1>4. ASSUME \/ ImportModel(i) \/ ImportPut(i) \/ ImportDone(i) \/ ImportError(i)
             \/ ImportCrash(i)
      PROVE  EntriesKept(i)'
  <2>1. /\ imp'[i].file = m.file /\ imp'[i].tenant = m.tenant /\ imp'[i].entries = m.entries
        /\ imp'[i].stage \in {"active", "done"} =>
             m.stage \in {"active", "register"} /\ m.entries = {}
        /\ imp'[i].stage \in {"active", "done", "stopped"}
    <3>1. CASE ImportPut(i)
      BY <1>t, <3>1 DEF ImportPut, ImportReady, ImportStates, EntriesKept
    <3>2. CASE ~ ImportPut(i)
      BY <1>4, <1>t, <3>2 DEF ImportModel, ImportDone, ImportReady, ImportError, ImportCrash,
         ImportStates, EntriesKept
    <3> QED
      BY <3>1, <3>2
  <2>2. Listed(i)' = Listed(i)
    BY <1>f, <2>1 DEF Listed
  <2> QED
    BY <1>f, <1>r, <2>1, <2>2 DEF EntriesKept, Exported
<1> QED
  BY <1>t, <1>1, <1>2, <1>3, <1>4, OtherImports DEF ImportStep

\* What a step of the call of Put does to it.
LEMMA PutSameCall ==
  ASSUME NEW c \in Callers, PutStep(c) \/ PutAbandon(c), put \in [Callers -> PutStates],
         put[c].stage # "resolve"
  PROVE  /\ put[c].stage # "new"
         /\ put'[c].stage \notin {"new", "resolve"}
         /\ put'[c].key = put[c].key /\ put'[c].pin = put[c].pin
         /\ put[c].stage = "inserted" /\ c \in AdminRequests => imp[c].stage = "active"
<1>0. put[c] \in PutStates
  OBVIOUS
<1>1. CASE PutCheck(c) \/ PutNext(c) \/ PutInsert(c)
  BY <1>0, <1>1 DEF PutCheck, PutNext, PutInsert, PutStates
<1>2. CASE PutAbandon(c)
  BY <1>0, <1>2 DEF PutAbandon, PutStates
<1> QED
  BY <1>1, <1>2 DEF PutStep, PutResolve

\* The nodes of a bundle are put before its edges, what is to be skipped never.
LEMMA NodesFirst ==
  ASSUME GraphAssumption, NEW i \in AdminRequests, imp[i] \in ImportStates,
         Due(i) # {}, NEW k \in NextItems(i)
  PROVE  /\ k \in imp[i].left \ imp[i].skip
         /\ k \in Edges => imp[i].left \cap Nodes = {}
<1> DEFINE l == Due(i)
           P(t) == /\ l \cap Tables[t] # {}
                   /\ \A u \in 1 .. (t - 1) : l \cap Tables[u] = {}
           first == CHOOSE t \in 1 .. 4 : P(t)
<1>0. l \subseteq Keys
  BY DEF Due, ImportStates
<1>1. /\ Tables[1] = Nodes /\ Tables[2] = Edges /\ Tables[3] = Properties
      /\ Tables[4] = ContractKeys
  BY DEF Tables
<1>2. \E t \in 1 .. 4 : P(t)
  <2>1. \E t \in 1 .. 4 : l \cap Tables[t] # {}
    <3>1. 1 \in 1 .. 4 /\ 2 \in 1 .. 4 /\ 3 \in 1 .. 4 /\ 4 \in 1 .. 4
      OBVIOUS
    <3> QED
      BY <1>0, <1>1, <3>1 DEF Keys
  <2>2. CASE l \cap Tables[1] # {}
    <3>1. P(1)
      BY <2>2
    <3> QED
      BY <3>1
  <2>3. CASE l \cap Tables[1] = {} /\ l \cap Tables[2] # {}
    <3>1. P(2)
      BY <2>3
    <3> QED
      BY <3>1
  <2>4. CASE l \cap Tables[1] = {} /\ l \cap Tables[2] = {} /\ l \cap Tables[3] # {}
    <3>1. P(3)
      BY <2>4
    <3> QED
      BY <3>1
  <2>5. CASE l \cap Tables[1] = {} /\ l \cap Tables[2] = {} /\ l \cap Tables[3] = {}
    <3>1. P(4)
      BY <2>1, <2>5
    <3> QED
      BY <3>1
  <2> QED
    BY <2>2, <2>3, <2>4, <2>5
<1>3. first \in 1 .. 4 /\ P(first)
  BY <1>2
<1>4. NextItems(i) = l \cap Tables[first]
  BY DEF NextItems
<1> HIDE DEF first, P
<1>5. k \in l /\ k \in Tables[first]
  BY <1>4
<1>6. k \in Edges => first = 2
  BY <1>1, <1>3, <1>5 DEF GraphAssumption
<1>7. first = 2 => l \cap Nodes = {}
  BY <1>1, <1>3 DEF P
<1>8. imp[i].skip \cap Nodes = {}
  BY <1>1 DEF ImportStates, GraphAssumption
<1> QED
  BY <1>5, <1>6, <1>7, <1>8 DEF Due

\* Every step keeps what an import knows of its model version.
LEMMA PinStep ==
  ASSUME GraphAssumption, TableInv, [GNext]_gvars, NEW i \in AdminRequests, PinKept(i)
  PROVE  PinKept(i)'
<1> DEFINE m == imp[i]
<1>t. /\ imp \in [AdminRequests -> ImportStates] /\ m \in ImportStates
      /\ put \in [Callers -> PutStates] /\ i \in Callers
      /\ mreq \in [AdminRequests -> AdminStates]
  BY DEF TableInv, GTypeOK, MTypeOK, Callers
<1>q. m.pin # NoPin => mreq'[i] = mreq[i]
  <2>1. ~ ImportModel(i) \/ m.pin = NoPin
    BY DEF PinKept, ImportModel
  <2> QED
    BY <1>t, <2>1, OtherRequests DEF PinKept
<1>1. CASE imp'[i] = m /\ put'[i] = put[i]
  BY <1>1, <1>q DEF PinKept, Moved, Due
<1>2. CASE imp'[i] = m /\ (PutStep(i) \/ PutAbandon(i))
  <2>1. put[i].stage # "resolve"
    BY DEF PinKept
  <2>2. /\ put[i].stage # "new" /\ put'[i].stage \notin {"new", "resolve"}
        /\ put'[i].key = put[i].key /\ put'[i].pin = put[i].pin
        /\ put[i].stage = "inserted" => m.stage = "active"
    BY <1>2, <1>t, <2>1, PutSameCall
  <2> QED
    BY <1>2, <1>q, <2>2 DEF PinKept, Moved, Due
<1>3. CASE ImportStart(i)
  <2>1. /\ imp'[i].stage = "tenant" /\ imp'[i].pin = m.pin
        /\ imp'[i].left = imp'[i].bundle
    <3>1. ASSUME NEW f, NEW s, NEW en, NEW b,
                 imp' = [imp EXCEPT ![i].stage = "tenant", ![i].skip = s, ![i].file = f,
                              ![i].entries = en, ![i].bundle = b, ![i].left = b]
          PROVE  /\ imp'[i].stage = "tenant" /\ imp'[i].pin = m.pin
                 /\ imp'[i].left = imp'[i].bundle
      BY <1>t, <3>1 DEF ImportStates
    <3>2. ASSUME NEW s, NEW b,
                 imp' = [imp EXCEPT ![i].stage = "tenant", ![i].skip = s,
                                    ![i].bundle = b, ![i].left = b]
          PROVE  /\ imp'[i].stage = "tenant" /\ imp'[i].pin = m.pin
                 /\ imp'[i].left = imp'[i].bundle
      BY <1>t, <3>2 DEF ImportStates
    <3>3. ASSUME NEW s, NEW a \in Readers,
                 imp' = [imp EXCEPT ![i].stage = "tenant", ![i].skip = s, ![i].file = a,
                                ![i].entries = ana[a].read \cap Entries,
                                ![i].bundle = ana[a].read \cap Keys,
                                ![i].left = ana[a].read \cap Keys]
          PROVE  /\ imp'[i].stage = "tenant" /\ imp'[i].pin = m.pin
                 /\ imp'[i].left = imp'[i].bundle
      <4> DEFINE en == ana[a].read \cap Entries
                 b == ana[a].read \cap Keys
      <4>1. imp' = [imp EXCEPT ![i].stage = "tenant", ![i].skip = s, ![i].file = a,
                              ![i].entries = en, ![i].bundle = b, ![i].left = b]
        BY <3>3
      <4> HIDE DEF en, b
      <4> QED
        BY <3>1, <4>1
    <3> QED
      BY <1>3, <3>2, <3>3 DEF ImportStart
  <2>2. m.stage = "new" /\ put'[i] = put[i]
    BY <1>3 DEF ImportStart
  <2> QED
    BY <2>1, <2>2, ZenonT(60) DEF PinKept, Moved
<1>4. CASE ImportTenant(i) \/ ImportCreateTenant(i) \/ ImportRegister(i) \/ ImportModel(i)
  <2>1. /\ imp'[i].stage \in {"create", "register", "active"} /\ put'[i] = put[i]
        /\ imp'[i].pin = m.pin /\ imp'[i].left = m.left /\ imp'[i].bundle = m.bundle
        /\ imp'[i].skip = m.skip
        /\ m.stage \in {"tenant", "create", "register"}
    <3>1. CASE ImportRegister(i)
      <4>1. PICK x : imp' = [imp EXCEPT ![i].entries = @ \ {x}]
        BY <3>1 DEF ImportRegister
      <4> QED
        BY <1>t, <3>1, <4>1 DEF ImportRegister, ImportStates
    <3>2. CASE ~ ImportRegister(i)
      BY <1>4, <1>t, <3>2 DEF ImportTenant, ImportCreateTenant, ImportModel, ImportStates
    <3> QED
      BY <3>1, <3>2
  <2> QED
    BY <2>1 DEF PinKept, Moved
<1>5. CASE ImportDone(i) \/ ImportError(i) \/ ImportCrash(i)
  <2>1. /\ imp'[i].stage \in {"done", "stopped"} /\ put'[i] = put[i]
        /\ imp'[i].pin = m.pin /\ imp'[i].left = m.left /\ imp'[i].bundle = m.bundle
        /\ imp'[i].skip = m.skip
        /\ imp'[i].stage = "done" => Due(i) = {} /\ put[i].stage \in {"new", "inserted"}
    BY <1>5, <1>t DEF ImportDone, ImportReady, ImportError, ImportCrash, ImportStates
  <2> QED
    BY <1>q, <2>1 DEF PinKept, Moved, Due
<1>6. CASE ImportPut(i)
  <2> DEFINE pin == <<mreq[i].key, mreq[i].next>>
  <2>0. mreq[i].stage = "ok" /\ mreq' = mreq /\ m.stage = "active" /\ Due(i) # {}
    BY <1>6 DEF ImportPut, ImportReady
  <2>1. pin \in Pins /\ pin # NoPin
    BY <2>0, ImportPinTyped DEF TableInv
  <2>2. PICK k \in NextItems(i) :
          /\ put' = [put EXCEPT ![i] = Call(k, pin, NoVersion)]
          /\ imp' = [imp EXCEPT ![i].left = @ \ {k}, ![i].pin = pin]
    BY <1>6 DEF ImportPut, ImportPin
  <2>3. k \in m.left \ m.skip
    BY <1>t, <2>0, NodesFirst
  <2>q. pin = <<mreq'[i].key, mreq'[i].next>> /\ mreq'[i].stage = "ok"
    BY <2>0
  <2> HIDE DEF pin
  <2>4. /\ imp'[i].stage = "active" /\ imp'[i].pin = pin /\ imp'[i].left = m.left \ {k}
        /\ imp'[i].bundle = m.bundle /\ imp'[i].skip = m.skip
    BY <1>t, <2>0, <2>2 DEF ImportStates
  <2>5. put'[i].stage = "check" /\ put'[i].pin = pin /\ put'[i].key = k
    BY <1>t, <2>1, <2>2 DEF Call
  <2> QED
    BY <2>1, <2>3, <2>4, <2>5, <2>q DEF PinKept, Moved
<1>7. ImportStart(i) \/ ImportStep(i) \/ ImportCrash(i) \/ imp'[i] = m
  BY <1>t, OtherImports
<1>8. \/ ImportPut(i)
      \/ (PutStep(i) \/ PutAbandon(i)) /\ UNCHANGED imp
      \/ put'[i] = put[i]
  BY <1>t, OtherPuts
<1> QED
  BY <1>1, <1>2, <1>3, <1>4, <1>5, <1>6, <1>7, <1>8 DEF ImportStep

\* When the import is about to put the next item, all before it are in the tables.
LEMMA ReadyItems ==
  ASSUME TableInv, NEW i \in AdminRequests, PinKept(i), ItemsKept(i),
         put[i].stage \in {"new", "inserted"}
  PROVE  Moved(i) \subseteq PutBy(i)
<1>1. CASE put[i].stage = "new"
  BY <1>1 DEF PinKept, Moved
<1>2. CASE put[i].stage = "inserted"
  <2>1. PutKept(i, put[i])
    BY DEF TableInv, Callers
  <2>2. put[i].key \in PutBy(i)
    <3> DEFINE x == [key |-> put[i].key, version |-> put[i].next, pin |-> put[i].pin,
                     blob |-> i]
    <3>1. x \in rows /\ x.key = put[i].key /\ x.blob = i
      BY <1>2, <2>1 DEF PutKept
    <3> QED
      BY <3>1 DEF PutBy
  <2> QED
    BY <2>2 DEF ItemsKept
<1> QED
  BY <1>1, <1>2

\* Which rows a step adds to those that i has put.
LEMMA RowsOfImport ==
  ASSUME [GNext]_gvars, NEW i \in AdminRequests, PinKept(i), put \in [Callers -> PutStates]
  PROVE  /\ rows \subseteq rows' /\ PutBy(i) \subseteq PutBy(i)'
         /\ \A x \in rows' : x.blob = i =>
              \/ x \in rows
              \/ x.pin = imp[i].pin /\ x.key \in Moved(i)
<1>1. CASE UNCHANGED rows
  BY <1>1 DEF PutBy
<1>2. ASSUME NEW c \in Callers, put[c].stage = "insert",
             rows' = rows \cup {[key |-> put[c].key, version |-> put[c].next,
                                 pin |-> put[c].pin, blob |-> c]}
      PROVE  /\ rows \subseteq rows' /\ PutBy(i) \subseteq PutBy(i)'
             /\ \A x \in rows' : x.blob = i =>
                  \/ x \in rows
                  \/ x.pin = imp[i].pin /\ x.key \in Moved(i)
  <2>1. c = i => put[c].pin = imp[i].pin /\ put[c].key \in Moved(i)
    BY <1>2 DEF PinKept
  <2> QED
    BY <1>2, <2>1 DEF PutBy
<1> QED
  BY <1>1, <1>2, RowsStep

\* Every step keeps what an import knows of its rows.
LEMMA ItemsStep ==
  ASSUME GraphAssumption, TableInv, [GNext]_gvars, NEW i \in AdminRequests,
         PinKept(i), ItemsKept(i)
  PROVE  ItemsKept(i)'
<1> DEFINE m == imp[i]
<1>t. /\ imp \in [AdminRequests -> ImportStates] /\ m \in ImportStates
      /\ put \in [Callers -> PutStates] /\ i \in Callers
  BY DEF TableInv, GTypeOK, Callers
<1>r. /\ rows \subseteq rows' /\ PutBy(i) \subseteq PutBy(i)'
      /\ \A x \in rows' : x.blob = i =>
           \/ x \in rows
           \/ x.pin = m.pin /\ x.key \in Moved(i)
  BY <1>t, RowsOfImport
<1>1. ASSUME imp'[i].left = m.left, imp'[i].bundle = m.bundle, imp'[i].pin = m.pin,
             put'[i].key = put[i].key \/ Moved(i) = {}
      PROVE  ItemsKept(i)'
  BY <1>r, <1>1 DEF ItemsKept, Moved, ClosedGraph
<1>2. CASE PutStep(i) \/ PutAbandon(i)
  <2>1. put[i].stage # "resolve"
    BY DEF PinKept
  <2>2. put'[i].key = put[i].key
    BY <1>2, <1>t, <2>1, PutSameCall
  <2>3. UNCHANGED imp
    BY <1>2 DEF PutStep, PutResolve, PutCheck, PutNext, PutInsert, PutAbandon
  <2> QED
    BY <1>1, <2>2, <2>3
<1>3. CASE ImportStart(i)
  <2>1. imp'[i].left = imp'[i].bundle
    <3>1. ASSUME NEW f, NEW s, NEW en, NEW b,
                 imp' = [imp EXCEPT ![i].stage = "tenant", ![i].skip = s, ![i].file = f,
                              ![i].entries = en, ![i].bundle = b, ![i].left = b]
          PROVE  imp'[i].left = imp'[i].bundle
      BY <1>t, <3>1 DEF ImportStates
    <3>2. ASSUME NEW s, NEW b,
                 imp' = [imp EXCEPT ![i].stage = "tenant", ![i].skip = s,
                                    ![i].bundle = b, ![i].left = b]
          PROVE  imp'[i].left = imp'[i].bundle
      BY <1>t, <3>2 DEF ImportStates
    <3>3. ASSUME NEW s, NEW a \in Readers,
                 imp' = [imp EXCEPT ![i].stage = "tenant", ![i].skip = s, ![i].file = a,
                                ![i].entries = ana[a].read \cap Entries,
                                ![i].bundle = ana[a].read \cap Keys,
                                ![i].left = ana[a].read \cap Keys]
          PROVE  imp'[i].left = imp'[i].bundle
      <4> DEFINE en == ana[a].read \cap Entries
                 b == ana[a].read \cap Keys
      <4>1. imp' = [imp EXCEPT ![i].stage = "tenant", ![i].skip = s, ![i].file = a,
                              ![i].entries = en, ![i].bundle = b, ![i].left = b]
        BY <3>3
      <4> HIDE DEF en, b
      <4> QED
        BY <3>1, <4>1
    <3> QED
      BY <1>3, <3>2, <3>3 DEF ImportStart
  <2>2. m.pin = NoPin /\ Moved(i) = {} /\ rows' = rows
    BY <1>3 DEF ImportStart, PinKept, Moved
  <2>3. \A x \in rows' : x.blob # i
    BY <2>2 DEF ItemsKept
  <2> QED
    BY <2>1, <2>3, ZenonT(60) DEF ItemsKept, Moved
<1>4. CASE \/ ImportTenant(i) \/ ImportCreateTenant(i) \/ ImportModel(i) \/ ImportDone(i)
           \/ ImportError(i) \/ ImportCrash(i)
  <2>1. /\ imp'[i].left = m.left /\ imp'[i].bundle = m.bundle /\ imp'[i].pin = m.pin
        /\ put'[i] = put[i]
    BY <1>4, <1>t DEF ImportTenant, ImportCreateTenant, ImportModel, ImportDone, ImportError,
       ImportCrash, ImportStates
  <2> QED
    BY <1>1, <2>1
<1>5. CASE ImportRegister(i)
  <2>1. PICK x : imp' = [imp EXCEPT ![i].entries = @ \ {x}]
    BY <1>5 DEF ImportRegister
  <2>2. put'[i] = put[i]
    BY <1>5 DEF ImportRegister
  <2>3. imp'[i].left = m.left /\ imp'[i].bundle = m.bundle /\ imp'[i].pin = m.pin
    BY <1>t, <2>1 DEF ImportStates
  <2> QED
    BY <1>1, <2>2, <2>3
<1>6. CASE ImportPut(i)
  <2> DEFINE pin == <<mreq[i].key, mreq[i].next>>
  <2>0. /\ mreq[i].stage = "ok" /\ put[i].stage \in {"new", "inserted"} /\ Due(i) # {}
        /\ rows' = rows
    BY <1>6 DEF ImportPut, ImportReady
  <2>1. PICK k \in NextItems(i) :
          /\ put' = [put EXCEPT ![i] = Call(k, pin, NoVersion)]
          /\ imp' = [imp EXCEPT ![i].left = @ \ {k}, ![i].pin = pin]
    BY <1>6 DEF ImportPut, ImportPin
  <2>2. k \in m.left /\ (k \in Edges => m.left \cap Nodes = {})
    BY <1>t, <2>0, NodesFirst
  <2>3. Moved(i) \subseteq PutBy(i)
    BY <2>0, ReadyItems
  <2>4. m.pin # NoPin => m.pin = pin
    BY DEF PinKept
  <2>5. m.pin = NoPin => Moved(i) = {}
    BY DEF PinKept, Moved
  <2> HIDE DEF pin
  <2>6. imp'[i].pin = pin /\ imp'[i].left = m.left \ {k} /\ imp'[i].bundle = m.bundle
    BY <1>t, <2>1 DEF ImportStates
  <2>7. put'[i].key = k
    BY <1>t, <2>1 DEF Call
  <2>8. Moved(i)' \subseteq Moved(i) \cup {k} /\ Moved(i) \subseteq Moved(i)'
    BY <2>6 DEF Moved
  <2>9. \A e \in Moved(i)' : e = put'[i].key \/ e \in PutBy(i)'
    BY <1>r, <2>3, <2>7, <2>8
  <2>10. \A x \in rows' : x.blob = i => x.pin = imp'[i].pin /\ x.key \in Moved(i)'
    BY <2>0, <2>4, <2>5, <2>6, <2>8 DEF ItemsKept
  <2>11. ASSUME ClosedGraph(m.bundle), NEW e \in Moved(i)' \cap Edges
         PROVE  Ends(e) \subseteq PutBy(i)'
    <3>1. CASE e \in Moved(i)
      BY <1>r, <2>11, <3>1 DEF ItemsKept
    <3>2. CASE e = k
      <4>1. Ends(e) \subseteq Nodes
        BY <2>11 DEF Ends, GraphAssumption
      <4>2. e \in m.bundle
        BY <2>6, <2>11 DEF Moved
      <4>3. Ends(e) \subseteq m.bundle
        BY <2>11, <4>2 DEF ClosedGraph
      <4>4. Ends(e) \subseteq Moved(i)
        BY <2>2, <2>11, <3>2, <4>1, <4>3 DEF Moved
      <4> QED
        BY <1>r, <2>3, <4>4
    <3> QED
      BY <2>8, <2>11, <3>1, <3>2
  <2>12. ClosedGraph(imp'[i].bundle) = ClosedGraph(m.bundle)
    BY <2>6
  <2> QED
    BY <2>9, <2>10, <2>11, <2>12 DEF ItemsKept, ClosedGraph
<1>7. CASE imp'[i] = m /\ put'[i] = put[i]
  BY <1>1, <1>7
<1>8. ImportStart(i) \/ ImportStep(i) \/ ImportCrash(i) \/ imp'[i] = m
  BY <1>t, OtherImports
<1>9. \/ ImportPut(i) \/ PutStep(i) \/ PutAbandon(i) \/ put'[i] = put[i]
  BY <1>t, OtherPuts
<1> QED
  BY <1>2, <1>3, <1>4, <1>5, <1>6, <1>7, <1>8, <1>9 DEF ImportStep

\* A file does not change once the export has answered.
LEMMA FileStep ==
  ASSUME GraphAssumption, TableInv, [GNext]_gvars, NEW i \in AdminRequests,
         EntriesKept(i), FileKept(i)
  PROVE  FileKept(i)'
<1> DEFINE m == imp[i]
<1>t. /\ imp \in [AdminRequests -> ImportStates] /\ m \in ImportStates
      /\ ana \in [Readers -> AnaStates]
  BY DEF TableInv, GTypeOK
<1>1. ASSUME imp'[i].file = m.file, imp'[i].bundle = m.bundle PROVE FileKept(i)'
  <2>1. m.file # NoFile => ana'[m.file] = ana[m.file]
    BY <1>t, ExportedStays, ZenonT(60) DEF EntriesKept
  <2> QED
    BY <1>1, <2>1 DEF FileKept
<1>2. CASE ImportStart(i)
  <2>0. m.stage = "new" /\ m.file = NoFile /\ ana' = ana
    BY <1>2 DEF ImportStart, EntriesKept
  <2>1. ASSUME NEW s, NEW b,
               imp' = [imp EXCEPT ![i].stage = "tenant", ![i].skip = s,
                                  ![i].bundle = b, ![i].left = b]
        PROVE  FileKept(i)'
    BY <1>t, <2>0, <2>1 DEF FileKept, ImportStates
  <2>2. ASSUME NEW s, NEW a \in Readers,
               imp' = [imp EXCEPT ![i].stage = "tenant", ![i].skip = s, ![i].file = a,
                              ![i].entries = ana[a].read \cap Entries,
                              ![i].bundle = ana[a].read \cap Keys,
                              ![i].left = ana[a].read \cap Keys]
        PROVE  FileKept(i)'
    <3> DEFINE en == ana[a].read \cap Entries
               b == ana[a].read \cap Keys
    <3>1. imp' = [imp EXCEPT ![i].stage = "tenant", ![i].skip = s, ![i].file = a,
                            ![i].entries = en, ![i].bundle = b, ![i].left = b]
      BY <2>2
    <3>2. b = ana'[a].read \cap Keys
      BY <2>0
    <3> HIDE DEF en, b
    <3>3. imp'[i].file = a /\ imp'[i].bundle = b
      BY <1>t, <3>1 DEF ImportStates
    <3> QED
      BY <3>2, <3>3 DEF FileKept
  <2> QED
    BY <1>2, <2>1, <2>2 DEF ImportStart
<1>3. CASE \/ ImportTenant(i) \/ ImportCreateTenant(i) \/ ImportModel(i) \/ ImportDone(i)
           \/ ImportError(i) \/ ImportCrash(i)
  <2>1. imp'[i].file = m.file /\ imp'[i].bundle = m.bundle
    BY <1>3, <1>t DEF ImportTenant, ImportCreateTenant, ImportModel, ImportDone, ImportError,
       ImportCrash, ImportStates
  <2> QED
    BY <1>1, <2>1
<1>4. CASE ImportRegister(i) \/ ImportPut(i)
  <2>1. CASE ImportRegister(i)
    <3>1. PICK x : imp' = [imp EXCEPT ![i].entries = @ \ {x}]
      BY <2>1 DEF ImportRegister
    <3>2. imp'[i].file = m.file /\ imp'[i].bundle = m.bundle
      BY <1>t, <3>1 DEF ImportStates
    <3> QED
      BY <1>1, <3>2
  <2>2. CASE ImportPut(i)
    <3>1. PICK k, pin : imp' = [imp EXCEPT ![i].left = @ \ {k}, ![i].pin = pin]
      BY <2>2 DEF ImportPut
    <3>2. imp'[i].file = m.file /\ imp'[i].bundle = m.bundle
      BY <1>t, <3>1 DEF ImportStates
    <3> QED
      BY <1>1, <3>2
  <2> QED
    BY <1>4, <2>1, <2>2
<1>5. CASE imp'[i] = m
  BY <1>1, <1>5
<1> QED
  BY <1>t, <1>2, <1>3, <1>4, <1>5, OtherImports DEF ImportStep

\* Every step keeps what an analysis has read, since nothing leaves a snapshot.
LEMMA ReadStep ==
  ASSUME GraphAssumption, TableInv, [GNext]_gvars, NEW a \in Readers, ReadKept(a)
  PROVE  ReadKept(a)'
<1> DEFINE p == ana[a]
<1>t. ana \in [Readers -> AnaStates] /\ p \in AnaStates /\ AnaKept(p)
  BY DEF TableInv, GTypeOK
<1>g. \A pin : Pinned(pin) \subseteq Pinned(pin)'
  BY PinnedGrows
<1>k. p.at \in Nat
  BY <1>t DEF AnaStates
<1>1. CASE ana'[a] = p
  BY <1>1, <1>g DEF ReadKept
<1>2. CASE Analyse(a)
  <2>0. p.stage = "new" /\ p.at = 0 /\ p.read = {} /\ rows' = rows
    BY <1>2, <1>t DEF Analyse, AnaKept
  <2>1. ASSUME NEW kind, NEW pin, NEW ks, ks = Pinned(pin),
               ana' = [ana EXCEPT ![a].stage = "read", ![a].kind = kind, ![a].pin = pin,
                                  ![a].base = ks]
        PROVE  ReadKept(a)'
    <3>1. /\ ana'[a].stage = "read" /\ ana'[a].at = 0 /\ ana'[a].read = {}
          /\ ana'[a].pin = pin /\ ana'[a].base = ks
      BY <1>t, <2>0, <2>1 DEF AnaStates
    <3>2. ks \subseteq Pinned(pin)'
      BY <1>g, <2>1
    <3> QED
      BY <3>1, <3>2 DEF ReadKept
  <2>2. ASSUME NEW kind, ana' = [ana EXCEPT ![a].stage = "failed", ![a].kind = kind]
        PROVE  ReadKept(a)'
    <3>1. /\ ana'[a].stage = "failed" /\ ana'[a].at = 0 /\ ana'[a].read = {}
          /\ ana'[a].pin = p.pin /\ ana'[a].base = p.base
      BY <1>t, <2>0, <2>2 DEF AnaStates
    <3> QED
      BY <1>g, <3>1 DEF ReadKept
  <2>3. ASSUME NEW kind \in Kinds, NEW m \in LatestEnabled,
               ana' = [ana EXCEPT ![a].stage = "read", ![a].kind = kind,
                                  ![a].pin = <<m.key, m.version>>,
                                  ![a].base = Pinned(<<m.key, m.version>>)]
        PROVE  ReadKept(a)'
    <3> DEFINE pin == <<m.key, m.version>>
               ks == Pinned(pin)
    <3>1. ana' = [ana EXCEPT ![a].stage = "read", ![a].kind = kind, ![a].pin = pin,
                             ![a].base = ks]
      BY <2>3
    <3>2. ks = Pinned(pin)
      OBVIOUS
    <3> HIDE DEF pin, ks
    <3> QED
      BY <2>1, <3>1, <3>2
  <2> QED
    BY <1>2, <2>2, <2>3 DEF Analyse
<1>3. ASSUME Reading(a), NEW new \in SUBSET RowsRead(a),
             RowsErrChecked(p.kind, NextTable(a)) => new = RowsRead(a),
             ana' = [ana EXCEPT ![a].at = @ + 1, ![a].read = @ \cup new]
      PROVE  ReadKept(a)'
  <2> DEFINE n == p.at + 1
             ks == p.read \cup new
             tables == ReadOrder(p.kind)
  <2>1. /\ ana'[a].at = n /\ ana'[a].read = ks /\ ana'[a].kind = p.kind
        /\ ana'[a].stage = p.stage /\ ana'[a].pin = p.pin /\ ana'[a].base = p.base
    BY <1>t, <1>3 DEF AnaStates
  <2>2. new \cap Keys \subseteq Pinned(p.pin)
    <3>1. Registered \cap Keys = {}
      BY DEF Registered, GraphAssumption
    <3>2. Content(p.pin) = Pinned(p.pin)
      BY ContentIsPinned
    <3> QED
      BY <3>1, <3>2 DEF RowsRead
  <2>3. ks \cap Keys \subseteq Pinned(p.pin)
    BY <2>2 DEF ReadKept
  <2>4. RowsErrChecked(p.kind, tables[n]) => p.base \cap tables[n] \subseteq ks
    <3>1. NextTable(a) = tables[n]
      BY DEF NextTable
    <3>2. p.base \subseteq Content(p.pin)
      BY ContentIsPinned DEF ReadKept
    <3> HIDE DEF tables, n
    <3> QED
      BY <1>3, <3>1, <3>2 DEF RowsRead
  <2>5. \A t \in 1 .. n : RowsErrChecked(p.kind, tables[t]) => p.base \cap tables[t] \subseteq ks
    <3>1. \A t \in 1 .. n : t \in 1 .. p.at \/ t = n
      BY <1>k
    <3>2. \A t \in 1 .. p.at : RowsErrChecked(p.kind, tables[t]) =>
                               p.base \cap tables[t] \subseteq p.read
      BY DEF ReadKept
    <3> HIDE DEF tables, n
    <3> QED
      BY <2>4, <3>1, <3>2
  <2>6. p.stage # "ok"
    BY <1>3 DEF Reading
  <2> HIDE DEF n, ks
  <2> QED
    BY <1>g, <2>1, <2>3, <2>5, <2>6 DEF ReadKept
<1>4. ASSUME p.stage = "read", NEW st \in {"ok", "failed"}, ana' = [ana EXCEPT ![a].stage = st],
             st = "ok" => p.at = Len(ReadOrder(p.kind))
      PROVE  ReadKept(a)'
  <2>1. /\ ana'[a].at = p.at /\ ana'[a].read = p.read /\ ana'[a].kind = p.kind
        /\ ana'[a].stage = st /\ ana'[a].pin = p.pin /\ ana'[a].base = p.base
    BY <1>t, <1>4 DEF AnaStates
  <2>2. p.kind \in Kinds
    BY <1>t, <1>4 DEF AnaKept
  <2> QED
    BY <1>4, <1>g, <2>1, <2>2 DEF ReadKept
<1>5. CASE AnaRead(a)
  BY <1>3, <1>5 DEF AnaRead
<1>6. CASE AnaReadCut(a)
  <2>1. CASE RowsErrChecked(p.kind, NextTable(a))
    BY <1>4, <1>6, <2>1 DEF AnaReadCut, Reading
  <2>2. CASE ~ RowsErrChecked(p.kind, NextTable(a))
    BY <1>3, <1>6, <2>2 DEF AnaReadCut
  <2> QED
    BY <2>1, <2>2
<1>7. CASE AnaAnswer(a)
  BY <1>4, <1>7 DEF AnaAnswer
<1>8. ASSUME NEW b \in Readers \ {a}, Analyse(b) \/ AnaRead(b) \/ AnaReadCut(b) \/ AnaAnswer(b)
      PROVE  ana'[a] = p
  BY <1>8, <1>t, ZenonT(60) DEF Analyse, AnaRead, AnaReadCut, AnaAnswer
<1> QED
  BY <1>1, <1>2, <1>5, <1>6, <1>7, <1>8, AnaSteps

----------------------------------------------------------------------------
(* The theorems.                                                           *)

\* No import and no analysis has started.
LEMMA ImportInit == ASSUME ModelAssumption, GraphAssumption, GInit PROVE ImportInv
<1>1. TableInv
  BY TableInit
<1>2. WroteApart
  BY DEF GInit, MInit, WroteApart, Wrote
<1>3. ASSUME NEW i \in AdminRequests PROVE EntriesKept(i) /\ PinKept(i) /\ ItemsKept(i) /\ FileKept(i)
  <2>1. /\ imp[i].stage = "new" /\ imp[i].entries = Entries /\ imp[i].file = NoFile
        /\ imp[i].pin = NoPin /\ imp[i].bundle = {} /\ imp[i].left = {} /\ rows = {}
        /\ put[i].stage = "new"
    BY DEF GInit, Callers
  <2> QED
    BY <2>1 DEF EntriesKept, PinKept, ItemsKept, FileKept, Moved
<1>4. ASSUME NEW a \in Readers PROVE ReadKept(a)
  <2>1. ana[a].read = {} /\ ana[a].base = {} /\ ana[a].at = 0 /\ ana[a].stage = "new"
    BY DEF GInit
  <2> QED
    BY <2>1 DEF ReadKept
<1> QED
  BY <1>1, <1>2, <1>3, <1>4 DEF ImportInv

\* Every step keeps the invariant.
LEMMA ImportNext ==
  ASSUME ModelAssumption, GraphAssumption, ImportInv, [GNext]_gvars
  PROVE  ImportInv'
<1>1. TableInv'
  BY TableNext DEF ImportInv
<1>2. WroteApart'
  BY ApartStep, GraphModelStep DEF ImportInv, TableInv
<1>3. ASSUME NEW i \in AdminRequests
      PROVE  EntriesKept(i)' /\ PinKept(i)' /\ ItemsKept(i)' /\ FileKept(i)'
  BY EntriesStep, PinStep, ItemsStep, FileStep DEF ImportInv
<1>4. ASSUME NEW a \in Readers PROVE ReadKept(a)'
  BY ReadStep DEF ImportInv
<1> QED
  BY <1>1, <1>2, <1>3, <1>4 DEF ImportInv

\* For every number of imports, exports, bundles and writers.
THEOREM ImportInvariant == GSpec => []ImportInv
<1>1. GInit => ImportInv
  BY ImportInit, ModelAssumption, GraphAssumption
<1>2. ImportInv /\ [GNext]_gvars => ImportInv'
  BY ImportNext, ModelAssumption, GraphAssumption
<1> QED
  BY <1>1, <1>2, PTL DEF GSpec

\* Two imports never write into the same model version.
THEOREM ImportsApart == GSpec => []ImportsKeepApart
<1>1. ImportInv => ImportsKeepApart
  BY DEF ImportInv, PinKept, WroteApart, Wrote, ImportsKeepApart
<1> QED
  BY <1>1, ImportInvariant, PTL

\* The keys that an import has put are in the snapshot of its model version.
LEMMA PutInSnapshot ==
  ASSUME ImportInv, NEW i \in AdminRequests
  PROVE  PutBy(i) \subseteq Content(imp[i].pin)
<1>1. PutBy(i) \subseteq Pinned(imp[i].pin)
  BY DEF ImportInv, ItemsKept, PutBy, Pinned
<1> QED
  BY <1>1, ContentIsPinned DEF ImportInv

\* What an import that reports success has put is what it was asked to put.
LEMMA DoneItems ==
  ASSUME ImportInv, NEW i \in AdminRequests, imp[i].stage = "done"
  PROVE  PutBy(i) = Wanted(i)
<1>1. TableInv /\ PinKept(i) /\ ItemsKept(i)
  BY DEF ImportInv
<1>2. Due(i) = {} /\ put[i].stage \in {"new", "inserted"}
  BY <1>1 DEF PinKept
<1>3. Moved(i) \subseteq PutBy(i)
  BY <1>1, <1>2, ReadyItems
<1>4. PutBy(i) \subseteq Moved(i)
  BY <1>1 DEF ItemsKept, PutBy
<1>5. Moved(i) \cap imp[i].skip = {}
  BY <1>1 DEF PinKept
<1> QED
  BY <1>2, <1>3, <1>4, <1>5 DEF Moved, Due, Wanted

\* An import that reports success has put what its bundle lists, the contracts only
\* if it was told to, into the snapshot of its model version, where it still is.
THEOREM ImportsComplete == GSpec => []ImportComplete
<1>1. ASSUME ImportInv PROVE ImportComplete
  <2>1. ASSUME NEW i \in AdminRequests, imp[i].stage = "done"
        PROVE  PutBy(i) = Wanted(i) /\ Wanted(i) \subseteq Content(imp[i].pin)
    BY <1>1, <2>1, DoneItems, PutInSnapshot
  <2> QED
    BY <2>1 DEF ImportComplete
<1> QED
  BY <1>1, ImportInvariant, PTL

\* Wherever an import of a closed bundle is, or stops: an edge it has put, or is
\* putting, has both its nodes in the snapshot.
THEOREM ImportPrefix == GSpec => []ImportedPrefixClosed
<1>1. ASSUME ImportInv, NEW i \in AdminRequests, ClosedGraph(imp[i].bundle),
             NEW e \in (imp[i].bundle \ imp[i].left) \cap Edges
      PROVE  Ends(e) \subseteq Content(imp[i].pin)
  <2>1. Ends(e) \subseteq PutBy(i)
    BY <1>1 DEF ImportInv, ItemsKept, Moved
  <2> QED
    BY <1>1, <2>1, PutInSnapshot
<1>2. ImportInv => ImportedPrefixClosed
  BY <1>1 DEF ImportedPrefixClosed
<1> QED
  BY <1>2, ImportInvariant, PTL

\* Imports for one tenant name fill one tenant, and the model version of an import
\* exists only when whatever its bundle lists is registered there.
THEOREM ImportsOneTenant == GSpec => []ImportsShareTenant
<1>1. ASSUME ImportInv PROVE ImportsShareTenant
  <2>1. ASSUME NEW i \in AdminRequests, NEW j \in AdminRequests,
               NoTenant \notin {imp[i].tenant, imp[j].tenant}
        PROVE  imp[i].tenant = imp[j].tenant
    BY <1>1, <2>1 DEF ImportInv, TableInv, TenantKept
  <2>2. ASSUME NEW i \in AdminRequests, imp[i].stage \notin {"new", "stopped"},
               mreq[i].stage \in {"inserted", "ok", "lost"}, NEW x \in Listed(i)
        PROVE  <<imp[i].tenant, x>> \in registry
    <3>1. imp[i].stage \in {"active", "done"}
      BY <1>1, <2>2 DEF ImportInv, TableInv, GTypeOK, ImportStates, EntriesKept
    <3> QED
      BY <1>1, <2>2, <3>1 DEF ImportInv, EntriesKept
  <2> QED
    BY <2>1, <2>2 DEF ImportsShareTenant
<1> QED
  BY <1>1, ImportInvariant, PTL

\* The tables an export reads: the contracts are the last, if it reads them.
LEMMA ExportedTables ==
  ASSUME ImportInv, NEW a \in Readers, Exported(a)
  PROVE  /\ ana[a].base \ ContractKeys \subseteq ana[a].read
         /\ ana[a].kind = "fullexport" => ana[a].base \subseteq ana[a].read
<1> DEFINE tables == ReadOrder(ana[a].kind)
<1>1. /\ ana[a].kind \in {"export", "fullexport"} /\ ana[a].at = Len(tables)
      /\ \A t \in 1 .. ana[a].at : RowsErrChecked(ana[a].kind, tables[t]) =>
           ana[a].base \cap tables[t] \subseteq ana[a].read
  BY DEF ImportInv, ReadKept, Exported
<1>2. \A t \in 1 .. Len(tables) : ana[a].base \cap tables[t] \subseteq ana[a].read
  BY <1>1 DEF RowsErrChecked
<1>3. \/ /\ ana[a].kind = "export"
         /\ tables = <<Types, Statuses, Nodes, Edges, Properties>>
      \/ /\ ana[a].kind = "fullexport"
         /\ tables = <<Types, Statuses, Nodes, Edges, Properties, ContractKeys>>
  BY <1>1 DEF ReadOrder, ExportReads, FullExportReads
<1> HIDE DEF tables
<1>4. /\ Len(tables) \in {5, 6} /\ tables[3] = Nodes /\ tables[4] = Edges
      /\ tables[5] = Properties
      /\ ana[a].kind = "fullexport" => Len(tables) = 6 /\ tables[6] = ContractKeys
  BY <1>3
<1>5. /\ 3 \in 1 .. Len(tables) /\ 4 \in 1 .. Len(tables) /\ 5 \in 1 .. Len(tables)
      /\ ana[a].kind = "fullexport" => 6 \in 1 .. Len(tables)
  BY <1>4
<1>6. /\ ana[a].base \cap Nodes \subseteq ana[a].read
      /\ ana[a].base \cap Edges \subseteq ana[a].read
      /\ ana[a].base \cap Properties \subseteq ana[a].read
      /\ ana[a].kind = "fullexport" => ana[a].base \cap ContractKeys \subseteq ana[a].read
  BY <1>2, <1>4, <1>5
<1>7. ana[a].base \subseteq Keys
  BY DEF ImportInv, TableInv, GTypeOK, AnaStates
<1> QED
  BY <1>6, <1>7 DEF Keys

\* An import of an exported file has put what the exported model version had when
\* the export began, contracts only if both were told to, and nothing that it
\* never had.
THEOREM RestoresComplete == GSpec => []RestoreComplete
<1>1. ASSUME ImportInv, NEW i \in AdminRequests, imp[i].stage = "done", imp[i].file # NoFile,
             NEW a, a = imp[i].file
      PROVE  /\ ana[a].base \cap Carried(i, a) \subseteq PutBy(i)
             /\ PutBy(i) \subseteq Content(ana[a].pin)
  <2>1. a \in Readers /\ Exported(a) /\ ReadKept(a)
    BY <1>1 DEF ImportInv, EntriesKept
  <2>2. PutBy(i) = (ana[a].read \cap Keys) \ imp[i].skip
    BY <1>1, DoneItems DEF ImportInv, FileKept, Wanted
  <2>3. PutBy(i) \subseteq Content(ana[a].pin)
    BY <1>1, <2>1, <2>2, ContentIsPinned DEF ImportInv, ReadKept
  <2>4. ana[a].base \subseteq Keys /\ imp[i].skip \in {{}, ContractKeys}
    BY <1>1, <2>1 DEF ImportInv, TableInv, GTypeOK, AnaStates, ImportStates
  <2>5. /\ ana[a].base \ ContractKeys \subseteq ana[a].read
        /\ ana[a].kind = "fullexport" => ana[a].base \subseteq ana[a].read
    BY <1>1, <2>1, ExportedTables
  <2> QED
    BY <2>2, <2>3, <2>4, <2>5 DEF Carried
<1>2. ImportInv => RestoreComplete
  BY <1>1 DEF RestoreComplete
<1> QED
  BY <1>2, ImportInvariant, PTL

\* An analysis that answers has read every node and every edge its model version
\* had when it began, in whatever order rows are put and connections are lost.
THEOREM AnswersRead == GSpec => []AnswersComplete
<1>1. ASSUME ImportInv, NEW a \in Readers, ana[a].stage = "ok"
      PROVE  ana[a].base \cap (Nodes \cup Edges) \subseteq ana[a].read
  <2> DEFINE tables == ReadOrder(ana[a].kind)
  <2>1. /\ ana[a].kind \in Kinds /\ ana[a].at = Len(tables)
        /\ \A t \in 1 .. ana[a].at : RowsErrChecked(ana[a].kind, tables[t]) =>
             ana[a].base \cap tables[t] \subseteq ana[a].read
    BY <1>1 DEF ImportInv, ReadKept
  <2>2. ana[a].kind \in {"graph", "paths", "gaps", "export", "fullexport"}
    BY <2>1, GraphAssumption DEF GraphAssumption
  <2>3. CASE Exported(a)
    <3>1. ContractKeys \cap (Nodes \cup Edges) = {}
      BY GraphAssumption DEF GraphAssumption, Tables
    <3> QED
      BY <1>1, <2>3, <3>1, ExportedTables
  <2>4. CASE ana[a].kind \in {"graph", "paths", "gaps"}
    <3>1. tables \in {<<Nodes, Edges>>, <<Nodes, Edges, Properties>>}
      BY <2>4 DEF ReadOrder, loadGraph, PathsReads, detectGaps
    <3>2. Nodes = Properties => Nodes = {}
      BY GraphAssumption DEF GraphAssumption, Tables
    <3>3. Edges = Properties => Edges = {}
      BY GraphAssumption DEF GraphAssumption, Tables
    <3> HIDE DEF tables
    <3>4. 1 \in 1 .. Len(tables) /\ 2 \in 1 .. Len(tables) /\ tables[1] = Nodes
          /\ tables[2] = Edges
      BY <3>1
    <3>5. ana[a].base \cap Nodes \subseteq ana[a].read
      BY <2>1, <3>2, <3>4 DEF RowsErrChecked
    <3>6. ana[a].base \cap Edges \subseteq ana[a].read
      BY <2>1, <3>3, <3>4 DEF RowsErrChecked
    <3> QED
      BY <3>5, <3>6
  <2> QED
    BY <1>1, <2>2, <2>3, <2>4 DEF Exported
<1>2. ImportInv => AnswersComplete
  BY <1>1 DEF AnswersComplete
<1> QED
  BY <1>2, ImportInvariant, PTL

\* A row that an import puts changes the snapshot of its own model version only.
THEOREM ImportOwnModel == GSpec => ImportTouchesOwnModel
<1> DEFINE A == \A i \in AdminRequests :
                  put[i].stage = "insert" /\ put'[i].stage = "inserted" =>
                    \A p \in {x.pin : x \in rows} \ {imp[i].pin} : Snapshot(p)' = Snapshot(p)
<1>1. ASSUME ImportInv, [GNext]_gvars, NEW i \in AdminRequests,
             put[i].stage = "insert", put'[i].stage = "inserted", NEW p, p # imp[i].pin
      PROVE  Snapshot(p)' = Snapshot(p)
  <2>0. put \in [Callers -> PutStates] /\ i \in Callers /\ PinKept(i) /\ TableInv
    BY <1>1 DEF ImportInv, TableInv, GTypeOK, Callers
  <2>1. CASE UNCHANGED rows
    BY <2>1 DEF Snapshot
  <2>2. ASSUME NEW c \in Callers, NEW x, x.pin = put[c].pin, x.key = put[c].key,
               rows' = rows \cup {x},
               put' = [put EXCEPT ![c].stage = "inserted"]
        PROVE  Snapshot(p)' = Snapshot(p)
    <3>1. c = i
      BY <1>1, <2>0, <2>2
    <3>2. x.pin # p
      BY <1>1, <2>0, <2>2, <3>1 DEF PinKept
    <3> QED
      BY <2>2, <3>2 DEF Snapshot
  <2>3. \/ UNCHANGED rows
        \/ \E c \in Callers : \E x :
             /\ x.pin = put[c].pin /\ x.key = put[c].key
             /\ rows' = rows \cup {x}
             /\ put' = [put EXCEPT ![c].stage = "inserted"]
    <3>1. ASSUME NEW c \in Callers,
                 rows' = rows \cup {[key |-> put[c].key, version |-> put[c].next,
                                     pin |-> put[c].pin, blob |-> c]},
                 put' = [put EXCEPT ![c].stage = "inserted"]
          PROVE  \E x : /\ x.pin = put[c].pin /\ x.key = put[c].key
                        /\ rows' = rows \cup {x}
                        /\ put' = [put EXCEPT ![c].stage = "inserted"]
      <4> DEFINE x == [key |-> put[c].key, version |-> put[c].next,
                       pin |-> put[c].pin, blob |-> c]
      <4>1. x.pin = put[c].pin /\ x.key = put[c].key
        OBVIOUS
      <4> QED
        BY <3>1, <4>1
    <3> QED
      BY <1>1, <3>1, RowsStep
  <2> QED
    BY <2>1, <2>2, <2>3
<1>2. ImportInv /\ [GNext]_gvars => A
  BY <1>1
<1>3. A => [A]_gvars
  OBVIOUS
<1> QED
  BY <1>2, <1>3, ImportInvariant, PTL DEF GSpec, ImportTouchesOwnModel

\* No analysis reads the nodes after the edges.
LEMMA EdgesLast ==
  ASSUME GraphAssumption, NEW kind \in Kinds, NEW i, NEW j,
         i \in 1 .. Len(ReadOrder(kind)), j \in 1 .. Len(ReadOrder(kind)), i < j,
         ReadOrder(kind)[i] = Edges, ReadOrder(kind)[j] = Nodes
  PROVE  Nodes = {} \/ Edges = {}
<1>a. /\ Nodes \cap Edges = {} /\ Nodes \cap Properties = {} /\ Nodes \cap ContractKeys = {}
  <2>1. /\ Tables[1] = Nodes /\ Tables[2] = Edges /\ Tables[3] = Properties
        /\ Tables[4] = ContractKeys
    BY DEF Tables
  <2> QED
    BY <2>1 DEF GraphAssumption
<1>b. Types \cap Edges = {} /\ Statuses \cap Edges = {}
  BY DEF GraphAssumption, Keys, Entries
<1>c. kind \in {"graph", "paths", "gaps", "export", "fullexport"}
  BY DEF GraphAssumption
<1>1. CASE kind \in {"graph", "paths"}
  <2>1. ReadOrder(kind) = <<Nodes, Edges>>
    BY <1>1 DEF ReadOrder, loadGraph, PathsReads
  <2>2. i = 1 /\ j = 2
    BY <2>1
  <2> QED
    BY <1>a, <2>1, <2>2
<1>2. CASE kind = "gaps"
  <2>1. ReadOrder(kind) = <<Nodes, Edges, Properties>>
    BY <1>2 DEF ReadOrder, detectGaps
  <2>2. i \in 1 .. 3 /\ j \in 1 .. 3
    BY <2>1
  <2>3. i = 1 \/ (i = 2 /\ j = 3)
    BY <2>2
  <2> QED
    BY <1>a, <2>1, <2>3
<1>3. CASE kind \in {"export", "fullexport"}
  <2>1. ReadOrder(kind) \in {<<Types, Statuses, Nodes, Edges, Properties>>,
                            <<Types, Statuses, Nodes, Edges, Properties, ContractKeys>>}
    BY <1>3 DEF ReadOrder, ExportReads, FullExportReads
  <2>2. i \in 1 .. 6 /\ j \in 1 .. 6
    BY <2>1
  <2>3. i \in {1, 2, 3} \/ (i \in {4, 5} /\ j \in {5, 6})
    BY <2>2
  <2> QED
    BY <1>a, <1>b, <2>1, <2>3
<1> QED
  BY <1>1, <1>2, <1>3, <1>c

\* A node that is going to be reported as isolated has no edge at the time the
\* later one of the two statements is made.
THEOREM IsolatedAtRead == GSpec => IsolatedWhenRead
<1> DEFINE A == \A a \in Readers :
                  Reading(a) /\ ana'[a].at # ana[a].at /\ ReadsTheOther(a) =>
                    \A n \in Nodes : IsolatedIn(n, ana'[a].read) =>
                                      IsolatedIn(n, Content(ana[a].pin))
<1>1. ASSUME ImportInv, [GNext]_gvars, NEW a \in Readers, Reading(a),
             ana'[a].at # ana[a].at, ReadsTheOther(a),
             NEW n \in Nodes, IsolatedIn(n, ana'[a].read)
      PROVE  IsolatedIn(n, Content(ana[a].pin))
  <2> DEFINE p == ana[a]
             tables == ReadOrder(p.kind)
  <2>t. /\ ana \in [Readers -> AnaStates] /\ p \in AnaStates /\ p.kind \in Kinds
        /\ ReadKept(a) /\ TableInv /\ p.stage = "read"
    BY <1>1 DEF ImportInv, TableInv, GTypeOK, AnaKept, Reading
  <2>1. PICK new \in SUBSET RowsRead(a) :
          /\ ana' = [ana EXCEPT ![a].at = @ + 1, ![a].read = @ \cup new]
          /\ new = RowsRead(a) \/ NextTable(a) = Properties
    <3>1. ASSUME NEW b \in Readers,
                 Analyse(b) \/ AnaAnswer(b) \/ ((AnaRead(b) \/ AnaReadCut(b)) /\ b # a)
          PROVE  ana'[a].at = p.at
      <4>1. CASE Analyse(b) /\ b = a
        BY <1>1, <4>1 DEF Analyse, Reading
      <4>2. CASE AnaAnswer(b) /\ b = a
        BY <2>t, <4>2 DEF AnaAnswer, AnaStates
      <4>3. CASE b # a
        BY <2>t, <3>1, <4>3 DEF Analyse, AnaRead, AnaReadCut, AnaAnswer
      <4> QED
        BY <3>1, <4>1, <4>2, <4>3
    <3>2. AnaRead(a) \/ AnaReadCut(a)
      BY <1>1, <3>1, AnaSteps
    <3>3. ASSUME ana' = [ana EXCEPT ![a].stage = "failed"] PROVE ana'[a].at = p.at
      BY <2>t, <3>3 DEF AnaStates
    <3>4. CASE AnaRead(a)
      BY <3>4 DEF AnaRead
    <3>5. CASE AnaReadCut(a)
      <4>1. ~ RowsErrChecked(p.kind, NextTable(a))
        BY <1>1, <3>3, <3>5 DEF AnaReadCut
      <4>2. NextTable(a) = Properties
        BY <4>1 DEF RowsErrChecked
      <4>3. PICK part \in SUBSET RowsRead(a) :
              ana' = [ana EXCEPT ![a].at = @ + 1, ![a].read = @ \cup part]
        BY <3>5, <4>1 DEF AnaReadCut
      <4> QED
        BY <4>2, <4>3
    <3> QED
      BY <3>2, <3>4, <3>5
  <2>2. ana'[a].read = p.read \cup new
    BY <2>t, <2>1 DEF AnaStates
  <2>3. n \in Content(p.pin)
    <3>1. Registered \cap Keys = {} /\ n \in Keys
      BY GraphAssumption DEF Registered, GraphAssumption, Keys
    <3>2. n \in p.read \/ n \in RowsRead(a)
      BY <1>1, <2>2 DEF IsolatedIn
    <3> QED
      BY <2>t, <3>1, <3>2, ContentIsPinned DEF ReadKept, RowsRead
  <2>4. PICK i \in 1 .. p.at : {tables[i], NextTable(a)} = {Nodes, Edges}
    BY <1>1 DEF ReadsTheOther
  <2>5. NextTable(a) = Edges \/ (NextTable(a) = Nodes /\ tables[i] = Edges)
    BY <2>4
  <2>6. p.at \in Nat /\ p.at < Len(tables) /\ Len(tables) \in 0 .. 6
    <3>1. p.at \in Nat /\ p.at < Len(tables)
      BY <1>1, <2>t DEF Reading, AnaStates
    <3>2. Len(tables) \in 0 .. 6
      BY <2>t, ReadOrderLength, GraphAssumption
    <3> QED
      BY <3>1, <3>2
  <2>7. NextTable(a) = Edges \/ Edges = {}
    <3>1. i \in 1 .. Len(tables) /\ p.at + 1 \in 1 .. Len(tables) /\ i < p.at + 1
      BY <2>6
    <3>2. NextTable(a) = tables[p.at + 1]
      BY DEF NextTable
    <3> QED
      BY <2>t, <2>5, <3>1, <3>2, EdgesLast, GraphAssumption, ZenonT(60)
  <2>8. Properties \cap Edges = {}
    <3>1. Tables[2] = Edges /\ Tables[3] = Properties
      BY DEF Tables
    <3> QED
      BY <3>1, GraphAssumption DEF GraphAssumption
  <2>9. Content(p.pin) \cap Edges \subseteq ana'[a].read
    BY <2>1, <2>2, <2>7, <2>8 DEF RowsRead
  <2> QED
    BY <1>1, <2>3, <2>9 DEF IsolatedIn
<1>2. ImportInv /\ [GNext]_gvars => A
  BY <1>1
<1>3. A => [A]_gvars
  OBVIOUS
<1> QED
  BY <1>2, <1>3, ImportInvariant, PTL DEF GSpec, IsolatedWhenRead

----------------------------------------------------------------------------
(***************************************************************************)
(* The four tables implement the abstract log.  An import makes one call   *)
(* of Put for each item, so the log tells its calls apart by the item; it  *)
(* needs to know that a call has written at most one row.                  *)
(***************************************************************************)

OneCall(c) ==
  /\ put[c].stage = "new" => put[c].key = NoKey
  /\ put[c].stage \notin {"inserted", "lost"} => RowsOf(c, put[c].key) = {}
  /\ \A x, y \in rows : x.blob = c /\ y.blob = c /\ x.key = y.key => x = y
  /\ c \in Writers => \A x \in rows : x.blob = c => x.key = put[c].key

CallsInv == ImportInv /\ \A c \in Callers : OneCall(c)

\* How the call that c is in moves when it does not write: the next call begins,
\* it goes on or ends without a row, or the answer is lost.
CallMoves(c) ==
  \/ /\ put[c].stage \in {"new", "inserted"} /\ (c \in Writers => put[c].stage = "new")
     /\ put'[c].stage \in {"resolve", "check"}
     /\ put'[c].key # put[c].key /\ RowsOf(c, put'[c].key) = {}
  \/ /\ put[c].stage \in {"resolve", "check", "next", "insert"}
     /\ put'[c].stage \in {"check", "next", "insert", "conflict", "failed", "gone"}
     /\ put'[c].key = put[c].key
  \/ /\ put[c].stage = "inserted" /\ put'[c].stage = "lost"
     /\ put'[c].key = put[c].key

CallInserts(c) ==
  /\ put[c].stage = "insert" /\ RowAllowed(put[c])
  /\ rows' = rows \cup {[key |-> put[c].key, version |-> put[c].next,
                         pin |-> put[c].pin, blob |-> c]}
  /\ put' = [put EXCEPT ![c].stage = "inserted"]

\* What the invariant knows of each call.
LEMMA CallsTyped ==
  ASSUME CallsInv, NEW c \in Callers
  PROVE  /\ put \in [Callers -> PutStates] /\ put[c] \in PutStates
         /\ PutKept(c, put[c]) /\ OneCall(c) /\ TableInv
BY DEF CallsInv, ImportInv, TableInv, GTypeOK

\* The request that w stands for makes its only call.
LEMMA WriteMoves ==
  ASSUME GraphAssumption, CallsInv, NEW w \in Writers, Write(w)
  PROVE  /\ w \in Callers /\ UNCHANGED rows /\ CallMoves(w)
         /\ put'[w].key \in Keys
         /\ \A d \in Callers \ {w} : put'[d] = put[d]
<1>1. w \in Callers /\ UNCHANGED rows /\ put[w].stage = "new"
  BY DEF Callers, Write
<1>2. PICK k \in Keys, p \in (ModelIDs \X (1 .. MaxPinVersion)) \cup {NoPin},
           e \in (0 .. MaxExpected) \cup {NoVersion} :
        put' = [put EXCEPT ![w] = Call(k, p, e)]
  BY DEF Write
<1>3. put'[w].stage \in {"resolve", "check"} /\ put'[w].key = k
      /\ \A d \in Callers \ {w} : put'[d] = put[d]
  BY <1>1, <1>2, CallsTyped DEF Call
<1>4. put[w].key = NoKey /\ NoKey # k
  BY <1>1, CallsTyped DEF OneCall, GraphAssumption
<1>5. RowsOf(w, NoKey) = {} /\ \A x \in rows : x.blob = w => x.key = NoKey
  BY <1>1, <1>4, CallsTyped DEF OneCall
<1>6. RowsOf(w, k) = {}
  BY <1>5 DEF RowsOf
<1> QED
  BY <1>1, <1>3, <1>4, <1>6 DEF CallMoves

\* An import puts the next item, one it has not put before.
LEMMA ImportPutMoves ==
  ASSUME GraphAssumption, CallsInv, NEW i \in AdminRequests, ImportPut(i)
  PROVE  /\ i \in Callers /\ UNCHANGED rows /\ CallMoves(i)
         /\ put'[i].key \in Keys
         /\ \A d \in Callers \ {i} : put'[d] = put[d]
<1>1. i \in Callers /\ i \notin Writers /\ UNCHANGED rows
      /\ put[i].stage \in {"new", "inserted"}
  BY DEF Callers, GraphAssumption, ImportPut, ImportReady
<1>2. PICK k \in NextItems(i) : put' = [put EXCEPT ![i] = Call(k, ImportPin(i), NoVersion)]
  BY DEF ImportPut
<1>3. imp[i] \in ImportStates /\ Due(i) # {}
  BY DEF ImportPut, CallsInv, ImportInv, TableInv, GTypeOK
<1>4. k \in imp[i].left /\ k \in Keys
  BY <1>3, NodesFirst DEF ImportStates
<1>5. k \notin Moved(i)
  BY <1>4 DEF Moved
<1>6. put'[i].stage \in {"resolve", "check"} /\ put'[i].key = k
      /\ \A d \in Callers \ {i} : put'[d] = put[d]
  BY <1>1, <1>2, CallsTyped DEF Call
<1>7. PinKept(i) /\ ItemsKept(i)
  BY DEF CallsInv, ImportInv
<1>8. put[i].key # k
  <2>1. CASE put[i].stage = "new"
    BY <1>1, <1>4, <2>1, CallsTyped DEF OneCall, GraphAssumption
  <2>2. CASE put[i].stage = "inserted"
    BY <1>5, <1>7, <2>2 DEF PinKept
  <2> QED
    BY <1>1, <2>1, <2>2
<1>9. RowsOf(i, k) = {}
  BY <1>5, <1>7 DEF ItemsKept, RowsOf
<1> QED
  BY <1>1, <1>4, <1>6, <1>8, <1>9 DEF CallMoves

\* The statements of a call, and its connection.
LEMMA PutStepMoves ==
  ASSUME CallsInv, NEW c \in Callers, PutStep(c) \/ PutAbandon(c)
  PROVE  \/ CallInserts(c)
         \/ /\ UNCHANGED rows /\ CallMoves(c)
            /\ put'[c].key \in Keys
            /\ \A d \in Callers \ {c} : put'[d] = put[d]
<1> DEFINE Goal == /\ UNCHANGED rows /\ CallMoves(c)
                   /\ put'[c].key \in Keys
                   /\ \A d \in Callers \ {c} : put'[d] = put[d]
<1>0. put \in [Callers -> PutStates] /\ put[c] \in PutStates
      /\ (put[c].stage # "new" => put[c].key \in Keys)
  BY CallsTyped DEF PutKept
<1>1. CASE PutResolve(c)
  <2>1. PICK st \in {"check", "failed"}, p \in Pins \cup {NoPin} :
          put' = [put EXCEPT ![c] = [@ EXCEPT !.stage = st, !.pin = p]]
    <3>1. ASSUME NEW m \in LatestEnabled,
                 put' = [put EXCEPT ![c].stage = "check", ![c].pin = <<m.key, m.version>>]
          PROVE  /\ <<m.key, m.version>> \in Pins
                 /\ put' = [put EXCEPT ![c] =
                              [@ EXCEPT !.stage = "check", !.pin = <<m.key, m.version>>]]
      BY <1>0, <3>1, CallsTyped, EnabledIsPin, ZenonT(60) DEF TableInv
    <3>2. ASSUME put' = [put EXCEPT ![c].stage = "failed"]
          PROVE  put' = [put EXCEPT ![c] =
                           [@ EXCEPT !.stage = "failed", !.pin = put[c].pin]]
      BY <1>0, <3>2 DEF PutStates
    <3>3. put[c].pin \in Pins \cup {NoPin}
      BY <1>0 DEF PutStates
    <3> QED
      BY <1>1, <3>1, <3>2, <3>3 DEF PutResolve
  <2>2. /\ put'[c].stage = st /\ put'[c].key = put[c].key
        /\ \A d \in Callers \ {c} : put'[d] = put[d]
    BY <1>0, <2>1 DEF PutStates
  <2> QED
    BY <1>0, <1>1, <2>2 DEF PutResolve, CallMoves
<1>2. CASE PutCheck(c) \/ PutNext(c) \/ PutAbandon(c)
  <2>1. UNCHANGED rows /\ \A d \in Callers \ {c} : put'[d] = put[d]
    BY <1>0, <1>2 DEF PutCheck, PutNext, PutAbandon
  <2>2. put[c].stage # "new" /\ put'[c].key = put[c].key
    BY <1>0, <1>2 DEF PutCheck, PutNext, PutAbandon, PutStates
  <2>3. \/ /\ put[c].stage \in {"resolve", "check", "next", "insert"}
           /\ put'[c].stage \in {"check", "next", "insert", "conflict", "failed", "gone"}
        \/ put[c].stage = "inserted" /\ put'[c].stage = "lost"
    BY <1>0, <1>2 DEF PutCheck, PutNext, PutAbandon, PutStates
  <2> QED
    BY <1>0, <2>1, <2>2, <2>3 DEF CallMoves
<1>3. CASE PutInsert(c)
  <2>1. CASE RowAllowed(put[c])
    BY <1>3, <2>1 DEF PutInsert, CallInserts
  <2>2. CASE ~ RowAllowed(put[c])
    BY <1>0, <1>3, <2>2 DEF PutInsert, PutStates, CallMoves
  <2> QED
    BY <2>1, <2>2
<1> QED
  BY <1>1, <1>2, <1>3 DEF PutStep

\* So every step inserts the row of one call, moves one call, or touches none.
LEMMA CallSteps ==
  ASSUME GraphAssumption, CallsInv, [GNext]_gvars
  PROVE  \/ UNCHANGED <<rows, put>>
         \/ \E c \in Callers : CallInserts(c)
         \/ \E c \in Callers :
              /\ UNCHANGED rows /\ CallMoves(c) /\ put'[c].key \in Keys
              /\ \A d \in Callers \ {c} : put'[d] = put[d]
BY OtherSteps, WriteMoves, ImportPutMoves, PutStepMoves

\* Nothing is put yet.
LEMMA CallsInit == ASSUME ModelAssumption, GraphAssumption, GInit PROVE CallsInv
<1>1. rows = {} /\ \A c \in Callers : put[c].key = NoKey
  BY DEF GInit
<1> QED
  BY <1>1, ImportInit DEF CallsInv, OneCall, RowsOf

\* A call writes at most one row, and none before it inserts.
LEMMA OneCallStep ==
  ASSUME GraphAssumption, CallsInv, [GNext]_gvars, NEW d \in Callers
  PROVE  OneCall(d)'
<1>0. OneCall(d) /\ put[d] \in PutStates /\ put \in [Callers -> PutStates]
  BY CallsTyped
<1>1. CASE rows' = rows /\ put'[d] = put[d]
  BY <1>0, <1>1 DEF OneCall, RowsOf
<1>2. CASE rows' = rows /\ CallMoves(d)
  <2>1. RowsOf(d, put[d].key)' = RowsOf(d, put'[d].key)
    BY <1>2 DEF RowsOf
  <2>2. put'[d].stage # "new" /\ (put'[d].stage # "lost" => RowsOf(d, put'[d].key) = {})
    BY <1>0, <1>2 DEF CallMoves, OneCall
  <2>3. ASSUME d \in Writers, NEW x \in rows, x.blob = d PROVE x.key = put'[d].key
    <3>1. x.key = put[d].key /\ x \in RowsOf(d, put[d].key)
      BY <1>0, <2>3 DEF OneCall, RowsOf
    <3>2. put[d].stage # "new"
      BY <1>0, <3>1 DEF OneCall
    <3> QED
      BY <1>2, <2>3, <3>1, <3>2 DEF CallMoves
  <2> QED
    BY <1>0, <1>2, <2>1, <2>2, <2>3 DEF OneCall
<1>3. ASSUME NEW c \in Callers, CallInserts(c) PROVE OneCall(d)'
  <2> DEFINE x == [key |-> put[c].key, version |-> put[c].next,
                   pin |-> put[c].pin, blob |-> c]
  <2>1. rows' = rows \cup {x} /\ x.blob = c /\ x.key = put[c].key
    BY <1>3 DEF CallInserts
  <2> HIDE DEF x
  <2>2. CASE d = c
    <3>1. put'[d].stage = "inserted" /\ put'[d].key = put[d].key
      BY <1>0, <1>3, <2>2 DEF CallInserts, PutStates
    <3>2. RowsOf(d, put[d].key) = {}
      BY <1>0, <1>3, <2>2 DEF CallInserts, OneCall
    <3> QED
      BY <1>0, <2>1, <2>2, <3>1, <3>2 DEF OneCall, RowsOf
  <2>3. CASE d # c
    <3>1. put'[d] = put[d] /\ \A k : RowsOf(d, k)' = RowsOf(d, k)
      BY <1>0, <1>3, <2>1, <2>3 DEF CallInserts, RowsOf
    <3> QED
      BY <1>0, <2>1, <2>3, <3>1 DEF OneCall
  <2> QED
    BY <2>2, <2>3
<1> QED
  BY <1>1, <1>2, <1>3, CallSteps

LEMMA CallsNext ==
  ASSUME ModelAssumption, GraphAssumption, CallsInv, [GNext]_gvars
  PROVE  CallsInv'
BY ImportNext, OneCallStep DEF CallsInv, Callers

\* The log of a key is a function over its stored versions 1..MAX(version).
RowLogEntry == [pin : Pins, blob : Callers]

LEMMA RowEntriesTyped ==
  ASSUME TableInv, NEW k \in Keys
  PROVE  /\ Latest(rows, k) \in Nat
         /\ RowEntries(k) \in [1 .. Latest(rows, k) -> RowLogEntry]
         /\ \A v \in 1 .. Latest(rows, k) : Occupied(rows, k, v)
<1>1. Latest(rows, k) \in Nat /\ DenseKey(rows, k)
  BY DEF TableInv, RowHistoriesDense
<1>2. \A v \in 1 .. Latest(rows, k) : Occupied(rows, k, v)
  BY <1>1 DEF DenseKey, Occupied
<1>3. ASSUME NEW v \in 1 .. Latest(rows, k)
      PROVE  RowEntry(RowAt(rows, k, v)) \in RowLogEntry
  <2>1. RowAt(rows, k, v) \in GraphRows
    BY <1>2, RowAtStored DEF TableInv, GTypeOK
  <2> QED
    BY <2>1 DEF GraphRows, RowEntry, RowLogEntry
<1> QED
  BY <1>1, <1>2, <1>3 DEF RowEntries

\* A step of one caller changes the phase and the place of one call only: also
\* when an import goes on to its next item.
LEMMA RowFrame ==
  ASSUME GraphAssumption, CallsInv, NEW c \in Callers, NEW k \in Keys, put'[c].key = k,
         \A d \in Callers \ {c} : put'[d] = put[d],
         \/ UNCHANGED rows /\ CallMoves(c)
         \/ CallInserts(c)
  PROVE  /\ <<c, k>> \in Calls
         /\ RowPhases' = [RowPhases EXCEPT ![<<c, k>>] = RowPhase(c, k)']
         /\ RowPhases'[<<c, k>>] = RowPhase(c, k)'
         /\ RowPlaces' = [RowPlaces EXCEPT ![<<c, k>>] = RowPlace(c, k)']
<1> DEFINE r == <<c, k>>
<1>0. OneCall(c) /\ PutKept(c, put[c]) /\ put[c] \in PutStates /\ put \in [Callers -> PutStates]
  BY CallsTyped
<1>1. ASSUME NEW d \in Callers, NEW j \in Keys, d # c \/ j # k
      PROVE  RowsOf(d, j)' = RowsOf(d, j)
  <2>1. CASE rows' = rows
    BY <2>1 DEF RowsOf
  <2>2. CASE CallInserts(c)
    <3>1. put'[c].key = put[c].key
      BY <1>0, <2>2 DEF CallInserts, PutStates
    <3> QED
      BY <1>1, <2>2, <3>1 DEF CallInserts, RowsOf
  <2> QED
    BY <2>1, <2>2
<1>2. ASSUME NEW d \in Callers, NEW j \in Keys, d # c \/ j # k
      PROVE  RowPhase(d, j)' = RowPhase(d, j)
  <2>1. CASE d # c
    BY <1>1, <2>1 DEF RowPhase
  <2>2. CASE d = c /\ put[c].key # j
    BY <1>1, <1>2, <2>2 DEF RowPhase
  <2>3. CASE d = c /\ put[c].key = j
    <3>1. put'[c].key # put[c].key
      BY <1>2, <2>3
    <3>2. CallMoves(c) /\ put[c].stage \in {"new", "inserted"}
      BY <1>0, <3>1 DEF CallMoves, CallInserts, PutStates
    <3>3. put[c].stage = "inserted"
      BY <1>0, <2>3, <3>2 DEF OneCall, GraphAssumption
    <3>4. [key |-> j, version |-> put[c].next, pin |-> put[c].pin, blob |-> c] \in rows
      BY <1>0, <2>3, <3>3 DEF PutKept
    <3>5. RowsOf(c, j) # {}
      BY <3>4 DEF RowsOf
    <3> QED
      BY <1>1, <1>2, <2>3, <3>3, <3>5 DEF RowPhase
  <2> QED
    BY <2>1, <2>2, <2>3
<1>3. ASSUME NEW d \in Callers, NEW j \in Keys, d # c \/ j # k
      PROVE  RowPlace(d, j)' = RowPlace(d, j)
  <2>1. RowsOf(d, j)' = RowsOf(d, j)
    BY <1>1, <1>3
  <2> QED
    BY <2>1 DEF RowPlace
<1>4. r \in Calls
  BY DEF Calls
<1>5. \A s \in Calls \ {r} : /\ RowPhase(s[1], s[2])' = RowPhase(s[1], s[2])
                             /\ RowPlace(s[1], s[2])' = RowPlace(s[1], s[2])
  <2> SUFFICES ASSUME NEW s \in Calls, s # r
               PROVE  /\ RowPhase(s[1], s[2])' = RowPhase(s[1], s[2])
                      /\ RowPlace(s[1], s[2])' = RowPlace(s[1], s[2])
    OBVIOUS
  <2>1. s[1] \in Callers /\ s[2] \in Keys /\ (s[1] # c \/ s[2] # k)
    BY DEF Calls
  <2> QED
    BY <1>2, <1>3, <2>1
<1>6. /\ RowPhases' = [s \in Calls |-> RowPhase(s[1], s[2])']
      /\ RowPlaces' = [s \in Calls |-> RowPlace(s[1], s[2])']
  BY DEF RowPhases, RowPlaces
<1>7. r[1] = c /\ r[2] = k
  OBVIOUS
<1> HIDE DEF r
<1>8. /\ RowPhases' = [RowPhases EXCEPT ![r] = RowPhase(r[1], r[2])']
      /\ RowPhases'[r] = RowPhase(r[1], r[2])'
      /\ RowPlaces' = [RowPlaces EXCEPT ![r] = RowPlace(r[1], r[2])']
  BY <1>4, <1>5, <1>6 DEF RowPhases, RowPlaces
<1> QED
  BY <1>4, <1>7, <1>8 DEF r

\* A move opens, fails or loses a call, or is no step of the log.
LEMMA RowMoveRefines ==
  ASSUME GraphAssumption, CallsInv, NEW c \in Callers, put'[c].key \in Keys,
         \A d \in Callers \ {c} : put'[d] = put[d],
         UNCHANGED rows, CallMoves(c)
  PROVE  [RowLog!Next]_(RowLog!vars)
<1>0. OneCall(c)
  BY CallsTyped
<1>1. PICK k \in Keys : put'[c].key = k
  OBVIOUS
<1> DEFINE r == <<c, k>>
<1>2. /\ r \in Calls
      /\ RowPhases' = [RowPhases EXCEPT ![r] = RowPhase(c, k)']
      /\ RowPhases'[r] = RowPhase(c, k)'
      /\ RowPlaces' = [RowPlaces EXCEPT ![r] = RowPlace(c, k)']
  BY <1>1, RowFrame
<1>3. RowPhases[r] = RowPhase(c, k) /\ RowPlaces[r] = RowPlace(c, k)
  BY <1>2 DEF RowPhases, RowPlaces
<1>4. RowLogs' = RowLogs
  BY DEF RowLogs, RowEntries
<1>5. RowsOf(c, k)' = RowsOf(c, k)
  BY DEF RowsOf
<1>6. RowPlaces' = RowPlaces
  <2>1. RowPlace(c, k)' = RowPlace(c, k)
    BY <1>5 DEF RowPlace
  <2> QED
    BY <1>2, <1>3, <2>1 DEF RowPlaces
<1>7. \/ RowPhase(c, k) = "new" /\ RowPhase(c, k)' = "open"
      \/ RowPhase(c, k) = "open" /\ RowPhase(c, k)' \in {"open", "failed", "gone"}
      \/ RowPhase(c, k) = "applied" /\ RowPhase(c, k)' = "gone"
  BY <1>0, <1>1 DEF CallMoves, RowPhase
<1> HIDE DEF r
<1>8. CASE RowPhase(c, k)' = RowPhase(c, k)
  <2>1. RowPhases' = RowPhases
    BY <1>2, <1>3, <1>8 DEF RowPhases
  <2> QED
    BY <1>4, <1>6, <2>1 DEF RowLog!vars
<1>9. CASE RowPhase(c, k) = "new" /\ RowPhase(c, k)' = "open"
  BY <1>2, <1>3, <1>4, <1>6, <1>9 DEF RowLog!Next, RowLog!Open, RowLog!Moves
<1>10. CASE RowPhase(c, k) = "open" /\ RowPhase(c, k)' = "failed"
  BY <1>2, <1>3, <1>4, <1>6, <1>10 DEF RowLog!Next, RowLog!Fail, RowLog!Moves
<1>11. CASE RowPhase(c, k) \in {"open", "applied"} /\ RowPhase(c, k)' = "gone"
  BY <1>2, <1>3, <1>4, <1>6, <1>11 DEF RowLog!Next, RowLog!GoAway, RowLog!Moves
<1> QED
  BY <1>7, <1>8, <1>9, <1>10, <1>11

\* The row that PutInsert commits is the next entry of its key.
LEMMA RowInsertAppends ==
  ASSUME GraphAssumption, CallsInv, UniqueRows(rows'), TableInv',
         NEW c \in Callers, CallInserts(c), NEW k \in Keys, put[c].key = k
  PROVE  /\ RowLog!Appends(k)
         /\ RowPlace(c, k)' = <<k, Len(RowLogs[k]) + 1>>
<1> DEFINE p == put[c]
           x == [key |-> k, version |-> p.next, pin |-> p.pin, blob |-> c]
           n == Latest(rows, k)
<1>0. p \in PutStates /\ PutKept(c, p) /\ OneCall(c) /\ TableInv /\ p.stage = "insert"
  BY CallsTyped DEF CallInserts
<1>1. rows' = rows \cup {x} /\ ~ Occupied(rows, k, p.next)
  BY DEF CallInserts, RowAllowed
<1>2. p.next \in Nat /\ 1 <= p.next /\ p.next <= n + 1
  BY <1>0 DEF PutKept, PutStates
<1>3. n \in Nat /\ DenseKey(rows, k)
  BY <1>0 DEF TableInv, RowHistoriesDense
<1>4. x.key = k /\ x.version = p.next /\ x.blob = c
  OBVIOUS
<1> HIDE DEF x
<1>5. p.next = n + 1 /\ Latest(rows', k) = n + 1
  <2>1. /\ DenseKey(rows, x.key) /\ Latest(rows, x.key) \in Nat
        /\ x.version \in Nat /\ 1 <= x.version /\ x.version <= Latest(rows, x.key) + 1
        /\ ~ Occupied(rows, x.key, x.version)
    BY <1>1, <1>2, <1>3, <1>4
  <2>2. /\ x.version = Latest(rows, x.key) + 1
        /\ Latest(rows \cup {x}, x.key) = Latest(rows, x.key) + 1
    BY <2>1, InsertNext
  <2> QED
    BY <1>1, <1>4, <2>2
<1>6. ASSUME NEW j \in Keys, NEW v \in 1 .. Latest(rows, j)
      PROVE  RowAt(rows', j, v) = RowAt(rows, j, v)
  <2>1. rows \subseteq rows' /\ Occupied(rows, j, v)
    BY <1>0, <1>1, <1>6, RowEntriesTyped
  <2> QED
    BY <2>1, RowAtKept
<1>7. ASSUME NEW j \in Keys, j # k PROVE RowEntries(j)' = RowEntries(j)
  <2>1. Latest(rows', j) = Latest(rows, j)
    BY <1>1, <1>4, <1>7, InsertElsewhere
  <2> QED
    BY <1>6, <2>1 DEF RowEntries
<1> DEFINE f == RowEntries(k)
           g == RowEntries(k)'
<1>8. f \in [1 .. n -> RowLogEntry]
  BY <1>0, RowEntriesTyped
<1>9. g \in [1 .. (n + 1) -> RowLogEntry]
  <2>1. \A v \in 1 .. Latest(rows', k) : Occupied(rows', k, v)
    BY DEF TableInv, RowHistoriesDense, DenseKey, Occupied
  <2>2. ASSUME NEW v \in 1 .. (n + 1)
        PROVE  RowEntry(RowAt(rows', k, v)) \in RowLogEntry
    <3>1. RowAt(rows', k, v) \in GraphRows
      BY <1>5, <2>1, RowAtStored DEF TableInv, GTypeOK
    <3> QED
      BY <3>1 DEF GraphRows, RowEntry, RowLogEntry
  <2> QED
    BY <1>5, <2>2 DEF RowEntries
<1>10. \A v \in 1 .. n : g[v] = f[v]
  BY <1>3, <1>5, <1>6 DEF RowEntries
<1> HIDE DEF f, g, n
<1>11. Len(f) = n /\ Len(g) = Len(f) + 1 /\ g[Len(f) + 1] \in RowLogEntry
       /\ g = Append(f, g[Len(f) + 1])
  BY <1>3, <1>8, <1>9, <1>10, LogAppend, LogTyped
<1>12. RowLogs[k] = f /\ RowLogs'[k] = g
  BY DEF RowLogs, f, g
<1>13. RowLogs' = [RowLogs EXCEPT ![k] = g]
  BY <1>7 DEF RowLogs, g
<1>14. RowLog!Appends(k)
  BY <1>11, <1>12, <1>13 DEF RowLog!Appends, RowLogEntry
<1>15. RowsOf(c, k)' = {x}
  BY <1>0, <1>1, <1>4 DEF OneCall, RowsOf
<1>16. RowPlace(c, k)' = <<k, n + 1>>
  BY <1>4, <1>5, <1>15 DEF RowPlace
<1> QED
  BY <1>11, <1>12, <1>14, <1>16

\* Every step of the tables and their writers is a step of the log or none.
LEMMA RowStepRefines ==
  ASSUME ModelAssumption, GraphAssumption, CallsInv, [GNext]_gvars
  PROVE  [RowLog!Next]_(RowLog!vars)
<1>1. CASE UNCHANGED <<rows, put>>
  BY <1>1 DEF RowLog!vars, RowLogs, RowPhases, RowPlaces, RowEntries, RowPhase, RowPlace,
     RowsOf
<1>2. ASSUME NEW c \in Callers, CallInserts(c) PROVE [RowLog!Next]_(RowLog!vars)
  <2>0. put \in [Callers -> PutStates] /\ put[c] \in PutStates /\ PutKept(c, put[c])
    BY CallsTyped
  <2>1. PICK k \in Keys : put[c].key = k
    BY <1>2, <2>0 DEF CallInserts, PutKept
  <2>2. /\ put'[c].key = k /\ put[c].stage = "insert" /\ put'[c].stage = "inserted"
        /\ \A d \in Callers \ {c} : put'[d] = put[d]
    BY <1>2, <2>0, <2>1 DEF CallInserts, PutStates
  <2>3. RowPhase(c, k) = "open" /\ RowPhase(c, k)' = "applied"
    BY <2>1, <2>2 DEF RowPhase
  <2> DEFINE r == <<c, k>>
  <2>4. /\ r \in Calls
        /\ RowPhases' = [RowPhases EXCEPT ![r] = "applied"] /\ RowPhases'[r] = "applied"
        /\ RowPlaces' = [RowPlaces EXCEPT ![r] = RowPlace(c, k)']
    BY <1>2, <2>2, <2>3, RowFrame
  <2>5. RowPhases[r] = "open"
    BY <2>3, <2>4 DEF RowPhases
  <2>6. TableInv' /\ UniqueRows(rows')
    BY ImportNext DEF CallsInv, ImportInv, TableInv, RowHistoriesDense
  <2>7. RowLog!Appends(k) /\ RowPlace(c, k)' = <<k, Len(RowLogs[k]) + 1>>
    BY <1>2, <2>1, <2>6, RowInsertAppends
  <2> HIDE DEF r
  <2>8. RowLog!Apply(r)
    BY <2>4, <2>5, <2>7 DEF RowLog!Apply, RowLog!Moves
  <2> QED
    BY <2>4, <2>8 DEF RowLog!Next
<1> QED
  BY <1>1, <1>2, CallSteps, RowMoveRefines

\* The empty tables are the empty log.
LEMMA RowInitRefines == ASSUME GraphAssumption, GInit PROVE RowLog!Init
<1>1. ASSUME NEW k \in Keys PROVE RowEntries(k) = <<>>
  <2>1. Latest(rows, k) = 0
    BY EmptyTable DEF GInit
  <2> QED
    BY <2>1 DEF RowEntries
<1>2. ASSUME NEW r \in Calls PROVE RowPhase(r[1], r[2]) = "new" /\ RowPlace(r[1], r[2]) = <<>>
  <2>1. r[1] \in Callers /\ r[2] \in Keys
    BY DEF Calls
  <2>2. put[r[1]].key # r[2] /\ RowsOf(r[1], r[2]) = {}
    BY <2>1 DEF GInit, GraphAssumption, RowsOf
  <2> QED
    BY <2>2 DEF RowPhase, RowPlace
<1> QED
  BY <1>1, <1>2 DEF RowLog!Init, RowLogs, RowPhases, RowPlaces

\* Whatever imports and requests race on the keys of the four tables, each table
\* is an append-only log per key to which each call of Put appends at most once.
THEOREM GraphImplementsLog == GSpec => RowTableIsALog
<1>1. GInit => CallsInv /\ RowLog!Init
  BY CallsInit, RowInitRefines, ModelAssumption, GraphAssumption
<1>2. CallsInv /\ [GNext]_gvars => CallsInv'
  BY CallsNext, ModelAssumption, GraphAssumption
<1>3. CallsInv /\ [GNext]_gvars => [RowLog!Next]_(RowLog!vars)
  BY RowStepRefines, ModelAssumption, GraphAssumption
<1> QED
  BY <1>1, <1>2, <1>3, PTL DEF GSpec, RowTableIsALog, RowLog!Spec

----------------------------------------------------------------------------
(* The table of model versions beside the graph tables.                    *)

\* The imports' own INSERTs into model_versions keep the table a log per lineage.
THEOREM GraphModelLog == GSpec => ModelTableIsALog
<1>1. GInit => MInit
  BY DEF GInit
<1> QED
  BY <1>1, GraphModelStep, ModelTableKeeps, PTL DEF GSpec
=============================================================================
