----------------------------- MODULE Templates -----------------------------
(***************************************************************************)
(* Templates, from source to registry.  A Builder's machine compiles a     *)
(* pack's template declarations against a core pack and flattens each      *)
(* chain (content/lang/template.go); the server never flattens, it only    *)
(* checks what it is sent (server/sim/template.go), and it checks a        *)
(* Template against its parent alone.  Core moves on under packs that were *)
(* compiled against an older one.                                          *)
(*                                                                         *)
(* A ref is <<pack, name>>.  A component set maps component types to the   *)
(* values of the fields it states; text, positions and wording are left    *)
(* out, a finding is its code.                                             *)
(***************************************************************************)
EXTENDS Naturals, Sequences, FiniteSets, SequencesExt, TLC

CONSTANTS MaxChainDepth,   \* sim.MaxChainDepth (16 in the code)
          CoreSources,     \* the declarations of andara.core, by version
          PackSources      \* the packs a Builder may write: sequences of declarations

ASSUME ChainDepthAssumption == MaxChainDepth \in Nat \ {0}

VARIABLES source,    \* [decls, core]: the pack a Builder has, and the core it requires
          compiled,  \* [ok, defs, codes]: what the compiler made of it, or Uncompiled
          upload,    \* the definitions the server is sent as that version
          coreNow,   \* the version of core in effect
          registry   \* the definitions in effect: core's and, once loaded, the pack's

templateVars == <<source, compiled, upload, coreNow, registry>>

Own == "town"
CorePack == "andara.core"

(* The component registry of the server: c has one field f of kind int, d  *)
(* is a marker; type u is not registered, and the value 0 of f is of the   *)
(* wrong kind.                                                             *)
KnownComponent(t) == t \in {"c", "d"}
FieldKindIs(v) == v # 0

NoFields == [f \in {} |-> 0]
NoProvenance == [f \in {} |-> <<>>]
Uncompiled == [ok |-> FALSE, defs |-> {}, codes |-> {}]

Pick(defs, ref) == CHOOSE d \in defs : d.name = ref
Named(defs) == {d.name : d \in defs}

-----------------------------------------------------------------------------
(* The compiler: resolve, then flatten.                                    *)

\* The declarations of the pack by ref, the first of two of one name kept.
ByRef(decls, own) ==
    [r \in {<<own, decls[i].name>> : i \in DOMAIN decls} |->
        decls[CHOOSE i \in DOMAIN decls :
                /\ decls[i].name = r[2]
                /\ \A j \in 1..(i - 1) : decls[j].name # r[2]]]

\* The parent an `extends` names, in the pack itself or in core: none or one.
ResolveExtends(head, by, own, core) ==
    {r \in {<<IF head.of = "own" THEN own ELSE CorePack, head.extends>>} :
        CASE head.of = "own"  -> r \in DOMAIN by
          [] head.of = "core" -> r \in Named(core)
          [] OTHER            -> FALSE}

\* A declaration states its kind or what it extends, and not both.
IsRoot(d) == d.head.extends = "" /\ d.head.kind # ""
IsSubtype(d) == d.head.extends # "" /\ d.head.kind = ""

\* The declarations that are their own ancestor within the pack.
InCycle(by, own, core) ==
    LET climb[n \in 0..MaxChainDepth] ==
          [r \in DOMAIN by |->
             IF n = 0 THEN {}
             ELSE LET up == IF IsSubtype(by[r])
                            THEN ResolveExtends(by[r].head, by, own, core) \cap DOMAIN by ELSE {}
                  IN up \cup UNION {climb[n - 1][p] : p \in up}]
    IN {r \in DOMAIN by : r \in climb[MaxChainDepth][r]}

(* The chain of each declaration, root first and itself last; empty where  *)
(* there is none: an ancestor with a bad head, one that does not resolve,  *)
(* or a cycle, which never reaches a root.                                 *)
Chains(by, own, core) ==
    LET up[n \in 0..(MaxChainDepth + 2)] ==
          [r \in DOMAIN by |->
             IF n = 0 THEN <<>>
             ELSE IF IsRoot(by[r]) THEN <<r>>
             ELSE IF ~IsSubtype(by[r]) THEN <<>>
             ELSE LET parents == ResolveExtends(by[r].head, by, own, core)
                      p == CHOOSE q \in parents : TRUE
                  IN IF parents = {} THEN <<>>
                     ELSE IF p \notin DOMAIN by THEN Append(Pick(core, p).chain, r)
                     ELSE IF up[n - 1][p] = <<>> THEN <<>>
                     ELSE Append(up[n - 1][p], r)]
    IN up[MaxChainDepth + 2]

\* What one declaration states, less what is refused: unregistered types and
\* fields whose value is not of the declared kind.
BuildComponents(comps) ==
    [t \in {u \in DOMAIN comps : KnownComponent(u)} |->
        [f \in {g \in DOMAIN comps[t] : FieldKindIs(comps[t][g])} |-> comps[t][f]]]

Refuses(comps) ==
    (IF \E t \in DOMAIN comps : ~KnownComponent(t) THEN {"unknown_component"} ELSE {})
    \cup (IF \E t \in DOMAIN comps : \E f \in DOMAIN comps[t] : ~FieldKindIs(comps[t][f])
          THEN {"invalid_component_field"} ELSE {})

Fields(comps) == {x \in {"c", "d", "u"} \X {"f"} : x[1] \in DOMAIN comps /\ x[2] \in DOMAIN comps[x[1]]}

\* The nearer declaration overrides a field and never removes a component.
MergeComponent(merged, comps, setter) ==
    [comps |-> [t \in DOMAIN merged.comps \cup DOMAIN comps |->
                  (IF t \in DOMAIN comps THEN comps[t] ELSE NoFields)
                  @@ (IF t \in DOMAIN merged.comps THEN merged.comps[t] ELSE NoFields)],
     prov |-> setter @@ merged.prov]

(* A Template merged down its chain.  An ancestor of core comes flattened, *)
(* so its fields keep the setter core recorded for them.                   *)
Flatten(chain, by, core) ==
    LET step(merged, r) ==
          IF r \in DOMAIN by
          THEN LET stated == BuildComponents(by[r].comps)
               IN MergeComponent(merged, stated, [tf \in Fields(stated) |-> r])
          ELSE MergeComponent(merged, Pick(core, r).comps, Pick(core, r).prov)
    IN FoldLeft(step, [comps |-> [t \in {} |-> NoFields], prov |-> NoProvenance], chain)

\* Mutant: a subtype's kind is read from its own declaration.
KindOfSelf(chain, by, core) ==
    IF chain[Len(chain)] \in DOMAIN by THEN by[chain[Len(chain)]].head.kind
    ELSE Pick(core, chain[1]).kind

KindOf(chain, by, core) ==
    IF chain[1] \in DOMAIN by THEN by[chain[1]].head.kind ELSE Pick(core, chain[1]).kind

BuildTemplate(r, chain, by, core) ==
    LET flat == Flatten(chain, by, core)
    IN [name |-> r, kind |-> KindOf(chain, by, core), chain |-> chain,
        comps |-> flat.comps, prov |-> flat.prov]

\* Compile: every finding is collected, and any refuses the whole pack.
CompilePack(decls, own, core) ==
    LET by == ByRef(decls, own)
        chains == Chains(by, own, core)
        fits == {r \in DOMAIN by : Len(chains[r]) \in 1..MaxChainDepth}
        codes == (UNION {Refuses(by[r].comps) : r \in fits})
                 \cup (IF Len(decls) > Cardinality(DOMAIN by) THEN {"duplicate_template"} ELSE {})
                 \cup (IF InCycle(by, own, core) # {} THEN {"extends_cycle"} ELSE {})
                 \cup (IF \E r \in DOMAIN by : Len(chains[r]) > MaxChainDepth THEN {"chain_too_deep"} ELSE {})
                 \cup (IF \E r \in DOMAIN by : ~IsRoot(by[r]) /\ ~IsSubtype(by[r]) THEN {"template_head"} ELSE {})
                 \cup (IF \E r \in DOMAIN by : IsSubtype(by[r]) /\ ResolveExtends(by[r].head, by, own, core) = {}
                       THEN {"unresolved_extends"} ELSE {})
                 \cup (IF \E r \in fits : by[r].removes THEN {"removed_by_subtype"} ELSE {})
    IN IF codes # {} THEN [ok |-> FALSE, defs |-> {}, codes |-> codes]
       ELSE [ok |-> TRUE, codes |-> {},
             defs |-> {BuildTemplate(r, chains[r], by, core) : r \in DOMAIN by}]

\* The compiled core packs, embedded in andara-cli and published by the server.
CoreDefs == [v \in DOMAIN CoreSources |-> CompilePack(CoreSources[v], CorePack, {}).defs]
CoreAt(v) == CoreDefs[v]

-----------------------------------------------------------------------------
(* Decompile: the declarations a compiled pack would have been written as. *)

\* Mutant: a field is the Template's own when its parent does not carry it.
OwnFieldsByParent(def, parent) == Fields(def.comps) \ Fields(parent.comps)

\* A field is the Template's own when its provenance says so.
OwnFields(def, parent) == {tf \in DOMAIN def.prov : def.prov[tf] = def.name}

TemplateToAST(def, all) ==
    LET parent == IF Len(def.chain) = 1 THEN Uncompiled @@ [comps |-> [t \in {} |-> NoFields]]
                  ELSE Pick(all, def.chain[Len(def.chain) - 1])
        own == OwnFields(def, parent)
        said == {t \in DOMAIN def.comps :
                    t \notin DOMAIN parent.comps \/ \E f \in DOMAIN def.comps[t] : <<t, f>> \in own}
    IN [name |-> def.name[2],
        head |-> IF Len(def.chain) = 1 THEN [kind |-> def.kind, of |-> "own", extends |-> ""]
                 ELSE LET p == def.chain[Len(def.chain) - 1]
                      IN [kind |-> "", extends |-> p[2],
                          of |-> IF p[1] = def.name[1] THEN "own" ELSE "core"],
        comps |-> [t \in said |->
                     [f \in {g \in DOMAIN def.comps[t] : <<t, g>> \in own} |-> def.comps[t][f]]],
        removes |-> FALSE]

DecompilePack(defs, core) == SetToSeq({TemplateToAST(d, defs \cup core) : d \in defs})

-----------------------------------------------------------------------------
(* The server: what it is sent is checked, Template by Template and then   *)
(* each against its parent.                                                *)

ValidateTemplate(d) ==
    /\ d.kind # ""
    /\ d.chain # <<>>
    /\ d.chain[Len(d.chain)] = d.name
    /\ Len(d.chain) <= MaxChainDepth
    /\ IsInjective(d.chain)
    /\ Refuses(d.comps) = {}
    /\ \A tf \in DOMAIN d.prov :
          /\ tf \in Fields(d.comps)
          /\ \E i \in DOMAIN d.chain : d.chain[i] = d.prov[tf]

Carries(d, p) ==
    \A t \in DOMAIN p.comps : t \in DOMAIN d.comps /\ DOMAIN p.comps[t] \subseteq DOMAIN d.comps[t]

\* Mutant: the chain itself is not compared with the parent's.
ValidateChainLoose(d, defs) ==
    Len(d.chain) >= 2 =>
      LET ref == d.chain[Len(d.chain) - 1]
      IN /\ ref[1] \in {d.name[1], CorePack}
         /\ ref \in Named(defs)
         /\ Pick(defs, ref).kind = d.kind
         /\ Carries(d, Pick(defs, ref))

ValidateChain(d, defs) ==
    Len(d.chain) >= 2 =>
      LET ref == d.chain[Len(d.chain) - 1]
      IN /\ ref[1] \in {d.name[1], CorePack}
         /\ ref \in Named(defs)
         /\ d.chain = Append(Pick(defs, ref).chain, d.name)
         /\ Pick(defs, ref).kind = d.kind
         /\ Carries(d, Pick(defs, ref))

\* The registry is built, or nothing of it is.
BuildTemplates(defs) ==
    (\A d \in defs : ValidateTemplate(d)) /\ (\A d \in defs : ValidateChain(d, defs))

\* The server starts on a core that builds: it published it itself.
ASSUME CoreAssumption == 1 \in DOMAIN CoreSources /\ BuildTemplates(CoreAt(1))

-----------------------------------------------------------------------------
(* A definition that is not what the compiler wrote: the server takes blobs *)
(* from whoever may publish.                                               *)
Altered(d) ==
    {[d EXCEPT !.chain = <<d.name>>], [d EXCEPT !.kind = "item"],
     [d EXCEPT !.chain = SubSeq(d.chain, 2, Len(d.chain))]}
    \cup {[d EXCEPT !.chain = <<r>> \o d.chain] : r \in {<<CorePack, "X">>, <<CorePack, "Y">>, d.name}}
    \cup {[d EXCEPT !.comps = [t \in DOMAIN d.comps \ {u} |-> d.comps[t]],
                    !.prov = [tf \in {x \in DOMAIN d.prov : x[1] # u} |-> d.prov[tf]]] : u \in DOMAIN d.comps}

TemplatesInit ==
    /\ source \in [decls : PackSources, core : DOMAIN CoreSources]
    /\ compiled = Uncompiled
    /\ upload = {}
    /\ coreNow = 1
    /\ registry = CoreAt(1)

\* andara-cli compiles the pack against the core version it requires.
CompileSource ==
    /\ compiled = Uncompiled
    /\ compiled' = CompilePack(source.decls, Own, CoreAt(source.core))
    /\ upload' = compiled'.defs
    /\ UNCHANGED <<source, coreNow, registry>>

\* What is published is not what was compiled.
AlterUpload ==
    /\ upload # {} /\ upload = compiled.defs
    /\ \E d \in upload : \E e \in Altered(d) : upload' = (upload \ {d}) \cup {e}
    /\ UNCHANGED <<source, compiled, coreNow, registry>>

\* The pack's version is loaded over the core in effect, if it was compiled
\* against no newer one and the whole set builds.
LoadPack ==
    /\ upload # {}
    /\ source.core <= coreNow
    /\ BuildTemplates(CoreAt(coreNow) \cup upload)
    /\ registry' = CoreAt(coreNow) \cup upload
    /\ UNCHANGED <<source, compiled, upload, coreNow>>

\* Core moves, under the pack in effect, which it must neither break nor strand.
MoveCore ==
    \E v \in DOMAIN CoreSources \ {coreNow} :
      LET pack == {d \in registry : d.name[1] = Own}
      IN /\ pack # {} => source.core <= v
         /\ BuildTemplates(CoreAt(v) \cup pack)
         /\ coreNow' = v
         /\ registry' = CoreAt(v) \cup pack
         /\ UNCHANGED <<source, compiled, upload>>

TemplatesNext == CompileSource \/ AlterUpload \/ LoadPack \/ MoveCore

TemplatesSpec == TemplatesInit /\ [][TemplatesNext]_templateVars

-----------------------------------------------------------------------------
\* What each variable holds.
TemplatesTypeOK ==
    /\ source.core \in DOMAIN CoreSources /\ coreNow \in DOMAIN CoreSources
    /\ compiled.ok => compiled.codes = {} /\ compiled.defs # {}
    /\ \A d \in registry \cup upload : d.name[1] \in {Own, CorePack} /\ d.kind \in {"", "entity", "item"}

(* The server checks a Template against its parent only (validateChain).   *)
(* Whatever was sent and however core has moved, a Template in effect      *)
(* still carries every component and every field of every ancestor in its  *)
(* chain, each of them in effect, of its kind, and in its own pack or in   *)
(* core.                                                                   *)
AncestorsKept ==
    \A d \in registry : \A i \in DOMAIN d.chain :
      /\ d.chain[i] \in Named(registry)
      /\ d.chain[i][1] \in {d.name[1], CorePack}
      /\ Pick(registry, d.chain[i]).kind = d.kind
      /\ Carries(d, Pick(registry, d.chain[i]))

(* What the compiler accepts against a core, the server accepts over that  *)
(* core: flattening on the Builder's machine and checking on the server    *)
(* are two programs.                                                       *)
CompilerAgrees ==
    compiled.ok => BuildTemplates(CoreAt(source.core) \cup compiled.defs)

(* A compiled pack decompiles to source that compiles to the same          *)
(* definitions, provenance included.                                       *)
RoundTrips ==
    compiled.ok =>
      CompilePack(DecompilePack(compiled.defs, CoreAt(source.core)), Own, CoreAt(source.core)) = compiled
=============================================================================
