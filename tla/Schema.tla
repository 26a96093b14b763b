------------------------------- MODULE Schema -------------------------------
(***************************************************************************)
(* The definitions of a team: object types, attributes, relation types,    *)
(* attribute groups and pipelines (schema/mutate.ts, derived-attributes.ts,*)
(* evolution.ts, attribute-groups.ts, system-attributes.ts, pipeline/      *)
(* manage.ts, templates/apply.ts), and the schema a process loads and      *)
(* caches from them (load.ts).                                             *)
(*                                                                         *)
(* A definition transaction takes no lock before it bumps the team's       *)
(* version at its end, so each is two steps: Begin reads and checks,       *)
(* Commit writes.  A write whose unique key is taken or whose WHERE finds  *)
(* no row any more rejects the transaction.  A batch (an object with its   *)
(* attributes, a template, the system attributes) reads as it writes.      *)
(***************************************************************************)
EXTENDS Team, Integers, FiniteSets, SequencesExt

CONSTANTS
    Rejected,
    Objects, Slugs, Relations, Groups, Pipelines, Options,
    Loaders,
    Starts,      \* the tables a team may start with
    Template,    \* [objects, relations, attributes, primary] of a template
    Calls,       \* the definition calls made
    Held,        \* the options live records hold: [Objects \X Slugs -> set]
    Degree,      \* most links of one record: [Relations -> Nat]
    MaxCalls, MaxLoads, Attempts      \* bounds; LOAD_ATTEMPTS

Cells == Objects \X Slugs

\* The rows of the tables, and what calls may ask for.
Statuses == {"absent", "active", "archived"}
AttributeKinds == {"stored", "reference", "derived"}
AttributeRows == [status : Statuses, kind : AttributeKinds, multi : BOOLEAN, options : SUBSET Options,
                  retired : SUBSET Options, sources : SUBSET Slugs, group : Groups \cup {None}]
RelationRows == [status : Statuses, from : Objects \cup {None}, to : Objects \cup {None}, many : BOOLEAN,
                 claim : Slugs \cup {None}, bound : Nat \cup {None}]
GroupRows == [status : Statuses, of : Objects \cup {None}, at : Nat]
PipelineRows == [of : Objects \cup {None}, default : BOOLEAN]
TableStates == [object : [Objects -> Statuses], primary : [Objects -> Slugs \cup {None}], attr : [Cells -> AttributeRows],
                rel : [Relations -> RelationRows], group : [Groups -> GroupRows],
                pipe : [Pipelines -> PipelineRows], lists : Nat]
AttributeDefs == [of : Objects, slug : Slugs, kind : AttributeKinds, multi : BOOLEAN, rel : Relations, to : Objects,
                  options : SUBSET Options, sources : SUBSET Slugs]
RelationDefs == [slug : Relations, from : Objects \cup {None}, to : Objects \cup {None}, many : BOOLEAN]
DefinitionCalls ==
    [kind : {"object"}, of : Objects, ds : Seq(AttributeDefs), primary : Slugs \cup {None}]
    \cup [kind : {"archiveObject"}, of : Objects]
    \cup [kind : {"primary"}, of : Objects, slug : Slugs \cup {None}]
    \cup [kind : {"attribute", "derived"}, d : AttributeDefs]
    \cup [kind : {"evolve"}, of : Objects, slug : Slugs, options : (SUBSET Options) \cup {None}, recompute : BOOLEAN]
    \cup [kind : {"archiveAttribute"}, of : Objects, slug : Slugs]
    \cup [kind : {"rederive"}, of : Objects, slug : Slugs, sources : SUBSET Slugs]
    \cup [kind : {"system"}, of : Objects, ds : Seq(AttributeDefs)]
    \cup [kind : {"relation"}, d : RelationDefs]
    \cup [kind : {"updateRelation"}, slug : Relations, many : BOOLEAN, bound : Nat \cup {None}]
    \cup [kind : {"archiveRelation"}, slug : Relations]
    \cup [kind : {"template", "list"}]
    \cup [kind : {"group"}, slug : Groups, of : Objects, members : SUBSET Slugs]
    \cup [kind : {"reorder"}, of : Objects, order : Seq(Groups)]
    \cup [kind : {"archiveGroup"}, slug : Groups]
    \cup [kind : {"pipeline"}, slug : Pipelines, of : Objects, default : BOOLEAN]
    \cup [kind : {"updatePipeline"}, slug : Pipelines, default : BOOLEAN]

VARIABLES
    tables,     \* the committed definitions
    version,    \* teams.schema_version
    changes,    \* the schema_change rows: [version -> the types they name]
    jobs,       \* the jobs the definitions enqueued
    tx,         \* definition transactions between their reads and their commit
    cache,      \* the process's cached schema
    load,       \* loads in progress
    spent       \* [calls, loads] so far

vars == <<tables, version, changes, jobs, tx, cache, load, spent>>

NoAttribute == [status |-> "absent", kind |-> "stored", multi |-> FALSE, options |-> {}, retired |-> {},
                sources |-> {}, group |-> None]
NoRelation == [status |-> "absent", from |-> None, to |-> None, many |-> TRUE, claim |-> None, bound |-> None]
NoGroup == [status |-> "absent", of |-> None, at |-> 0]
NoPipeline == [of |-> None, default |-> FALSE]

Active(m, o) == m.object[o] = "active"
ActiveAt(m, a) == m.attr[a].status = "active"
Related(m, r) == m.rel[r].status = "active"

\* Which relations a reference attribute owns.  What a team starts with has one for each, and a claim
\* for nothing else; its groups hold attributes of their own type.  A derived attribute is no reference,
\* and system attributes are none and are of the one type they are ensured for.
Owns(m, r, a) == m.rel[r].from = a[1] /\ m.rel[r].claim = a[2]
Backs(m) ==
    \A a \in Cells : LET own == {r \in Relations : Owns(m, r, a)}
                     IN  IF m.attr[a].status # "absent" /\ m.attr[a].kind = "reference" THEN Cardinality(own) = 1 ELSE own = {}
ASSUME SchemaAssumption ==
    /\ None \notin Objects \cup Slugs \cup Groups /\ Rejected \notin TableStates
    /\ IsFiniteSet(Relations) /\ IsFiniteSet(Groups)
    /\ Starts \subseteq TableStates
    /\ \A m \in Starts : Backs(m) /\ \A r \in Relations : m.rel[r].status = "absent" => m.rel[r].claim = None
    /\ \A m \in Starts : /\ \A g \in Groups : m.group[g].status = "absent" => m.group[g].of = None
                         /\ \A a \in Cells : m.attr[a].group # None => m.group[m.attr[a].group].of = a[1]
    /\ \A call \in Calls : /\ call.kind = "derived" => call.d.kind = "derived"
                           /\ call.kind = "system" => \A i \in DOMAIN call.ds : /\ call.ds[i].of = call.of
                                                                               /\ call.ds[i].kind # "reference"
    /\ Calls \subseteq DefinitionCalls /\ Held \in [Cells -> SUBSET Options]
    /\ Template \in [objects : Seq(Objects), relations : Seq(RelationDefs), attributes : Seq(AttributeDefs),
                     primary : [Objects -> Slugs \cup {None}]]

Init ==
    /\ tables \in Starts
    /\ version = 0
    /\ changes = <<>>
    /\ jobs = {}
    /\ tx = [c \in Callers |-> None]
    /\ cache = None
    /\ load = [l \in Loaders |-> None]
    /\ spent = [calls |-> 0, loads |-> 0]

-----------------------------------------------------------------------------
(* What the calls write: the tables, or Rejected *)

\* defineObjectTypeInternal: the slug is unique, archived types included.
AddObject(m, o) ==
    IF m # Rejected /\ m.object[o] = "absent" THEN [m EXCEPT !.object[o] = "active"] ELSE Rejected

\* resolvePrimaryAttribute, updateObjectTypeInternal.
SetPrimary(m, o, s) ==
    IF m # Rejected /\ (s # None => ActiveAt(m, <<o, s>>) /\ ~m.attr[<<o, s>>].multi)
    THEN [m EXCEPT !.primary[o] = s] ELSE Rejected

\* defineRelationTypeInternal.
AddRelation(m, d) ==
    IF m # Rejected /\ m.rel[d.slug].status = "absent" /\ \A o \in {d.from, d.to} \ {None} : Active(m, o)
    THEN [m EXCEPT !.rel[d.slug] = [NoRelation EXCEPT !.status = "active", !.from = d.from, !.to = d.to,
                                                      !.many = d.many]]
    ELSE Rejected

\* Mutant: a claim does not ask whether the relation has an owner by now.
TakeRelation(m, r, s) == IF Related(m, r) THEN [m EXCEPT !.rel[r].claim = s] ELSE Rejected

\* The updateMany of a claim: only while the relation is active and unclaimed.
ClaimRelation(m, r, s) ==
    IF Related(m, r) /\ m.rel[r].claim = None THEN [m EXCEPT !.rel[r].claim = s] ELSE Rejected

\* ensureBackingRelation: `seen` is what the transaction read.
EnsureBacking(seen, m, o, s, d) ==
    LET found == seen.rel[d.rel]
    IN  IF d.kind # "reference" THEN m
        ELSE IF ~Active(seen, d.to) THEN Rejected
        ELSE IF Related(seen, d.rel)
        THEN IF <<found.from, found.to, found.many>> # <<o, d.to, d.multi>> THEN Rejected
             ELSE IF found.claim = None THEN ClaimRelation(m, d.rel, s)
             ELSE IF found.claim = s THEN m ELSE Rejected
        ELSE IF m.rel[d.rel].status # "absent" THEN Rejected
        ELSE [m EXCEPT !.rel[d.rel] = [NoRelation EXCEPT !.status = "active", !.from = o, !.to = d.to,
                                                         !.many = d.multi, !.claim = s]]

\* defineAttributeInternal: the slug is unique within its type, archived ones included.
AddAttribute(seen, m, d) ==
    LET o == d.of
        cell == <<o, d.slug>>
    IN  IF m = Rejected THEN Rejected
        ELSE IF ~Active(seen, o) \/ m.attr[cell].status # "absent" THEN Rejected
        ELSE EnsureBacking(seen, [m EXCEPT !.attr[cell] =
                 [NoAttribute EXCEPT !.status = "active", !.kind = d.kind, !.multi = d.multi,
                                     !.options = d.options, !.sources = d.sources]], o, d.slug, d)

\* A batch defines what its first reads did not find: one definition after the other.
AddAttributes(m, ds, known) ==
    LET after[i \in 0 .. Len(ds)] ==
            IF i = 0 THEN m
            ELSE IF <<ds[i].of, ds[i].slug>> \in known THEN after[i - 1]
            ELSE AddAttribute(after[i - 1], after[i - 1], ds[i])
    IN  after[Len(ds)]
AddObjects(m, os) ==
    LET after[i \in 0 .. Len(os)] ==
            IF i = 0 THEN m ELSE IF Active(m, os[i]) THEN after[i - 1] ELSE AddObject(after[i - 1], os[i])
    IN  after[Len(os)]
AddRelations(m, ds, known) ==
    LET after[i \in 0 .. Len(ds)] ==
            IF i = 0 THEN m ELSE IF ds[i].slug \in known THEN after[i - 1] ELSE AddRelation(after[i - 1], ds[i])
    IN  after[Len(ds)]
SetPrimaries(m, os, known) ==
    LET after[i \in 0 .. Len(os)] ==
            IF i = 0 THEN m ELSE IF os[i] \in known THEN after[i - 1]
            ELSE SetPrimary(after[i - 1], os[i], Template.primary[os[i]])
    IN  after[Len(os)]

\* defineObjectTypeWithAttributes.
AddWhole(m, o, ds, primary) ==
    LET whole == AddAttributes(AddObject(m, o), ds, {})
    IN  IF primary = None THEN whole ELSE SetPrimary(whole, o, primary)

\* ensureSystemAttributes: those the type lacks; an archived or other one of the name refuses.
AddMissing(m, ds) ==
    IF \A i \in DOMAIN ds : LET a == m.attr[<<ds[i].of, ds[i].slug>>] IN
           a.status = "absent" \/ (a.status = "active" /\ <<a.kind, a.multi>> = <<ds[i].kind, ds[i].multi>>)
    THEN AddAttributes(m, ds, {a \in Cells : m.attr[a].status # "absent"}) ELSE Rejected

\* applyTemplateBatch: what is not there as active is defined; existing rows are left.
ApplyTemplate(m) ==
    LET objects == AddObjects(m, Template.objects)
        relations == AddRelations(objects, Template.relations, {r \in Relations : Related(m, r)})
        attributes == AddAttributes(relations, Template.attributes, {a \in Cells : ActiveAt(m, a)})
    IN  SetPrimaries(attributes, Template.objects, {o \in Objects : Active(m, o)})

\* updateAttribute, prepareAttributeEvolution: options are merged into those the
\* transaction read, whatever committed since, and None leaves them as read; a change
\* of options in use needs the caller's word, and one held is retired, not dropped.
Evolves(seen, cell, options) == options \notin {None, seen.attr[cell].options}
Evolve(seen, m, cell, options, recompute) ==
    LET a == seen.attr[cell]
        retired == ((a.options \cup a.retired) \cap Held[cell]) \ options
    IN  IF Evolves(seen, cell, options) /\ Held[cell] # {} /\ ~recompute THEN Rejected
        ELSE IF options = None
        THEN [m EXCEPT !.attr[cell].options = a.options, !.attr[cell].retired = a.retired]
        ELSE [m EXCEPT !.attr[cell].options = options, !.attr[cell].retired = retired]

\* dependsOn: what a derived attribute reads of its own record, and what that reads.
Reads(m, o, S) ==
    LET reach[n \in 0 .. Cardinality(Slugs)] ==
            IF n = 0 THEN S
            ELSE reach[n - 1] \cup UNION {m.attr[<<o, s>>].sources : s \in reach[n - 1]}
    IN  reach[Cardinality(Slugs)]
NoCycle(m, o, s, sources) ==
    /\ \A t \in sources : ActiveAt(m, <<o, t>>)
    /\ s \notin Reads(m, o, sources)

\* nextPosition, defineAttributeGroup: positions are unique, archived groups included.
NextPosition(m, o) == Cardinality({g \in Groups : m.group[g].of = o})
AddGroup(seen, m, g, o, S) ==
    LET at == NextPosition(seen, o)
    IN  IF \/ m.group[g].status # "absent"
           \/ \E h \in Groups : m.group[h].of = o /\ m.group[h].at = at
           \/ \E s \in S : ~ActiveAt(m, <<o, s>>)
        THEN Rejected
        ELSE [m EXCEPT !.group[g] = [status |-> "active", of |-> o, at |-> at],
                       !.attr = [a \in Cells |-> IF a[1] = o /\ a[2] \in S
                                                  THEN [m.attr[a] EXCEPT !.group = g] ELSE m.attr[a]]]

\* reorderAttributeGroups: positions 0, 1, ... to the groups that were active.
Reorder(m, o, order) ==
    LET at(g) == CHOOSE i \in DOMAIN order : order[i] = g
    IN  IF \E g \in Groups \ ToSet(order) : m.group[g].of = o /\ m.group[g].at < Len(order)
        THEN Rejected
        ELSE [m EXCEPT !.group = [g \in Groups |-> IF g \in ToSet(order)
                                                    THEN [m.group[g] EXCEPT !.at = at(g) - 1] ELSE m.group[g]]]

ArchiveGroup(m, g) ==
    [m EXCEPT !.group[g].status = "archived",
              !.attr = [a \in Cells |-> IF m.attr[a].group = g
                                         THEN [m.attr[a] EXCEPT !.group = None] ELSE m.attr[a]]]

\* clearDefault, then the write: one default per type is a unique index.
ClearDefault(seen, m, o) ==
    [m EXCEPT !.pipe = [p \in Pipelines |-> IF seen.pipe[p].of = o /\ seen.pipe[p].default
                                             THEN [m.pipe[p] EXCEPT !.default = FALSE] ELSE m.pipe[p]]]
PutPipeline(seen, m, p, o, default) ==
    LET cleared == IF default THEN ClearDefault(seen, m, o) ELSE m
    IN  IF default /\ \E q \in Pipelines \ {p} : cleared.pipe[q] = [of |-> o, default |-> TRUE]
        THEN Rejected ELSE [cleared EXCEPT !.pipe[p] = [of |-> o, default |-> default]]

\* relationSchemaObjects, attributeSchemaObjects: the types an event names.
RelationObjects(m, r) ==
    LET ends == {m.rel[r].from, m.rel[r].to}
    IN  {o \in Objects : Active(m, o) /\ (None \in ends \/ o \in ends)}
AttributeObjects(m, o, s) ==
    LET backing == {r \in Relations : Related(m, r) /\ m.rel[r].from = o /\ m.rel[r].claim = s}
    IN  IF backing = {} THEN {o} ELSE UNION {RelationObjects(m, r) : r \in backing}

-----------------------------------------------------------------------------
(* Definition transactions *)

\* What a call's first reads ask for.
MayBegin(m, call) ==
    CASE call.kind \in {"object", "list", "template"} -> TRUE
      [] call.kind \in {"archiveObject", "primary", "system", "group", "pipeline"} -> Active(m, call.of)
      [] call.kind = "attribute" -> Active(m, call.d.of)
      [] call.kind = "derived" -> Active(m, call.d.of) /\ NoCycle(m, call.d.of, call.d.slug, call.d.sources)
      [] call.kind = "rederive" ->
            /\ Active(m, call.of) /\ ActiveAt(m, <<call.of, call.slug>>)
            /\ m.attr[<<call.of, call.slug>>].kind = "derived"
            /\ NoCycle(m, call.of, call.slug, call.sources)
      [] call.kind \in {"evolve", "archiveAttribute"} ->
            Active(m, call.of) /\ ActiveAt(m, <<call.of, call.slug>>)
      [] call.kind = "relation" -> \A o \in {call.d.from, call.d.to} \ {None} : Active(m, o)
      [] call.kind = "updateRelation" ->
            /\ Related(m, call.slug)
            /\ m.rel[call.slug].claim # None => call.many = m.rel[call.slug].many
            /\ call.bound # None => Degree[call.slug] <= call.bound
      [] call.kind = "archiveRelation" -> Related(m, call.slug)
      [] call.kind = "reorder" ->
            /\ Active(m, call.of)
            /\ ToSet(call.order) = {g \in Groups : m.group[g].of = call.of /\ m.group[g].status = "active"}
      [] call.kind = "archiveGroup" -> m.group[call.slug].status = "active" /\ Active(m, m.group[call.slug].of)
      [] call.kind = "updatePipeline" -> m.pipe[call.slug].of # None /\ Active(m, m.pipe[call.slug].of)

\* runSchemaDefine: the transaction begins and reads.
Begin(c, call) ==
    /\ tx[c] = None
    /\ spent.calls < MaxCalls
    /\ MayBegin(tables, call)
    /\ tx' = [tx EXCEPT ![c] = [call |-> call, saw |-> tables]]
    /\ spent' = [spent EXCEPT !.calls = @ + 1]
    /\ UNCHANGED <<tables, version, changes, jobs, cache, load>>

\* A write was rejected, or the process went away: nothing happened.
Abort(c) ==
    /\ tx[c] # None
    /\ tx' = [tx EXCEPT ![c] = None]
    /\ UNCHANGED <<tables, version, changes, jobs, cache, load, spent>>

Doing(c, kind) == tx[c] # None /\ tx[c].call.kind = kind

\* Mutant: the tables change under the version they had.
WriteOnly(c, m, named, more) ==
    /\ m # Rejected
    /\ tables' = m
    /\ jobs' = jobs \cup more
    /\ tx' = [tx EXCEPT ![c] = None]
    /\ UNCHANGED <<version, changes, cache, load, spent>>

\* bumpSchemaVersion and the commit: definitions, version and events together.
Finish(c, m, named, more) ==
    /\ m # Rejected
    /\ tables' = m
    /\ version' = version + 1
    /\ changes' = Append(changes, named)
    /\ jobs' = jobs \cup more
    /\ tx' = [tx EXCEPT ![c] = None]
    /\ UNCHANGED <<cache, load, spent>>

\* A template or a set of system attributes that adds nothing bumps nothing.
NothingToAdd(c) ==
    /\ \/ Doing(c, "template") /\ ApplyTemplate(tables) = tables
       \/ Doing(c, "system") /\ AddMissing(tables, tx[c].call.ds) = tables
    /\ tx' = [tx EXCEPT ![c] = None]
    /\ UNCHANGED <<tables, version, changes, jobs, cache, load, spent>>

\* evolution's jobs; the backfill of a derived attribute.
Reindex(cell) == IF Held[cell] = {} THEN {} ELSE {<<"record.reindex", cell>>}
Recompute(cell) == {<<"schema.key_recompute", cell>>}
Backfill(o, s) == {<<"derived.refresh", <<o, s>>>>}

DefineObject(c) ==
    /\ Doing(c, "object")
    /\ LET call == tx[c].call IN
       Finish(c, AddWhole(tables, call.of, call.ds, call.primary), {call.of}, {})

ArchiveObject(c) ==
    /\ Doing(c, "archiveObject")
    /\ LET o == tx[c].call.of IN
       Finish(c, [tables EXCEPT !.object[o] = "archived"], {o}, {})

UpdateObject(c) ==
    /\ Doing(c, "primary")
    /\ LET call == tx[c].call IN
       Finish(c, SetPrimary(tables, call.of, call.slug), {call.of}, {})

\* Mutant: the event names the type of the attribute only.
DefineAttributeQuietly(c) ==
    /\ Doing(c, "attribute")
    /\ LET d == tx[c].call.d IN
       Finish(c, AddAttribute(tx[c].saw, tables, d), {d.of}, {})

DefineAttribute(c) ==
    /\ Doing(c, "attribute")
    /\ LET d == tx[c].call.d
           m == AddAttribute(tx[c].saw, tables, d)
       IN  m # Rejected /\ Finish(c, m, AttributeObjects(m, d.of, d.slug), {})

UpdateAttribute(c) ==
    /\ Doing(c, "evolve")
    /\ LET call == tx[c].call
           cell == <<call.of, call.slug>>
           seen == tx[c].saw
           m == Evolve(seen, tables, cell, call.options, call.recompute)
       IN  Finish(c, m, {call.of},
                  IF ~Evolves(seen, cell, call.options) THEN {}
                  ELSE Reindex(cell) \cup (IF Held[cell] = {} THEN {} ELSE Recompute(cell)))

ArchiveAttribute(c) ==
    /\ Doing(c, "archiveAttribute")
    /\ LET cell == <<tx[c].call.of, tx[c].call.slug>> IN
       Finish(c, [tables EXCEPT !.attr[cell].status = "archived"], {cell[1]}, Reindex(cell))

DefineDerived(c) ==
    /\ Doing(c, "derived")
    /\ LET d == tx[c].call.d IN
       Finish(c, AddAttribute(tx[c].saw, tables, d), {d.of}, Backfill(d.of, d.slug))

UpdateDerived(c) ==
    /\ Doing(c, "rederive")
    /\ LET call == tx[c].call IN
       Finish(c, [tables EXCEPT !.attr[<<call.of, call.slug>>].sources = call.sources], {call.of},
              Backfill(call.of, call.slug))

EnsureSystemAttributes(c) ==
    /\ Doing(c, "system")
    /\ AddMissing(tables, tx[c].call.ds) # tables
    /\ Finish(c, AddMissing(tables, tx[c].call.ds), {tx[c].call.of}, {})

DefineRelation(c) ==
    /\ Doing(c, "relation")
    /\ LET d == tx[c].call.d
           m == AddRelation(tables, d)
       IN  m # Rejected /\ Finish(c, m, RelationObjects(m, d.slug), {})

UpdateRelation(c) ==
    /\ Doing(c, "updateRelation")
    /\ LET call == tx[c].call
           m == [tables EXCEPT !.rel[call.slug].many = call.many, !.rel[call.slug].bound = call.bound]
       IN  Finish(c, m, RelationObjects(m, call.slug), {})

\* archiveRelationType: nothing asks whether an attribute owns the relation.
ArchiveRelation(c) ==
    /\ Doing(c, "archiveRelation")
    /\ LET m == [tables EXCEPT !.rel[tx[c].call.slug].status = "archived"] IN
       Finish(c, m, RelationObjects(m, tx[c].call.slug), {})

\* applyTemplate.
TemplateAffects(m) ==
    {o \in ToSet(Template.objects) : ~Active(m, o)}
    \cup (UNION {RelationObjects(ApplyTemplate(m), d.slug) : d \in {e \in ToSet(Template.relations) : ~Related(m, e.slug)}})
    \cup {d.of : d \in {e \in ToSet(Template.attributes) : ~ActiveAt(m, <<e.of, e.slug>>)}}
UseTemplate(c) ==
    /\ Doing(c, "template")
    /\ LET m == ApplyTemplate(tables) IN
       /\ m # Rejected /\ m # tables
       /\ Finish(c, m, TemplateAffects(tables), {})

DefineGroup(c) ==
    /\ Doing(c, "group")
    /\ LET call == tx[c].call IN
       Finish(c, AddGroup(tx[c].saw, tables, call.slug, call.of, call.members), {call.of}, {})

ReorderGroups(c) ==
    /\ Doing(c, "reorder")
    /\ LET call == tx[c].call IN Finish(c, Reorder(tables, call.of, call.order), {call.of}, {})

ArchiveAttributeGroup(c) ==
    /\ Doing(c, "archiveGroup")
    /\ LET g == tx[c].call.slug IN Finish(c, ArchiveGroup(tables, g), {tables.group[g].of}, {})

DefinePipeline(c) ==
    /\ Doing(c, "pipeline")
    /\ LET call == tx[c].call IN
       /\ tables.pipe[call.slug].of = None
       /\ Finish(c, PutPipeline(tx[c].saw, tables, call.slug, call.of, call.default), {call.of}, {})

UpdatePipeline(c) ==
    /\ Doing(c, "updatePipeline")
    /\ LET call == tx[c].call
           o == tables.pipe[call.slug].of
       IN  Finish(c, PutPipeline(tx[c].saw, tables, call.slug, o, call.default), {o}, {})

\* bumpVersion of lists, views and files: a version without an event.
DefineList(c) ==
    /\ Doing(c, "list")
    /\ Finish(c, [tables EXCEPT !.lists = @ + 1], {}, {})

-----------------------------------------------------------------------------
(* loadSchemaFromSource *)

Types(m) == [object |-> m.object, primary |-> m.primary, attr |-> m.attr, group |-> m.group]
Others(m) == [rel |-> m.rel, pipe |-> m.pipe, lists |-> m.lists]

\* buildSchema: every active reference attribute finds the active relation it claims.
Backed(t, r, a) ==
    \E q \in Relations : r.rel[q].status = "active" /\ r.rel[q].from = a[1] /\ r.rel[q].claim = a[2]
Builds(t, r) ==
    \A a \in Cells : t.object[a[1]] = "active" /\ t.attr[a].status = "active" /\ t.attr[a].kind = "reference"
                     => Backed(t, r, a)

\* readVersion; a schema of that version in the cache ends the load.
LoadBegin(l) ==
    /\ load[l] = None
    /\ spent.loads < MaxLoads
    /\ cache # None => cache.version # version
    /\ load' = [load EXCEPT ![l] = [version |-> version, types |-> None, others |-> None, left |-> Attempts]]
    /\ spent' = [spent EXCEPT !.loads = @ + 1]
    /\ UNCHANGED <<tables, version, changes, jobs, tx, cache>>

\* readMetadata: its queries run side by side, each sees what is committed by then.
LoadTypes(l) ==
    /\ load[l] # None /\ load[l].types = None
    /\ load' = [load EXCEPT ![l].types = Types(tables)]
    /\ UNCHANGED <<tables, version, changes, jobs, tx, cache, spent>>

LoadOthers(l) ==
    /\ load[l] # None /\ load[l].others = None
    /\ load' = [load EXCEPT ![l].others = Others(tables)]
    /\ UNCHANGED <<tables, version, changes, jobs, tx, cache, spent>>

\* cacheSchema: never an older schema over a newer one.
Cached(loaded) ==
    IF cache # None /\ cache.version > loaded.version THEN cache
    ELSE [version |-> loaded.version, types |-> loaded.types, others |-> loaded.others]

Complete(l) == load[l] # None /\ load[l].types # None /\ load[l].others # None

\* Mutant: what was read is taken whatever the version is by now.
LoadTrusts(l) ==
    /\ Complete(l)
    /\ cache' = IF Builds(load[l].types, load[l].others) THEN Cached(load[l]) ELSE cache
    /\ load' = [load EXCEPT ![l] = None]
    /\ UNCHANGED <<tables, version, changes, jobs, tx, spent>>

\* The version did not move meanwhile: build, cache, or fail with a schema conflict.
LoadEnds(l) ==
    /\ Complete(l)
    /\ version = load[l].version
    /\ cache' = IF Builds(load[l].types, load[l].others) THEN Cached(load[l]) ELSE cache
    /\ load' = [load EXCEPT ![l] = None]
    /\ UNCHANGED <<tables, version, changes, jobs, tx, spent>>

\* It moved: from the start again, LOAD_ATTEMPTS times in all.
LoadRetries(l) ==
    /\ Complete(l)
    /\ version # load[l].version
    /\ load' = [load EXCEPT ![l] =
           IF load[l].left = 1 THEN None
           ELSE [version |-> version, types |-> None, others |-> None, left |-> load[l].left - 1]]
    /\ UNCHANGED <<tables, version, changes, jobs, tx, cache, spent>>

-----------------------------------------------------------------------------
Next ==
    \/ \E c \in Callers :
          \/ \E call \in Calls : Begin(c, call)
          \/ Abort(c) \/ NothingToAdd(c)
          \/ DefineObject(c) \/ ArchiveObject(c) \/ UpdateObject(c)
          \/ DefineAttribute(c) \/ UpdateAttribute(c) \/ ArchiveAttribute(c)
          \/ DefineDerived(c) \/ UpdateDerived(c) \/ EnsureSystemAttributes(c)
          \/ DefineRelation(c) \/ UpdateRelation(c) \/ ArchiveRelation(c) \/ UseTemplate(c)
          \/ DefineGroup(c) \/ ReorderGroups(c) \/ ArchiveAttributeGroup(c)
          \/ DefinePipeline(c) \/ UpdatePipeline(c) \/ DefineList(c)
    \/ \E l \in Loaders : LoadBegin(l) \/ LoadTypes(l) \/ LoadOthers(l) \/ LoadEnds(l) \/ LoadRetries(l)

Spec == Init /\ [][Next]_vars
-----------------------------------------------------------------------------
(* Properties *)

\* A reference attribute owns exactly one relation, never shared and never lost,
\* however the definitions that claim relations are interleaved
\* (ensureBackingRelation).
BackingExclusive ==
    \A a \in Cells : tables.attr[a].status # "absent" /\ tables.attr[a].kind = "reference"
        => Cardinality({r \in Relations : Owns(tables, r, a)}) = 1

\* A schema is cached under the version whose definitions it holds, although a load
\* reads version, types and relations one after the other (loadSchemaFromSource).
CacheIsOneVersion ==
    [][ cache' # cache => /\ cache'.version = version
                          /\ cache'.types = Types(tables) /\ cache'.others = Others(tables) ]_vars

\* What a reader sees of a type: its definition and the relations and pipelines at it.
View(m, o) ==
    [own |-> <<m.object[o], m.primary[o]>>,
     attributes |-> {<<a, m.attr[a]>> : a \in {b \in Cells : b[1] = o}},
     groups |-> {<<g, m.group[g]>> : g \in {h \in Groups : m.group[h].of = o}},
     relations |-> {<<r, m.rel[r]>> : r \in {q \in Relations : m.rel[q].status # "absent"
                                               /\ {m.rel[q].from, m.rel[q].to} \cap {o, None} # {}}},
     pipelines |-> {<<p, m.pipe[p]>> : p \in {q \in Pipelines : m.pipe[q].of = o}}]

\* A change of the definitions is one new version whose event names every active
\* type a reader sees changed, a relation's other end included (bumpSchemaVersion,
\* attributeSchemaObjects); but a new type or template leaves out the targets of its
\* reference attributes.
EventsNameWhatChanged ==
    [][ tables' # tables =>
          /\ version' = version + 1 /\ Len(changes') = version'
          /\ \A o \in Objects :
                /\ "active" \in {tables.object[o], tables'.object[o]}
                /\ View(tables, o) # View(tables', o)
                /\ ~\E c \in Callers : /\ tx[c] # tx'[c] /\ tx[c].call.kind \in {"object", "template"}
                                       /\ tables.object[o] = "active"
                => o \in Last(changes') ]_vars

\* Documented, and broken by archiving the relation an attribute owns: the
\* definitions can be loaded whatever was defined.
SchemaLoads == Builds(Types(tables), Others(tables))

\* Broken by two concurrent definitions: derived attributes do not depend on
\* themselves (dependsOn).
DependenciesAcyclic ==
    \A a \in Cells : ActiveAt(tables, a) => a[2] \notin Reads(tables, a[1], tables.attr[a].sources)
=============================================================================
