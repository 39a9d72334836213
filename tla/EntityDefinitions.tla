--------------------------- MODULE EntityDefinitions ---------------------------
(***************************************************************************)
(* How an entity comes to be served: defineEntity fills in what was left   *)
(* out and refuses what cannot work (validateEntity), CRUD() checks again  *)
(* what it is handed, with the runtime it is to run in, and the server     *)
(* bindings build definitions of their own and bind routes to handlers.    *)
(*                                                                         *)
(* A text is a word and what joins its parts: nothing (one plain word), a  *)
(* capital, a dot, a dash, an underscore, a colon or a space; NoText is a  *)
(* text that is not there, Empty the empty one.  A field name is a string, *)
(* "none" if there is none.                                                *)
(***************************************************************************)
EXTENDS RateLimits, Sequences

CONSTANTS
    EntityInputs,                  \* what defineEntity is given
    ProjectConfigs, GivenEntities  \* what the server bindings are given

VARIABLE question                  \* what is being defined, or bound

Worded(word, join) == [word |-> word, join |-> join]
NoText == Worded("", "absent")
Empty == Worded("", "empty")
Given(text) == text # NoText /\ text # Empty
Else(text, default) == IF text = NoText THEN default ELSE text

CrudRoutes == {"list", "detail", "create", "update", "delete"}
EntityParts ==
    {"moduleKey", "name", "fields", "primaryKey", "tenantField", "versionField", "immutable",
     "searchable", "filterable", "sortable", "sortColumn", "sortDesc", "scoping", "policy",
     "concurrency", "rateLimit", "crud", "crudHooks", "audit", "cache", "queryLimits",
     "searchStrategy", "validation", "routes"}

Record(value, parts) == value = [part \in parts |-> value[part]]

\* What is taken on trust of an input is that it has its parts, its mode and
\* whole numbers; the rest is checked.
EntityDefinitionInput(i) ==
    /\ Record(i, EntityParts)
    /\ Record(i.policy, {"form", "skip", "key"})
    /\ Record(i.audit, {"enabled", "resource", "guarantee", "classification"})
    /\ Record(i.cache, {"enabled", "tag", "keyPrefix"})
    /\ i.scoping.mode \in {"none", "scoped"}
    /\ \A route \in DOMAIN i.rateLimit : i.rateLimit[route].window.count \in Int

ASSUME InputsAssumption == \A i \in EntityInputs : EntityDefinitionInput(i)

\* The patterns of module keys, names and capability keys.
ModuleKeyText(text) == text.join \in {"nothing", "capital", "dot"}
NameText(text) == text.join \in {"nothing", "capital", "dash", "underscore"}
CapabilityKeyText(text) == text.join \in {"nothing", "capital", "colon", "dash", "underscore"}

RuntimeCapabilityNames == {"deferredExecution", "objectStorage", "cache"}

FieldTypeNames == {"string", "number", "boolean", "date", "json"}
FieldFormats == {"text", "email", "phone", "date", "identifier", "json"}

HooksOf(route) ==
    {"beforeCommitTransform", "afterCommitRepresentation"} \cup
        IF route \in {"list", "detail"} THEN {} ELSE {"afterCommit"}
AnyHook == HooksOf("create")

-----------------------------------------------------------------------------
(* capabilityCheck.ts *)

CapabilityConfigValid(policy) ==
    /\ policy.form = "object"
    /\ policy.skip = "yes" <=> policy.key = NoText
    /\ policy.key # NoText => CapabilityKeyText(policy.key)

NormalizeCapabilityPolicy(policy) ==
    IF policy.skip = "yes" THEN policy ELSE [policy EXCEPT !.skip = "unsaid"]

-----------------------------------------------------------------------------
(* defineEntity *)

NormalizeRoutes(routes) ==
    [r \in CrudRoutes |-> IF routes[r] = "off" THEN "off" ELSE "on"]

VersionsConflict(input) ==
    /\ input.versionField # "none" /\ input.concurrency.versionField # "none"
    /\ input.versionField # input.concurrency.versionField

VersionFieldOfEntity(input) == input.versionField

VersionFieldOf(input) ==
    IF input.versionField # "none" THEN input.versionField ELSE input.concurrency.versionField

AuditOf(input) ==
    [input.audit EXCEPT !.resource = Else(@, input.name), !.guarantee = "none"]

CacheOf(input) ==
    [input.cache EXCEPT !.tag = Else(@, input.name), !.keyPrefix = Else(@, input.name)]

Normalized(input) ==
    [input EXCEPT
        !.primaryKey = IF @ = "none" /\ "id" \in DOMAIN input.fields THEN "id" ELSE @,
        !.versionField = VersionFieldOf(input),
        !.policy = NormalizeCapabilityPolicy(@),
        !.audit = AuditOf(input), !.cache = CacheOf(input),
        !.routes = NormalizeRoutes(@)]

-----------------------------------------------------------------------------
(* validateEntity *)

Declared(d, field) == field # "none" /\ field \in DOMAIN d.fields
Numeric(d, field) == Declared(d, field) /\ d.fields[field].type = "number"

FieldListValid(d, values) ==
    /\ Cardinality({values[i] : i \in DOMAIN values}) = Len(values)
    /\ \A i \in DOMAIN values : Declared(d, values[i])

FieldsValid(d) ==
    /\ DOMAIN d.fields # {}
    /\ \A f \in DOMAIN d.fields :
          /\ d.fields[f].type \in FieldTypeNames
          /\ d.fields[f].format \in FieldFormats \cup {"none"}
          /\ d.fields[f].nullable # "malformed"

\* The fields the descriptor names.
DescriptorValid(d) ==
    /\ Declared(d, d.primaryKey)
    /\ d.tenantField # "none" => Declared(d, d.tenantField)
    /\ d.versionField # "none" => Numeric(d, d.versionField)
    /\ FieldListValid(d, d.immutable)

\* What a query may name.
QueryColumnsValid(d) ==
    /\ FieldListValid(d, d.searchable) /\ FieldListValid(d, d.filterable)
    /\ FieldListValid(d, d.sortable)
    /\ d.sortColumn # "none" =>
          Declared(d, d.sortColumn) /\ \E i \in DOMAIN d.sortable : d.sortable[i] = d.sortColumn
    /\ d.sortDesc # "malformed"

TenantScopingValid(d) ==
    /\ d.scoping.mode = "none" => d.scoping.acknowledged
    /\ d.scoping.scopeFilter # "malformed"
    /\ d.tenantField # "none" => d.scoping.mode # "none"
    /\ d.tenantField = "none" => d.scoping.mode # "scoped"

CapabilityValid(d) ==
    /\ CapabilityConfigValid(d.policy)
    /\ d.policy.key.word \notin RuntimeCapabilityNames \cup {"bypassAuthority"}

\* Optimistic concurrency where it is asked for, and where routes need it.
ConcurrencyValid(d, routes) ==
    /\ d.concurrency.declared =>
          /\ Numeric(d, IF d.concurrency.versionField # "none" THEN d.concurrency.versionField
                        ELSE d.versionField)
          /\ ~VersionsConflict(d)
    /\ routes["update"] # "off" \/ routes["delete"] # "off" =>
          d.versionField # "none" \/ d.concurrency.versionField # "none"

UnitNames == {"second", "minute", "hour"}

WindowValidOrZero(window) ==
    CASE window.form = "number" -> window.count >= 0
      [] window.form = "text" -> window.count >= 0 /\ window.unit \in UnitNames
      [] OTHER -> FALSE

WindowValid(window) ==
    CASE window.form = "number" -> window.count > 0
      [] window.form = "text" -> window.count > 0 /\ window.unit \in UnitNames
      [] OTHER -> FALSE

RateLimitsValid(d) ==
    \A route \in DOMAIN d.rateLimit :
        /\ route \in CrudRoutes
        /\ d.rateLimit[route].max > 0
        /\ d.rateLimit[route].consistency \in {"atomic", "best-effort"}
        /\ WindowValid(d.rateLimit[route].window)

AuditValid(d) ==
    /\ d.audit.enabled => Given(d.audit.resource)
    /\ \A f \in DOMAIN d.audit.classification :
          Declared(d, f) /\ d.audit.classification[f] \in {"include", "mask", "omit"}

CacheValid(d) == d.cache.enabled => Given(d.cache.tag) /\ Given(d.cache.keyPrefix)

LimitsValid(d) ==
    /\ \A limit \in d.queryLimits : limit > 0
    /\ d.searchStrategy \in {"none", "contains", "prefix", "fullText"}

BodiesValid(d, routes) ==
    \A route \in {"create", "update"} : routes[route] # "off" => route \in d.validation

CrudHooksConfigValid(d) == d.crudHooks \in {"none", "empty"}

\* Of what is not a route only what looks like hooks is refused.
CrudLifecycleValid(d) ==
    \A route \in DOMAIN d.crud :
        IF route \in CrudRoutes
        THEN \A hook \in DOMAIN d.crud[route] :
                hook \in HooksOf(route) /\ d.crud[route][hook] # "malformed"
        ELSE DOMAIN d.crud[route] \cap AnyHook = {}

ValidateEntity(d, routes) ==
    /\ ModuleKeyText(d.moduleKey) /\ NameText(d.name)
    /\ FieldsValid(d) /\ DescriptorValid(d) /\ QueryColumnsValid(d)
    /\ TenantScopingValid(d) /\ CapabilityValid(d) /\ ConcurrencyValid(d, routes)
    /\ RateLimitsValid(d) /\ AuditValid(d) /\ LimitsValid(d) /\ CacheValid(d)
    /\ BodiesValid(d, routes) /\ CrudHooksConfigValid(d) /\ CrudLifecycleValid(d)

\* defineEntity returns what it has normalized, branded, or throws.
Defined(input) ==
    /\ ~VersionsConflict(input) /\ CapabilityConfigValid(input.policy)
    /\ ValidateEntity(Normalized(input), Normalized(input).routes)

-----------------------------------------------------------------------------
(* CRUD() *)

\* runtime: the sinks it can make.
Constructed(d, branded, runtime) ==
    /\ branded
    /\ ValidateEntity(d, d.routes)
    /\ d.policy.skip = "yes" <=> d.policy.key = NoText
    /\ d.audit.enabled => "audit" \in runtime
    /\ d.audit.guarantee = "durable" => "outbox" \in runtime

CapabilityMode(d) ==
    IF d.policy.skip # "yes" /\ Given(d.policy.key) THEN d.policy.key ELSE NoText

Served(d) == {r \in CrudRoutes : d.routes[r] # "off"}

-----------------------------------------------------------------------------
(* The bindings: createCrudFastifyRoutes, defineProject, Nest *)

PlainInput(moduleKey, name, fields) ==
    [moduleKey |-> moduleKey, name |-> name, fields |-> fields,
     primaryKey |-> "id", tenantField |-> "none", versionField |-> "none", immutable |-> <<>>,
     searchable |-> <<>>, filterable |-> <<>>, sortable |-> <<>>,
     sortColumn |-> "none", sortDesc |-> "none",
     scoping |-> [mode |-> "none", acknowledged |-> TRUE, scopeFilter |-> "none"],
     policy |-> [form |-> "object", skip |-> "yes", key |-> NoText],
     concurrency |-> [declared |-> FALSE, versionField |-> "none"],
     rateLimit |-> <<>>, crud |-> <<>>, crudHooks |-> "none",
     audit |-> [enabled |-> FALSE, resource |-> NoText, guarantee |-> "none",
                classification |-> <<>>],
     cache |-> [enabled |-> FALSE, tag |-> NoText, keyPrefix |-> NoText],
     queryLimits |-> {}, searchStrategy |-> "none", validation |-> {},
     routes |-> [r \in CrudRoutes |-> "unsaid"]]

\* What a binding passes on of what it was given, for the routes it is to serve.
BindingInput(given, moduleKey, on) ==
    [PlainInput(moduleKey, given.name, given.fields) EXCEPT
        !.primaryKey = IF given.primaryKey = "none" THEN "id" ELSE given.primaryKey,
        !.versionField = given.versionField,
        !.searchable = given.searchable, !.filterable = given.filterable,
        !.sortColumn = given.sortColumn, !.validation = given.validation,
        !.routes = [r \in CrudRoutes |-> IF r \in on THEN "on" ELSE "off"]]

FastifyInput(options) ==
    [BindingInput(options, options.moduleKey, options.routes \cap CrudRoutes) EXCEPT
        !.concurrency = [declared |-> options.versionField # "none",
                         versionField |-> options.versionField]]

\* Compound names are split with a dash.
ToModuleKey(name) == IF name.join = "capital" THEN Worded(name.word, "dash") ELSE name

\* A route is on unless the entity, or the project where it does not say,
\* turned it off.
CrudEnabled(config, given) ==
    {r \in CrudRoutes : given.crud[r] = "on" \/ (given.crud[r] = "unsaid" /\ config.crud[r] # "off")}

ProjectInput(config, given) ==
    [BindingInput(given, ToModuleKey(given.name), CrudEnabled(config, given)) EXCEPT
        !.scoping = IF config.tenantScoping = "none" THEN @
                    ELSE [mode |-> "scoped", acknowledged |-> FALSE, scopeFilter |-> "none"],
        !.policy = IF config.capabilityKey = NoText THEN @
                   ELSE [form |-> "object", skip |-> "unsaid", key |-> config.capabilityKey]]

\* defineProject asks for a name and fields before it defines anything.
ProjectDefined(config, given) ==
    /\ Given(given.name) /\ DOMAIN given.fields # {}
    /\ Defined(ProjectInput(config, given))

\* Where requests come in: a method, of one row or of the collection.
Endpoint(method, of) == [method |-> method, of |-> of]

ResolveCrudRoutes(on) ==
    {[at |-> e[1], route |-> e[2]] : e \in
        {<<Endpoint("GET", "collection"), "list">>, <<Endpoint("GET", "row"), "detail">>,
         <<Endpoint("POST", "collection"), "create">>, <<Endpoint("PUT", "row"), "update">>,
         <<Endpoint("DELETE", "row"), "delete">>} \cap ({<<Endpoint(m, of), r>> :
            m \in {"GET", "POST", "PUT", "DELETE"}, of \in {"collection", "row"}, r \in on})}

\* CRUD() has a handler for the five operations; other keys bind nothing.
RegisterCrudRoutes(routes) == {b \in routes : b.route \in CrudRoutes}

NestController ==
    ResolveCrudRoutes(CrudRoutes) \cup {[at |-> Endpoint("PATCH", "row"), route |-> "update"]}

-----------------------------------------------------------------------------
(* A caller defines, or binds, one thing after another *)

NoQuestion == [subject |-> "nothing"]

Define == \E input \in EntityInputs : question' = [subject |-> "definition", input |-> input]

Bind ==
    \E config \in ProjectConfigs, given \in GivenEntities :
        question' = [subject |-> "binding", config |-> config, given |-> given]

DefinitionsSpec ==
    question = NoQuestion /\ [][Define \/ Bind \/ question' = NoQuestion]_question

-----------------------------------------------------------------------------
(* What a definition promises *)

\* Every field a definition names beside those it declares.
FieldsNamed(d) ==
    ({d.primaryKey, d.tenantField, d.versionField, d.sortColumn} \ {"none"})
        \cup (UNION {{names[i] : i \in DOMAIN names} :
                       names \in {d.immutable, d.searchable, d.filterable, d.sortable}})
        \cup DOMAIN d.audit.classification

\* What defineEntity returns may be defined again and is the same, and CRUD()
\* serves it where there is an audit sink; its mutations have a number to
\* compare versions by; what it names is declared; it is scoped by its tenant
\* field or has none; and it asks for the capability it was given.
DefinitionUsable(input) ==
    Defined(input) =>
        LET d == Normalized(input)
        IN  /\ Normalized(d) = d /\ Defined(d) /\ Constructed(d, TRUE, {"audit"})
            /\ Served(d) \cap {"update", "delete"} # {} => Numeric(d, d.versionField)
            /\ FieldsNamed(d) \subseteq DOMAIN d.fields
            /\ d.scoping.mode = "scoped" <=> d.tenantField # "none"
            /\ CapabilityMode(d) = input.policy.key

\* A binding that could be defined has a handler for each route it binds, each
\* at a place of its own where Nest has it too, and serves no others.
BindingUsable(config, given) ==
    /\ Defined(FastifyInput(given)) =>
          LET d == Normalized(FastifyInput(given))
          IN  DefinitionUsable(FastifyInput(given)) /\ Constructed(d, TRUE, {}) /\ Served(d) = given.routes \cap CrudRoutes
    /\ ProjectDefined(config, given) =>
          LET d == Normalized(ProjectInput(config, given))
              bound == RegisterCrudRoutes(ResolveCrudRoutes(CrudEnabled(config, given)))
          IN  /\ DefinitionUsable(ProjectInput(config, given)) /\ Constructed(d, TRUE, {})
              /\ {b.route : b \in bound} = Served(d)
              /\ Cardinality({b.at : b \in bound}) = Cardinality(Served(d))
              /\ bound \subseteq NestController

\* What was defined can be served (defineEntity, CRUD() and the bindings that
\* call both): what passed the first check is never refused by a later one, its
\* updates and deletes have a version to compare, its rate limits are understood
\* when a request arrives (parseTimeWindowMs), it names no field that is not
\* there, and what is bound is what is served.
DefinitionsUsable ==
    /\ question.subject = "definition" =>
          /\ DefinitionUsable(question.input)
          /\ Defined(question.input) =>
                \A route \in DOMAIN question.input.rateLimit :
                    ParseTimeWindowMs(question.input.rateLimit[route].window) > 0
    /\ question.subject = "binding" => BindingUsable(question.config, question.given)
=============================================================================
