----------------------------- MODULE CompatNodes -----------------------------
(***************************************************************************)
(* The syntax tree of the goyang-compatible facade, kind by kind           *)
(* (go/compat/ast_nodes.go, modules.go).  The code says three times what a *)
(* kind of node has: the fields of its struct, which a lookup walks in     *)
(* their order by reflection; what its parser fills; what its clone copies.*)
(* Nothing but care keeps the three in step.                               *)
(*                                                                         *)
(* XStruct is the order of the fields a lookup walks (those without        *)
(* "nomerge"), xFromStatement what is filled, a single substatement or all *)
(* of a keyword, and cloneX what is copied.  Every node has a name, its    *)
(* statement, its extensions and its parent besides.                       *)
(***************************************************************************)
EXTENDS TLC

Fills(one, many) == [one |-> one, many |-> many]

(* Keywords that go together.                                              *)
Meta == {"description", "reference", "status"}
OnError == {"description", "error-app-tag", "error-message", "reference"}
Payload == {"anydata", "anyxml", "choice", "container", "leaf", "leaf-list", "list"}

------------------------------------------------------------------------------
ValueStruct == <<"description">>
astValueChild == Fills({}, {})
cloneASTValueWithParent == {"description"}

RevisionStruct == <<"description", "reference">>
revisionFromStatement == Fills({"description", "reference"}, {})
cloneRevision == {"description", "reference"}

BelongsToStruct == <<"prefix">>
belongsToFromStatement == Fills({"prefix"}, {})
cloneBelongsTo == {"prefix"}

ImportStruct == <<"prefix", "revision-date">>
importFromStatement == Fills({"description", "prefix", "reference", "revision-date"}, {})
cloneImports == {"description", "prefix", "reference", "revision-date"}

IncludeStruct == <<"revision-date">>
includeFromStatement == Fills({"revision-date"}, {})
cloneIncludes == {"revision-date"}

TypedefStruct == <<"default", "description", "reference", "status", "type", "units">>
typedefFromStatement == Fills(Meta \cup {"default", "type", "units"}, {})
cloneTypedefs == Meta \cup {"default", "type", "units"}

TypeStruct ==
    <<"base", "bit", "enum", "fraction-digits", "length", "path", "pattern", "range",
    "require-instance", "type">>
typeFromStatement ==
    Fills({"base", "fraction-digits", "length", "path", "range", "require-instance"}, {"bit",
    "enum", "pattern", "type"})
cloneTypeWithParent ==
    {"base", "bit", "enum", "fraction-digits", "length", "path", "pattern", "range",
    "require-instance", "type"}

RangeStruct == <<"description", "error-app-tag", "error-message", "reference">>
rangeFromStatement == Fills(OnError, {})
cloneRangeWithParent == OnError

LengthStruct == <<"description", "error-app-tag", "error-message", "reference">>
lengthFromStatement == Fills(OnError, {})
cloneLengthWithParent == OnError

PatternStruct == <<"description", "error-app-tag", "error-message", "reference", "modifier">>
patternFromStatement == Fills(OnError \cup {"modifier"}, {})
clonePatternsWithParent == OnError \cup {"modifier"}

EnumStruct == <<"description", "if-feature", "reference", "status", "value">>
enumFromStatement == Fills(Meta \cup {"value"}, {"if-feature"})
cloneEnumsWithParent == Meta \cup {"if-feature", "value"}

BitStruct == <<"description", "if-feature", "reference", "status", "position">>
bitFromStatement == Fills(Meta \cup {"position"}, {"if-feature"})
cloneBitsWithParent == Meta \cup {"if-feature", "position"}

IdentityStruct == <<"base", "description", "if-feature", "reference", "status">>
astIdentityFromStatement == Fills(Meta, {"base", "if-feature"})
identitiesFromASTIdentities == Meta \cup {"base", "if-feature"}

MustStruct == <<"description", "error-app-tag", "error-message", "reference">>
mustFromStatement == Fills(OnError, {})
cloneMustsWithParent == OnError

LeafStruct ==
    <<"config", "default", "description", "if-feature", "mandatory", "must", "reference", "status",
    "type", "units", "when">>
leafFromStatement ==
    Fills(Meta \cup {"config", "default", "mandatory", "type", "units", "when"}, {"if-feature",
    "must"})
cloneLeavesWithParent ==
    Meta \cup {"config", "default", "if-feature", "mandatory", "must", "type", "units", "when"}

LeafListStruct ==
    <<"config", "default", "description", "if-feature", "max-elements", "min-elements", "must",
    "ordered-by", "reference", "status", "type", "units", "when">>
leafListFromStatement ==
    Fills(Meta \cup {"config", "max-elements", "min-elements", "ordered-by", "type", "units",
    "when"}, {"default", "if-feature", "must"})
cloneLeafListsWithParent ==
    Meta \cup {"config", "default", "if-feature", "max-elements", "min-elements", "must",
    "ordered-by", "type", "units", "when"}

ListStruct ==
    <<"anydata", "action", "anyxml", "choice", "config", "container", "description", "grouping",
    "if-feature", "key", "leaf", "leaf-list", "list", "max-elements", "min-elements", "must",
    "notification", "ordered-by", "reference", "status", "typedef", "unique", "uses", "when">>
listFromStatement ==
    Fills(Meta \cup {"config", "key", "max-elements", "min-elements", "ordered-by", "when"},
    Payload \cup {"action", "grouping", "if-feature", "must", "notification", "typedef", "unique",
    "uses"})
cloneListsWithParent ==
    Payload \cup Meta \cup {"action", "config", "grouping", "if-feature", "key", "max-elements",
    "min-elements", "must", "notification", "ordered-by", "typedef", "unique", "uses", "when"}

ContainerStruct ==
    <<"anydata", "action", "anyxml", "choice", "config", "container", "description", "grouping",
    "if-feature", "leaf", "leaf-list", "list", "must", "notification", "presence", "reference",
    "status", "typedef", "uses", "when">>
containerFromStatement ==
    Fills(Meta \cup {"config", "presence", "when"}, Payload \cup {"action", "grouping",
    "if-feature", "must", "notification", "typedef", "uses"})
cloneContainersWithParent ==
    Payload \cup Meta \cup {"action", "config", "grouping", "if-feature", "must", "notification",
    "presence", "typedef", "uses", "when"}

ChoiceStruct ==
    <<"anydata", "anyxml", "case", "config", "container", "default", "description", "if-feature",
    "leaf", "leaf-list", "list", "mandatory", "reference", "status", "when">>
choiceFromStatement ==
    Fills(Meta \cup {"config", "default", "mandatory", "when"}, {"anydata", "anyxml", "case",
    "container", "if-feature", "leaf", "leaf-list", "list"})
cloneChoicesWithParent ==
    Meta \cup {"anydata", "anyxml", "case", "config", "container", "default", "if-feature", "leaf",
    "leaf-list", "list", "mandatory", "when"}

CaseStruct ==
    <<"anydata", "anyxml", "choice", "container", "description", "if-feature", "leaf", "leaf-list",
    "list", "reference", "status", "uses", "when">>
caseFromStatement == Fills(Meta \cup {"when"}, Payload \cup {"if-feature", "uses"})
cloneCasesWithParent == Payload \cup Meta \cup {"if-feature", "uses", "when"}

AnyXMLStruct ==
    <<"config", "description", "if-feature", "mandatory", "must", "reference", "status", "when">>
anyXMLFromStatement == Fills(Meta \cup {"config", "mandatory", "when"}, {"if-feature", "must"})
cloneAnyXMLWithParent == Meta \cup {"config", "if-feature", "mandatory", "must", "when"}

AnyDataStruct ==
    <<"config", "description", "if-feature", "mandatory", "must", "reference", "status", "when">>
anyDataFromStatement == Fills(Meta \cup {"config", "mandatory", "when"}, {"if-feature", "must"})
cloneAnyDataWithParent == Meta \cup {"config", "if-feature", "mandatory", "must", "when"}

GroupingStruct ==
    <<"anydata", "action", "anyxml", "choice", "container", "description", "grouping", "leaf",
    "leaf-list", "list", "notification", "reference", "status", "typedef", "uses">>
groupingFromStatement ==
    Fills(Meta, Payload \cup {"action", "grouping", "notification", "typedef", "uses"})
cloneGroupings == Payload \cup Meta \cup {"action", "grouping", "notification", "typedef", "uses"}

UsesStruct == <<"augment", "description", "if-feature", "refine", "reference", "status", "when">>
usesFromStatement == Fills(Meta \cup {"augment", "when"}, {"if-feature", "refine"})
cloneUsesWithParent == Meta \cup {"augment", "if-feature", "refine", "when"}

RefineStruct ==
    <<"default", "description", "if-feature", "reference", "config", "mandatory", "presence",
    "must", "max-elements", "min-elements">>
refineFromStatement ==
    Fills({"config", "default", "description", "mandatory", "max-elements", "min-elements",
    "presence", "reference"}, {"if-feature", "must"})
cloneRefinesWithParent ==
    {"config", "default", "description", "if-feature", "mandatory", "max-elements", "min-elements",
    "must", "presence", "reference"}

RPCStruct ==
    <<"description", "grouping", "if-feature", "input", "output", "reference", "status",
    "typedef">>
rpcFromStatement == Fills(Meta \cup {"input", "output"}, {"grouping", "if-feature", "typedef"})
cloneRPCsWithParent == Meta \cup {"grouping", "if-feature", "input", "output", "typedef"}

ActionStruct ==
    <<"description", "grouping", "if-feature", "input", "output", "reference", "status",
    "typedef">>
actionFromStatement == Fills(Meta \cup {"input", "output"}, {"grouping", "if-feature", "typedef"})
cloneActionsWithParent == Meta \cup {"grouping", "if-feature", "input", "output", "typedef"}

InputStruct ==
    <<"anydata", "anyxml", "choice", "container", "grouping", "leaf", "leaf-list", "list",
    "typedef", "uses">>
inputFromStatement == Fills({}, Payload \cup {"grouping", "typedef", "uses"})
cloneInputWithParent == Payload \cup {"grouping", "typedef", "uses"}

OutputStruct ==
    <<"anydata", "anyxml", "choice", "container", "grouping", "leaf", "leaf-list", "list",
    "typedef", "uses">>
outputFromStatement == Fills({}, Payload \cup {"grouping", "typedef", "uses"})
cloneOutputWithParent == Payload \cup {"grouping", "typedef", "uses"}

NotificationStruct ==
    <<"anydata", "anyxml", "choice", "container", "description", "grouping", "if-feature", "leaf",
    "leaf-list", "list", "reference", "status", "typedef", "uses">>
notificationFromStatement ==
    Fills(Meta, Payload \cup {"grouping", "if-feature", "typedef", "uses"})
cloneNotificationsWithParent == Payload \cup Meta \cup {"grouping", "if-feature", "typedef", "uses"}

AugmentStruct ==
    <<"anydata", "action", "anyxml", "case", "choice", "container", "description", "if-feature",
    "leaf", "leaf-list", "list", "notification", "reference", "status", "uses", "when">>
augmentFromStatement ==
    Fills(Meta \cup {"when"}, Payload \cup {"action", "case", "if-feature", "notification",
    "uses"})
cloneAugmentWithParent ==
    Payload \cup Meta \cup {"action", "case", "if-feature", "notification", "uses", "when"}

ExtensionStruct == <<"argument", "description", "reference", "status">>
extensionDefFromStatement == Fills(Meta \cup {"argument"}, {})
cloneExtensionsWithParent == Meta \cup {"argument"}

ArgumentStruct == <<"yin-element">>
extensionDefFromStatement_Argument == Fills({"yin-element"}, {})
cloneArgumentWithParent == {"yin-element"}

FeatureStruct == <<"description", "if-feature", "status", "reference">>
featureFromStatement == Fills(Meta, {"if-feature"})
cloneFeaturesWithParent == Meta \cup {"if-feature"}

DeviationStruct == <<"description", "deviate", "reference">>
deviationFromStatement == Fills({"description", "reference"}, {"deviate"})
cloneDeviationsWithParent == {"description", "deviate", "reference"}

DeviateStruct ==
    <<"config", "default", "mandatory", "max-elements", "min-elements", "must", "type", "unique",
    "units">>
deviateFromStatement ==
    Fills({"config", "default", "mandatory", "max-elements", "min-elements", "type", "units"},
    {"must", "unique"})
cloneDeviatesWithParent ==
    {"config", "default", "mandatory", "max-elements", "min-elements", "must", "type", "unique",
    "units"}

ModuleStruct ==
    <<"anydata", "anyxml", "augment", "choice", "container", "deviation", "extension", "feature",
    "grouping", "identity", "import", "include", "leaf", "leaf-list", "list", "notification", "rpc",
    "typedef", "uses">>
populateModuleTopLevelAST ==
    Fills({"belongs-to", "contact", "description", "namespace", "organization", "prefix",
    "reference", "yang-version"}, Payload \cup {"augment", "deviation", "extension", "feature",
    "grouping", "identity", "import", "include", "notification", "revision", "rpc", "typedef", "uses"})
(* Mutant: the identities are left out.                                    *)
moduleFromASTModule_NoIdentity ==
    Payload \cup {"augment", "belongs-to", "contact", "description", "deviation", "extension",
    "feature", "grouping", "import", "include", "namespace", "notification", "organization", "prefix",
    "reference", "revision", "rpc", "typedef", "uses", "yang-version"}
moduleFromASTModule ==
    Payload \cup {"augment", "belongs-to", "contact", "description", "deviation", "extension",
    "feature", "grouping", "identity", "import", "include", "namespace", "notification",
    "organization", "prefix", "reference", "revision", "rpc", "typedef", "uses", "yang-version"}

------------------------------------------------------------------------------
(* Kinds of nodes by keyword; every other keyword is a plain value.        *)
fieldsOf ==
    "module" :> ModuleStruct @@ "value" :> ValueStruct @@ "revision" :> RevisionStruct
    @@ "belongs-to" :> BelongsToStruct @@ "import" :> ImportStruct @@ "include" :> IncludeStruct
    @@ "typedef" :> TypedefStruct @@ "type" :> TypeStruct @@ "range" :> RangeStruct
    @@ "length" :> LengthStruct @@ "pattern" :> PatternStruct @@ "enum" :> EnumStruct
    @@ "bit" :> BitStruct @@ "identity" :> IdentityStruct @@ "must" :> MustStruct
    @@ "leaf" :> LeafStruct @@ "leaf-list" :> LeafListStruct @@ "list" :> ListStruct
    @@ "container" :> ContainerStruct @@ "choice" :> ChoiceStruct @@ "case" :> CaseStruct
    @@ "anyxml" :> AnyXMLStruct @@ "anydata" :> AnyDataStruct @@ "grouping" :> GroupingStruct
    @@ "uses" :> UsesStruct @@ "refine" :> RefineStruct @@ "rpc" :> RPCStruct
    @@ "action" :> ActionStruct @@ "input" :> InputStruct @@ "output" :> OutputStruct
    @@ "notification" :> NotificationStruct @@ "augment" :> AugmentStruct
    @@ "extension" :> ExtensionStruct @@ "argument" :> ArgumentStruct @@ "feature" :> FeatureStruct
    @@ "deviation" :> DeviationStruct @@ "deviate" :> DeviateStruct

parsedAs ==
    "module" :> populateModuleTopLevelAST @@ "value" :> astValueChild
    @@ "revision" :> revisionFromStatement @@ "belongs-to" :> belongsToFromStatement
    @@ "import" :> importFromStatement @@ "include" :> includeFromStatement
    @@ "typedef" :> typedefFromStatement @@ "type" :> typeFromStatement
    @@ "range" :> rangeFromStatement @@ "length" :> lengthFromStatement
    @@ "pattern" :> patternFromStatement @@ "enum" :> enumFromStatement @@ "bit" :> bitFromStatement
    @@ "identity" :> astIdentityFromStatement @@ "must" :> mustFromStatement
    @@ "leaf" :> leafFromStatement @@ "leaf-list" :> leafListFromStatement
    @@ "list" :> listFromStatement @@ "container" :> containerFromStatement
    @@ "choice" :> choiceFromStatement @@ "case" :> caseFromStatement
    @@ "anyxml" :> anyXMLFromStatement @@ "anydata" :> anyDataFromStatement
    @@ "grouping" :> groupingFromStatement @@ "uses" :> usesFromStatement
    @@ "refine" :> refineFromStatement @@ "rpc" :> rpcFromStatement @@ "action" :> actionFromStatement
    @@ "input" :> inputFromStatement @@ "output" :> outputFromStatement
    @@ "notification" :> notificationFromStatement @@ "augment" :> augmentFromStatement
    @@ "extension" :> extensionDefFromStatement @@ "argument" :> extensionDefFromStatement_Argument
    @@ "feature" :> featureFromStatement @@ "deviation" :> deviationFromStatement
    @@ "deviate" :> deviateFromStatement

clonedAs ==
    "module" :> moduleFromASTModule @@ "value" :> cloneASTValueWithParent
    @@ "revision" :> cloneRevision @@ "belongs-to" :> cloneBelongsTo @@ "import" :> cloneImports
    @@ "include" :> cloneIncludes @@ "typedef" :> cloneTypedefs @@ "type" :> cloneTypeWithParent
    @@ "range" :> cloneRangeWithParent @@ "length" :> cloneLengthWithParent
    @@ "pattern" :> clonePatternsWithParent @@ "enum" :> cloneEnumsWithParent
    @@ "bit" :> cloneBitsWithParent @@ "identity" :> identitiesFromASTIdentities
    @@ "must" :> cloneMustsWithParent @@ "leaf" :> cloneLeavesWithParent
    @@ "leaf-list" :> cloneLeafListsWithParent @@ "list" :> cloneListsWithParent
    @@ "container" :> cloneContainersWithParent @@ "choice" :> cloneChoicesWithParent
    @@ "case" :> cloneCasesWithParent @@ "anyxml" :> cloneAnyXMLWithParent
    @@ "anydata" :> cloneAnyDataWithParent @@ "grouping" :> cloneGroupings
    @@ "uses" :> cloneUsesWithParent @@ "refine" :> cloneRefinesWithParent
    @@ "rpc" :> cloneRPCsWithParent @@ "action" :> cloneActionsWithParent
    @@ "input" :> cloneInputWithParent @@ "output" :> cloneOutputWithParent
    @@ "notification" :> cloneNotificationsWithParent @@ "augment" :> cloneAugmentWithParent
    @@ "extension" :> cloneExtensionsWithParent @@ "argument" :> cloneArgumentWithParent
    @@ "feature" :> cloneFeaturesWithParent @@ "deviation" :> cloneDeviationsWithParent
    @@ "deviate" :> cloneDeviatesWithParent
=============================================================================
