--------------------------- MODULE CatalogClient ---------------------------
(***************************************************************************)
(* The catalog commands: list catalogs, schemas and tables page by page,   *)
(* get a metastore, a catalog, a schema or a table, and check or get the   *)
(* credentials of a table, against a Unity or an Iceberg REST catalog that *)
(* may answer any call with a failure.                                     *)
(*                                                                         *)
(* A situation is one command and what the catalog and the stores hold.    *)
(* Text that the code joins or splits at dots is a sequence of pieces, the *)
(* empty text <<>>; a piece is a number, so that names have an order.      *)
(***************************************************************************)
EXTENDS TableRecord, Sorting

CONSTANTS Situations   \* the commands, with what the catalog holds for each

Texts == STRING \cup {None}
Config == [key: Texts, secret: Texts, token: Texts]
StorageCredential == [prefix: Seq(STRING), config: Config]
TableColumn == [column: STRING, type: Texts, nullable: BOOLEAN, position: {None}]
Text == Seq(Nat)
UnityColumn == [name: STRING, typeText: Texts, typeName: Texts, nullable: BOOLEAN \cup {None}]

Usable(config) == config.key # None /\ config.secret # None

(* What a command or a read of metadata fails with.                        *)
Reasons == {"name", "transport", "status", "body", "metadata", "malformed",
            "missing", "unrecognized", "io", "storage", "load"}

ASSUME NoneAssumption == None \notin Reasons /\ None \notin Config

(* The entries of a page, and the pages of a collection: those that its    *)
(* tokens lead to.                                                         *)
PageEntry(s) ==
    CASE s.op = "list catalogs" -> [name: Text, kind: Texts]
      [] s.op = "list schemas"  -> IF s.dialect = "unity" THEN Text ELSE Seq(Text)
      [] s.op = "list tables"   -> IF s.dialect = "unity"
                                   THEN [full: Text, name: Text, uri: Texts]
                                   ELSE [parts: Seq(Text), name: Text]
Follows(pages, tokens) ==
    \A t \in tokens : pages[t].next \in {None, ""} \/ pages[t].next \in tokens
Collected(pages) ==
    /\ None \in DOMAIN pages /\ Follows(pages, DOMAIN pages)
    /\ \A tokens \in SUBSET DOMAIN pages :
          None \in tokens /\ Follows(pages, tokens) => tokens = DOMAIN pages

(* Documents are what they deserialize to: what a Unity catalog mints has   *)
(* its keys.  A loader fills a TableInfo in, with the location it was given *)
(* and, of a Delta log, no properties of Iceberg.                          *)
ASSUME SituationsAssumption == \A s \in Situations :
    /\ s.op \in {"list catalogs", "list schemas", "list tables"} /\ s.name # None =>
         /\ Collected(s.pages)
         /\ \A t \in DOMAIN s.pages : s.pages[t].entries \in Seq(PageEntry(s))
         /\ s.op = "list schemas" => s.name \in Text
         /\ s.op = "list tables" => s.name \in Text \X Text
    /\ s.op = "get credentials" =>
         /\ s.documents.mint.aws # None => Usable(s.documents.mint.aws)
         /\ s.documents.credentials \in Seq(StorageCredential)
         /\ s.documents.delegated.credentials \in Seq(StorageCredential)
         /\ s.documents.delegated.location \in Seq(STRING)
         /\ s.documents.delegated.config \in Config
    /\ s.op = "get table" =>
         /\ s.documents.record.columns \in Seq(UnityColumn)
         /\ {s.hint, s.documents.record.location} \subseteq DOMAIN s.places \cup {None, ""}
         /\ \A at \in DOMAIN s.places : s.places[at].is \in {"nothing", "metadata", "file", "directory"}
         /\ \A at \in DOMAIN s.places : LET info == s.places[at].info IN
              info # None =>
                /\ info = [f \in DOMAIN TableInfo("", "", 0, <<>>) |-> info[f]]
                /\ info.uri = at /\ at # ""
                /\ info.format = "delta" => info.icebergProperties = <<>>
                /\ info.columns \in Seq(TableColumn)

VARIABLES situation,
          waiting,     \* calls in flight
          heard,       \* history: the answered calls and their answers
          listed,      \* what the pages read so far hold
          record,      \* get table: the catalog's record, once it is there
          info,        \* get table: the metadata read at the hint
          result       \* None while the command runs

vars == <<situation, waiting, heard, listed, record, info, result>>

Unity == situation.dialect = "unity"

-----------------------------------------------------------------------------
(* The catalog's answers.  A status other than 200 has no document, and a  *)
(* 200 may have one that does not parse (None).                            *)

Answer(status, says, body) == [status |-> status, says |-> says, body |-> body]

(* Refusals whose text two of the commands look into.                      *)
NotIceberg == Answer("400", "is not an Iceberg compatible table", None)
Serverless == Answer("403", "UC_SERVERLESS_UNTRUSTED_DOMAIN", None)

Failures == {Answer(status, "", None) :
               status \in {"lost", "200", "400", "403", "404", "500", "501"}}

(* A page token is percent-encoded, except by list catalogs, whose request *)
(* a catalog does not understand when the token has a reserved character.  *)
(* The same goes for the name in get catalog's URL.                        *)
Understood(call) ==
    CASE call.route = "page" -> \/ situation.op # "list catalogs"
                                \/ call.token \notin situation.reserved
      [] call.route = "one"  -> \/ situation.op # "get catalog"
                                \/ situation.name \notin situation.reserved
      [] OTHER -> TRUE

Document(call) ==
    CASE call.route = "page"     -> situation.pages[call.token]
      [] call.route = "metadata" -> Load(situation.places[call.at], WithoutFiles(LoadRequest(call.at, None)))
      [] OTHER                   -> situation.documents[call.route]

(* What a call may be answered: its document if the catalog has one for    *)
(* it, or a failure.                                                       *)
Answers(call) ==
    IF call.route = "metadata"
    THEN {Answer("200", "", body) : body \in {Document(call), [error |-> "storage"]}}
    ELSE Failures
         \cup (IF Understood(call) /\ Document(call) # None
               THEN {Answer("200", "", Document(call))} ELSE {})
         \cup (IF call.route \in {"load table", "delegated"} THEN {NotIceberg} ELSE {})
         \cup (IF call.route = "mint" THEN {Serverless} ELSE {})

(* get_json: a document, or why there is none.                             *)
JsonError(answer) ==
    IF answer.status = "lost" THEN "transport"
    ELSE IF answer.status # "200" THEN "status"
    ELSE IF answer.body = None THEN "body" ELSE None

-----------------------------------------------------------------------------
(* Listed items.                                                           *)

CatalogType(kind) ==
    IF kind \in {"MANAGED_CATALOG", "FOREIGN_CATALOG", "SYSTEM_CATALOG"} THEN kind ELSE None

Some(text) == IF text = <<>> THEN None ELSE text
Else(option, default) == IF option = None THEN default ELSE option

(* The item an entry of a page becomes; None when it has no name.          *)
CatalogItem(entry) == [name |-> <<entry.name>>, kind |-> CatalogType(entry.kind)]

SchemaItem(entry) ==
    IF Unity THEN IF entry = <<>> THEN None ELSE [name |-> <<situation.name, entry>>]
    ELSE IF entry = <<>> \/ Contains(entry, <<>>) THEN None
         ELSE [name |-> <<situation.name, FlattenSeq(entry)>>]

(* A Unity entry is named by full_name, else by catalog, schema and name;  *)
(* the table is what follows the last dot.                                 *)
TableItem(entry) ==
    IF Unity
    THEN LET full == Else(Some(entry.full), Some(entry.name))
         IN  IF full = None THEN None
             ELSE [name |-> situation.name \o << <<Last(full)>> >>, uri |-> NonEmpty(entry.uri)]
    ELSE IF entry.name = <<>> THEN None
         ELSE [name |-> <<situation.name[1],
                          IF entry.parts = <<>> THEN situation.name[2]
                          ELSE FlattenSeq(entry.parts), entry.name>>,
               uri |-> None]

Item(entry) == CASE situation.op = "list catalogs" -> CatalogItem(entry)
                 [] situation.op = "list schemas"  -> SchemaItem(entry)
                 [] situation.op = "list tables"   -> TableItem(entry)

(* The order of names: by the first piece in which they differ, and a name *)
(* before a longer one that begins with it.                                *)
Before(s, t) ==
    \E i \in 1..Len(t) : /\ i <= Len(s) + 1 /\ \A j \in 1..i - 1 : s[j] = t[j]
                         /\ i <= Len(s) => s[i] < t[i]
NameBefore(x, y) == Before(FlattenSeq(x.name), FlattenSeq(y.name))
Sorted(items) == SortedBy(items, NameBefore)

(* Mutant: a page without entries is the last one.                         *)
NextTokenFull(page) == IF page.next = "" \/ page.entries = <<>> THEN None ELSE page.next

NextToken(page) == IF page.next = "" THEN None ELSE page.next

-----------------------------------------------------------------------------
(* Steps.                                                                  *)

Listing == situation.op \in {"list catalogs", "list schemas", "list tables"}

Page(token)  == [route |-> "page", token |-> token]
ReadAt(at)   == [route |-> "metadata", at |-> at]
Call(route)  == [route |-> route]

FirstCalls ==
    CASE Listing                                      -> {Page(None)}
      [] situation.op \in {"get metastore", "get catalog", "get schema"} -> {Call("one")}
      [] situation.op = "get table" /\ Unity ->
           {Call("record")} \cup (IF NonEmpty(situation.hint) = None THEN {}
                                  ELSE {ReadAt(situation.hint)})
      [] situation.op = "get table" /\ ~Unity         -> {Call("load table")}
      [] situation.op = "check credentials"           -> {Call("record")}
      [] situation.op = "get credentials" /\ Unity    -> {Call("record")}
      [] OTHER                                        -> {Call("credentials")}

Init ==
    /\ situation \in Situations
    /\ waiting = {} /\ heard = <<>> /\ listed = <<>>
    /\ record = None /\ info = None /\ result = None

Finish(outcome) == result' = outcome /\ waiting' = {}
Fail(reason) == Finish([error |-> reason])
Return(value) == Finish([error |-> None, value |-> value])
Then(call, calls) == waiting' = (waiting \ {call}) \cup calls

Eligible   == [eligible |-> TRUE, reason |-> None]
Ineligible(reason) == [eligible |-> FALSE, reason |-> reason]

(* A name of the wrong kind is refused, and two checks need no call.       *)
Start ==
    /\ result = None /\ waiting = {} /\ heard = <<>>
    /\ \/ situation.name = None /\ Fail("name")
       \/ /\ situation.name # None /\ situation.op = "check credentials"
          /\ \/ ~Unity /\ Return(Eligible)
             \/ Unity /\ situation.system /\ Return(Ineligible("system table"))
       \/ /\ situation.name # None
          /\ situation.op = "check credentials" => Unity /\ ~situation.system
          /\ Then(None, FirstCalls) /\ UNCHANGED result
    /\ UNCHANGED <<situation, heard, listed, record, info>>

(* A call is answered, and whoever waited for it goes on.                  *)
Hear(call, answer) ==
    /\ result = None /\ call \in waiting
    /\ heard' = Append(heard, [call |-> call, answer |-> answer])
    /\ UNCHANGED situation

(* The call fails the command as get_json or the metadata read does.       *)
Refused(call, answer) ==
    /\ Hear(call, answer)
    /\ \/ /\ call.route \in {"page", "one", "record", "load table"}
          /\ JsonError(answer) # None
          /\ ~(call.route = "load table" /\ answer = NotIceberg)
          /\ Fail(JsonError(answer))
       \/ /\ call.route = "metadata" /\ answer.body.error # None
          /\ Fail("metadata")
    /\ UNCHANGED <<listed, record, info>>

(* One page: every entry is kept, or one without a name ends the walk.     *)
ListPage(call, answer) ==
    /\ call.route = "page" /\ Hear(call, answer) /\ JsonError(answer) = None
    /\ LET items == [i \in 1..Len(answer.body.entries) |-> Item(answer.body.entries[i])]
       IN  \/ Contains(items, None) /\ Fail("malformed") /\ UNCHANGED listed
           \/ /\ ~Contains(items, None)
              /\ listed' = listed \o items
              /\ IF NextToken(answer.body) = None THEN Return(Sorted(listed'))
                 ELSE Then(call, {Page(NextToken(answer.body))}) /\ UNCHANGED result
    /\ UNCHANGED <<record, info>>

-----------------------------------------------------------------------------
(* get metastore, catalog, schema: the document as a resource.             *)

Without(map, key) == [k \in DOMAIN map \ {key} |-> map[k]]

Metastore(document) ==
    [name |-> situation.dialect, uid |-> document.uid, display |-> document.name,
     cloud |-> NonEmpty(document.cloud), region |-> NonEmpty(document.region)]

Catalog(document) ==
    [name |-> <<document.name>>, kind |-> CatalogType(document.kind),
     comment |-> NonEmpty(document.comment), owner |-> NonEmpty(document.owner)]

(* The location is the schema's uri and, in an Iceberg namespace, leaves   *)
(* the properties for it.                                                  *)
UnitySchema(document) ==
    [name |-> <<situation.name[1], Else(Some(document.name), situation.name[2])>>,
     uri |-> NonEmpty(document.location), properties |-> Else(document.properties, <<>>)]

IcebergSchema(document) ==
    LET properties == Else(document.properties, <<>>) IN
    [name |-> <<situation.name[1],
                IF document.parts = <<>> THEN situation.name[2] ELSE FlattenSeq(document.parts)>>,
     uri |-> IF "location" \in DOMAIN properties THEN NonEmpty(properties["location"]) ELSE None,
     properties |-> Without(properties, "location")]

GetOne(call, answer) ==
    /\ call.route = "one" /\ Hear(call, answer) /\ JsonError(answer) = None
    /\ Return(CASE situation.op = "get metastore"        -> Metastore(answer.body)
                [] situation.op = "get catalog"          -> Catalog(answer.body)
                [] situation.op = "get schema" /\ Unity  -> UnitySchema(answer.body)
                [] OTHER                                 -> IcebergSchema(answer.body))
    /\ UNCHANGED <<listed, record, info>>

-----------------------------------------------------------------------------
(* get table.                                                              *)

DeclaredColumn(column) ==
    [column |-> column.name,
     type |-> NonEmpty(Else(Else(column.typeText, column.typeName), "")),
     nullable |-> Else(column.nullable, TRUE), position |-> None]

(* The catalog's columns replace the log's when it has any, and its        *)
(* properties are laid over those of the format.                           *)
MergeCatalog(loaded, catalog) ==
    LET columns == IF catalog.columns = <<>> THEN loaded.columns
                   ELSE [i \in 1..Len(catalog.columns) |-> DeclaredColumn(catalog.columns[i])]
        properties == Else(catalog.properties, <<>>)
    IN  IF loaded.format = "delta"
        THEN [loaded EXCEPT !.columns = columns, !.deltaProperties = Extend(@, properties)]
        ELSE [loaded EXCEPT !.columns = columns, !.icebergProperties = Extend(@, properties)]

(* Mutant: the metadata read at the hint is kept whatever the catalog says.*)
AtHintAlways(location) == situation.hint # ""

(* The hint named the catalog's own location: its read is the table's.     *)
AtHint(location) == situation.hint = location

Table(loaded, catalog) == Return(Resource(MergeCatalog(loaded, catalog), situation.name))

(* The record and the read at the hint overlap; the first failure of the   *)
(* two ends the command, and only once both are there is the catalog's     *)
(* location looked at.                                                     *)
Together(catalog, atHint) ==
    \/ NonEmpty(Else(catalog.location, "")) = None /\ Fail("malformed")
    \/ /\ NonEmpty(Else(catalog.location, "")) # None
       /\ \/ AtHint(catalog.location) /\ Table(atHint, catalog)
          \/ /\ ~AtHint(catalog.location)
             /\ waiting' = {ReadAt(catalog.location)} /\ UNCHANGED result

Hinted == NonEmpty(situation.hint) # None

TableRecordRead(call, answer) ==
    /\ situation.op = "get table" /\ call.route = "record"
    /\ Hear(call, answer) /\ JsonError(answer) = None
    /\ record' = answer.body
    /\ \/ Hinted /\ info = None /\ Then(call, {}) /\ UNCHANGED result
       \/ Hinted /\ info # None /\ Together(answer.body, info)
       \/ ~Hinted /\ Together(answer.body, None)
    /\ UNCHANGED <<listed, info>>

MetadataRead(call, answer) ==
    /\ call.route = "metadata" /\ Hear(call, answer) /\ answer.body.error = None
    /\ LET loaded == answer.body.info IN
       \/ /\ Hinted /\ info = None /\ record = None
          /\ info' = loaded /\ Then(call, {}) /\ UNCHANGED result
       \/ /\ Hinted /\ info = None /\ record # None
          /\ info' = loaded /\ Together(record, loaded)
       \/ (Hinted => info # None) /\ Table(loaded, record) /\ UNCHANGED info
    /\ UNCHANGED <<listed, record>>

(* Of the current id, else the first there is.                             *)
Current(items, id) ==
    LET current == SelectSeq(items, LAMBDA item : item.id = id)
    IN  IF items = <<>> THEN <<>>
        ELSE IF current # <<>> THEN Head(current).fields ELSE Head(items).fields

(* An Iceberg REST catalog has the metadata in the answer.                 *)
IcebergInfo(loaded) ==
    LET metadata == loaded.metadata
        fields == Current(metadata.schemas, metadata.schema)
    IN  [TableInfo("iceberg", loaded.location,
                   IF metadata.snapshot = None THEN 0 ELSE metadata.snapshot,
                   Current(metadata.specs, metadata.spec))
           EXCEPT !.columns = [i \in 1..Len(fields) |->
                                 [column |-> fields[i].name, type |-> NonEmpty(fields[i].type),
                                  nullable |-> ~fields[i].required, position |-> None]],
                  !.icebergProperties = metadata.properties]

(* A Delta table of a Unity catalog is refused there, and is read through  *)
(* the Unity route instead.                                                *)
LoadTable(call, answer) ==
    /\ call.route = "load table" /\ Hear(call, answer)
    /\ \/ /\ answer = NotIceberg
          /\ waiting' = {Call("record")} \cup (IF NonEmpty(situation.hint) = None THEN {}
                                               ELSE {ReadAt(situation.hint)})
          /\ UNCHANGED result
       \/ /\ JsonError(answer) = None
          /\ answer.body.location = "" \/ answer.body.metadata = None
          /\ Fail("malformed")
       \/ /\ JsonError(answer) = None
          /\ answer.body.location # "" /\ answer.body.metadata # None
          /\ Return(Resource(IcebergInfo(answer.body), situation.name))
    /\ UNCHANGED <<listed, record, info>>

-----------------------------------------------------------------------------
(* Credentials.                                                            *)

DefaultStorage(document) == document.kind = "TABLE_DB_STORAGE"
IsView(document) == \/ document.type \in {"VIEW", "MATERIALIZED_VIEW"}
                    \/ NonEmpty(Else(document.location, "")) = None

Eligibility(document) ==
    IF IsView(document) THEN Ineligible("not a table")
    ELSE IF DefaultStorage(document) THEN Ineligible("no external read") ELSE Eligible

CheckRecord(call, answer) ==
    /\ situation.op = "check credentials" /\ call.route = "record"
    /\ Hear(call, answer) /\ JsonError(answer) = None
    /\ Return(Eligibility(answer.body))
    /\ UNCHANGED <<listed, record, info>>

(* The AWS options of a config; None without a key or a secret.            *)
AwsOptions(config) == IF Usable(config) THEN config ELSE None

(* loadCredentials is for one table: its first credential with keys.       *)
CredentialOptions(credentials) ==
    LET usable == {i \in 1..Len(credentials) : AwsOptions(credentials[i].config) # None}
    IN  IF usable = {} THEN None ELSE AwsOptions(credentials[Min(usable)].config)

Covers(credential, location) ==
    credential.prefix # <<>> /\ IsPrefix(credential.prefix, location)

(* Mutant: the first prefix that covers the location, however short.       *)
MatchingConfigFirst(credentials, location) ==
    LET covering == {i \in 1..Len(credentials) : Covers(credentials[i], location)}
    IN  IF covering = {} THEN None ELSE credentials[Min(covering)].config

(* The longest prefix of the location, the last of them if several are.    *)
MatchingConfig(credentials, location) ==
    LET covering == {i \in 1..Len(credentials) : Covers(credentials[i], location)}
        Longer(i, j) == \/ Len(credentials[i].prefix) < Len(credentials[j].prefix)
                        \/ Len(credentials[i].prefix) = Len(credentials[j].prefix) /\ i <= j
    IN  IF covering = {} THEN None
        ELSE credentials[CHOOSE j \in covering : \A i \in covering : Longer(i, j)].config

Vendable(document) ==
    ~DefaultStorage(document) /\ NonEmpty(Else(document.id, "")) # None

VendRecord(call, answer) ==
    /\ situation.op = "get credentials" /\ call.route = "record"
    /\ Hear(call, answer) /\ JsonError(answer) = None
    /\ \/ ~Vendable(answer.body) /\ Return(None)
       \/ Vendable(answer.body) /\ Then(call, {Call("mint")}) /\ UNCHANGED result
    /\ UNCHANGED <<listed, record, info>>

(* 404 and 501: the catalog has no such route, or vends nothing.           *)
NothingVended(call, answer) ==
    \/ call.route \in {"mint", "delegated"} /\ answer.status \in {"404", "501"}
    \/ call.route = "mint" /\ answer = Serverless

(* What an answered call makes the command fail with.                      *)
VendError(call, answer) ==
    IF answer.status = "lost" THEN "transport"
    ELSE IF NothingVended(call, answer) THEN None
    ELSE IF answer.status # "200"
    THEN IF call.route = "credentials" \/ (call.route = "delegated" /\ answer = NotIceberg)
         THEN None ELSE "status"
    ELSE IF answer.body = None THEN "body" ELSE None

Vended(call, document) ==
    CASE call.route = "mint"        -> document.aws
      [] call.route = "credentials" -> CredentialOptions(document)
      [] call.route = "delegated"   ->
           AwsOptions(Else(MatchingConfig(document.credentials, document.location),
                           document.config))

(* loadCredentials gives way to the delegated loadTable on any status but  *)
(* 200, and that to the Unity route on the refusal of a Delta table.       *)
Vend(call, answer) ==
    /\ call.route \in {"mint", "credentials", "delegated"} /\ Hear(call, answer)
    /\ \/ VendError(call, answer) # None /\ Fail(VendError(call, answer))
       \/ NothingVended(call, answer) /\ Return(None)
       \/ /\ VendError(call, answer) = None /\ ~NothingVended(call, answer)
          /\ \/ answer.status = "200" /\ Return(Vended(call, answer.body))
             \/ /\ answer.status # "200" /\ UNCHANGED result
                /\ Then(call, {Call(IF call.route = "credentials" THEN "delegated" ELSE "record")})
    /\ UNCHANGED <<listed, record, info>>

Done == result # None /\ UNCHANGED vars

Next ==
    \/ Start
    \/ \E call \in waiting : \E answer \in Answers(call) :
          \/ Refused(call, answer) \/ ListPage(call, answer) \/ GetOne(call, answer)
          \/ TableRecordRead(call, answer) \/ MetadataRead(call, answer)
          \/ LoadTable(call, answer)
          \/ CheckRecord(call, answer) \/ VendRecord(call, answer) \/ Vend(call, answer)
    \/ Done

Spec == Init /\ [][Next]_vars

-----------------------------------------------------------------------------
(* Properties.                                                             *)

Ok == result # None /\ result.error = None
Heard(route) == {heard[i].answer : i \in {j \in 1..Len(heard) : heard[j].call.route = route}}
Bodies(route) == {a.body : a \in {x \in Heard(route) : x.status = "200"}} \ {None}
LastHeard == heard[Len(heard)]

(* The record of an Iceberg catalog's inline metadata.                     *)
Inlined(value, document) ==
    /\ value.uri = document.location
    /\ value.version = Else(document.metadata.snapshot, 0)

(* The record of the table where the catalog's document says it is.        *)
There(value, document) ==
    LET there == situation.places[document.location].info
        properties == Else(document.properties, <<>>)
    IN
    /\ value.uri = document.location
    /\ value.version = there.version /\ value.format = there.format
    /\ [i \in 1..Len(value.columns) |-> value.columns[i].column] =
         IF document.columns = <<>>
         THEN [i \in 1..Len(there.columns) |-> there.columns[i].column]
         ELSE [i \in 1..Len(document.columns) |-> document.columns[i].name]
    /\ \A k \in DOMAIN properties : value.properties[k] = properties[k]
    /\ value.format = "delta" =>
         \A k \in DOMAIN there.deltaProperties \ DOMAIN properties :
            value.properties[k] = there.deltaProperties[k]

(* "The catalog's own location stays authoritative": whatever the reference *)
(* says, and whichever of the overlapping reads ends first, the record that *)
(* is returned is the metadata of the location the catalog named, with the  *)
(* catalog's columns if it has any and its properties over the log's; and   *)
(* an Iceberg catalog's is its inline metadata, read from no store.         *)
OneTable ==
    situation.op = "get table" /\ Ok =>
      IF Bodies("record") = {}
      THEN /\ \E document \in Bodies("load table") : Inlined(result.value, document)
           /\ Bodies("metadata") = {}
      ELSE \E document \in Bodies("record") :
             /\ \E i \in 1..Len(heard) : heard[i].call = ReadAt(document.location)
             /\ There(result.value, document)

(* The config a delegated load has for its location: of a credential no    *)
(* other covers it with a longer prefix than, or its own if none does.     *)
Fits(config, document) ==
    LET covering == {c \in ToSet(document.credentials) : Covers(c, document.location)}
    IN  IF covering = {} THEN config = document.config
        ELSE \E c \in covering : /\ config = c.config
                                 /\ \A d \in covering : Len(d.prefix) <= Len(c.prefix)

(* The lease is what the last answer vends for the table.                  *)
Leased(lease, call, document) ==
    /\ Usable(lease)
    /\ \/ call.route = "mint" /\ lease = document.aws
       \/ /\ call.route = "credentials"
          /\ \E i \in 1..Len(document) :
               lease = document[i].config /\ \A j \in 1..i - 1 : ~Usable(document[j].config)
       \/ call.route = "delegated" /\ Fits(lease, document)

(* The answer says that there is none.                                     *)
NoLease(call, answer) ==
    \/ call.route \in {"mint", "delegated"} /\ answer.status \in {"404", "501"}
    \/ call.route = "mint" /\ answer = Serverless
    \/ LET document == answer.body IN
       /\ answer.status = "200" /\ document # None
       /\ \/ call.route = "mint" /\ document.aws = None
          \/ /\ call.route = "record"
             /\ document.kind = "TABLE_DB_STORAGE" \/ document.id \in {None, ""}
          \/ call.route = "credentials" /\ \A c \in ToSet(document) : ~Usable(c.config)
          \/ /\ call.route = "delegated"
             /\ \E config \in {document.config} \cup {c.config : c \in ToSet(document.credentials)} :
                  Fits(config, document) /\ ~Usable(config)

(* A lease is one the catalog vended for the table: minted for its id, the *)
(* first usable one of its credentials, or of a delegated load the one     *)
(* with the longest prefix of the table's location, the catalog's config   *)
(* only if none covers it.  Default storage is never asked for one, and a  *)
(* command that ends with none was told so.                                *)
LeaseFits ==
    situation.op = "get credentials" =>
      /\ \A document \in Bodies("record") :
            document.kind = "TABLE_DB_STORAGE" =>
              Heard("mint") = {} /\ Call("mint") \notin waiting
      /\ Ok => IF result.value # None
               THEN Leased(result.value, LastHeard.call, LastHeard.answer.body)
               ELSE NoLease(LastHeard.call, LastHeard.answer)

(* The entries of all the pages of the collection, and what they become.   *)
Entries == UNION {{t} \X (1..Len(situation.pages[t].entries)) : t \in DOMAIN situation.pages}
EntryItem(e) == Item(situation.pages[e[1]].entries[e[2]])

(* A listing is the whole collection or an error: every entry of every     *)
(* page, the pages after an empty one too, as often as it is there and in  *)
(* the order of names; and it fails only for an answer that failed, a      *)
(* token or name the catalog could not read, or an entry without a name.   *)
WholeListing ==
    Listing /\ result # None /\ heard # <<>> =>
      IF Ok
      THEN /\ \A item \in ToSet(result.value) \cup {EntryItem(e) : e \in Entries} :
                /\ item # None
                /\ Cardinality({i \in 1..Len(result.value) : result.value[i] = item})
                     = Cardinality({e \in Entries : EntryItem(e) = item})
           /\ \A i, j \in 1..Len(result.value) :
                i < j => ~NameBefore(result.value[j], result.value[i])
      ELSE LET answer == LastHeard.answer IN
           \/ answer.status # "200" \/ answer.body = None
           \/ \E i \in DOMAIN answer.body.entries : Item(answer.body.entries[i]) = None
=============================================================================
