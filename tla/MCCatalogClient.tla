-------------------------- MODULE MCCatalogClient --------------------------
(***************************************************************************)
(* Commands and catalogs for CatalogClient.                                *)
(***************************************************************************)
EXTENDS CatalogClient

Ask(op, dialect, name) ==
    [op |-> op, dialect |-> dialect, name |-> name, hint |-> "", system |-> FALSE,
     reserved |-> {"t+1", "c/1"}, pages |-> <<>>, places |-> <<>>, documents |-> <<>>]

-----------------------------------------------------------------------------
(* Listings: the pages of a chain of tokens, one of them empty.            *)

Chain(token, first, second, third) ==
    (None :> [entries |-> first, next |-> token])
    @@ (token :> [entries |-> second, next |-> "t2"])
    @@ ("t2" :> [entries |-> third, next |-> ""])
OnePage(entries) == None :> [entries |-> entries, next |-> None]

Catalogs == {<<[name |-> <<2>>, kind |-> "MANAGED_CATALOG"]>>,
             <<[name |-> <<3>>, kind |-> "DELTASHARING"], [name |-> <<1>>, kind |-> None]>>}
UnitySchemas == {<<>>, <<<<2>>, <<1, 9>>>>, <<<<1>>>>, <<<<>>>>}
Namespaces == {<<>>, <<<<<<2>>>>, <<<<1>>, <<9>>>>>>, <<<<<<1>>>>>>, <<<<>>>>, <<<<<<1>>, <<>>>>>>}
UnityEntry(full, name, uri) == [full |-> full, name |-> name, uri |-> uri]
UnityTables == {<<>>, <<UnityEntry(<<8, 8, 3>>, <<4>>, "s3://b/t3"), UnityEntry(<<>>, <<1, 2>>, "")>>,
                <<UnityEntry(<<>>, <<7>>, "s3://b/t7")>>, <<UnityEntry(<<>>, <<>>, "s3://b/x")>>}
Identifiers == {<<>>, <<[parts |-> <<<<5>>, <<6>>>>, name |-> <<4>>], [parts |-> <<>>, name |-> <<1, 2>>]>>,
                <<[parts |-> <<>>, name |-> <<7>>]>>, <<[parts |-> <<<<5>>>>, name |-> <<>>]>>}

Listings(op, dialect, name, pages) ==
    {[Ask(op, dialect, name) EXCEPT !.pages = Chain(token, first, second, third)] :
       token \in {"t1", "t+1"}, first \in pages, second \in pages, third \in pages}
    \cup {[Ask(op, dialect, name) EXCEPT !.pages = OnePage(first)] : first \in pages}

AllListings ==
    Listings("list catalogs", "unity", "all", Catalogs \cup {<<>>})
    \cup Listings("list schemas", "unity", <<5>>, UnitySchemas)
    \cup Listings("list schemas", "iceberg", <<5>>, Namespaces)
    \cup Listings("list tables", "unity", << <<5>>, <<6>> >>, UnityTables)
    \cup Listings("list tables", "iceberg", << <<5>>, <<6>> >>, Identifiers)
    \cup {Ask("list schemas", "unity", None)}

-----------------------------------------------------------------------------
(* Tables: three places, and a catalog that names one of them or none.     *)

Column(n) == [column |-> n, type |-> "int", nullable |-> TRUE, position |-> None]
At(uri, format, version) ==
    [TableInfo(format, uri, version, <<"p">>) EXCEPT
       !.columns = <<Column("x"), Column("y")>>,
       !.deltaProperties = IF format = "delta" THEN [k |-> uri, own |-> "log"] ELSE <<>>,
       !.icebergProperties = IF format = "iceberg" THEN [k |-> uri] ELSE <<>>]
Place(local, is, markers, broken, loaded) ==
    [local |-> local, is |-> is, markers |-> markers, broken |-> broken, info |-> loaded]
Places ==
    [here  |-> Place(FALSE, "directory", {"commit 0"}, {}, At("here", "delta", 7)),
     moved |-> Place(FALSE, "directory", {"version hint"}, {}, At("moved", "iceberg", 8)),
     disk  |-> Place(TRUE, "directory", {"delta log", "metadata json"}, {}, At("disk", "delta", 9)),
     ice   |-> Place(TRUE, "directory", {"metadata json"}, {}, At("ice", "iceberg", 10)),
     gone  |-> Place(FALSE, "directory", {}, {}, None),
     torn  |-> Place(TRUE, "directory", {"version hint"}, {}, None),
     shut  |-> Place(FALSE, "directory", {"version hint"}, {"last checkpoint"}, None)]

Record(location, columns, properties) ==
    [location |-> location, columns |-> columns, properties |-> properties]
Declared == [name |-> "z", typeText |-> None, typeName |-> "LONG", nullable |-> None]
TableRecords ==
    {Record(location, columns, properties) :
       location \in {None, "", "here", "moved", "disk", "ice", "gone", "torn", "shut"},
       columns \in {<<>>, <<Declared>>}, properties \in {None, [k |-> "catalog"]}}

Inline(location, metadata) == [location |-> location, metadata |-> metadata]
Schemas == <<[id |-> 1, fields |-> <<[name |-> "a", type |-> "int", required |-> TRUE]>>],
             [id |-> 2, fields |-> <<[name |-> "b", type |-> "", required |-> FALSE]>>]>>
Metadata(snapshot, schema) ==
    [snapshot |-> snapshot, schema |-> schema, spec |-> 0, specs |-> <<>>,
     schemas |-> Schemas, properties |-> [k |-> "inline"]]
LoadedTables == {Inline("", Metadata(1, 1)), Inline("m1", None)}
                \cup {Inline("m1", Metadata(n, schema)) : n \in {None, 3}, schema \in {2, 9}}

TableName == << <<5>>, <<6>>, <<7>> >>
Tables ==
    {[Ask("get table", "unity", TableName) EXCEPT
        !.hint = hint, !.places = Places, !.documents = [record |-> document]] :
       hint \in {"", "here", "ice", "gone"}, document \in TableRecords}
    \cup {[Ask("get table", "iceberg", TableName) EXCEPT
        !.hint = hint, !.places = Places,
        !.documents = [record |-> Record("moved", <<>>, None)] @@ ("load table" :> document)] :
       hint \in {"", "here"}, document \in LoadedTables}

-----------------------------------------------------------------------------
(* Credentials: prefixes of the table's directory, of its parent, of a     *)
(* sibling's name, and of nothing.                                         *)

Keys(n) == [key |-> n, secret |-> n, token |-> None]
NoKeys == [key |-> None, secret |-> "s", token |-> None]
Covering(prefix, config) == [prefix |-> prefix, config |-> config]
Directory == <<"b", "/", "t", "/">>
Credentials ==
    {<<>>, <<Covering(<<>>, Keys("empty")), Covering(<<"b">>, Keys("bucket"))>>,
     <<Covering(<<"b">>, Keys("bucket")), Covering(Directory, Keys("table")),
       Covering(<<"b", "/", "t", "2">>, Keys("sibling"))>>,
     <<Covering(Directory, NoKeys), Covering(<<"b">>, Keys("bucket"))>>,
     <<Covering(<<"b">>, Keys("one")), Covering(<<"b">>, Keys("two"))>>}
Delegated == {[location |-> Directory, credentials |-> cs, config |-> config] :
                cs \in Credentials, config \in {NoKeys, Keys("config")}}

VendRecords == {[kind |-> kind, id |-> id, type |-> type, location |-> location] :
                  kind \in {None, "TABLE_DB_STORAGE", "TABLE_DELTA"}, id \in {None, "", "id"},
                  type \in {"MANAGED", "VIEW"}, location \in {None, "here"}}
Vending(dialect, document, cs, delegated, minted) ==
    [Ask("get credentials", dialect, TableName) EXCEPT
       !.documents = [record |-> document, credentials |-> cs, delegated |-> delegated,
                      mint |-> [aws |-> minted]]]
AnyDelegated == CHOOSE d \in Delegated : TRUE
Leases ==
    {Vending("unity", document, <<>>, AnyDelegated, minted) :
       document \in VendRecords, minted \in {None, Keys("minted")}}
    \cup {Vending("iceberg", document, cs, delegated, Keys("minted")) :
       document \in {d \in VendRecords : d.type = "MANAGED" /\ d.location = None},
       cs \in Credentials, delegated \in Delegated}
    \cup {[Ask("check credentials", dialect, TableName) EXCEPT
             !.system = system, !.documents = [record |-> document]] :
       dialect \in {"unity", "iceberg"}, system \in BOOLEAN, document \in VendRecords}

-----------------------------------------------------------------------------
Ones ==
    {[Ask("get metastore", "unity", "m") EXCEPT
        !.documents = [one |-> [name |-> "m", uid |-> "u", cloud |-> "", region |-> "r"]]]}
    \cup {[Ask("get catalog", "unity", name) EXCEPT
        !.documents = [one |-> [name |-> <<1>>, kind |-> "OTHER", comment |-> "", owner |-> "o"]]] :
       name \in {"c1", "c/1"}}
    \cup {[Ask("get schema", "unity", << <<5>>, <<6>> >>) EXCEPT
        !.documents = [one |-> [name |-> <<>>, location |-> "", properties |-> None]]],
          [Ask("get schema", "iceberg", << <<5>>, <<6>> >>) EXCEPT
        !.documents = [one |-> [parts |-> <<<<6>>, <<1>>>>,
                                properties |-> [location |-> "s3://b/s", k |-> "v"]]]]}

AllSituations == AllListings \cup Tables \cup Leases \cup Ones
=============================================================================
