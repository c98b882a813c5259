------------------------------- MODULE Manifest -------------------------------
(***************************************************************************)
(* A publish request on its way to the index: the body with its two        *)
(* lengths, the entries of the tarball, the manifest and its checks, the   *)
(* dependencies and features as they are stored, and the entry that is     *)
(* written to the index for them.  Who may publish is checked meanwhile    *)
(* (Publication, Auth); one request runs here, for every input of the      *)
(* small sets below.  Strings whose syntax is checked are sequences of     *)
(* tokens; "d" and the names of features stand for letters.                *)
(***************************************************************************)
EXTENDS Naturals, Sequences, FiniteSets, SequencesExt

CONSTANTS
  MaxJson,        \* MAX_JSON_LENGTH
  MaxUpload,      \* max_upload_size of the configuration
  MaxUnpack,      \* max_unpack_size of the configuration
  MaxNameLength,  \* MAX_NAME_LENGTH
  MaxFeatures,    \* max_features
  MaxDeps,        \* max_dependencies
  SplitLimit,     \* ITERATION_LIMIT of split_features
  Values,         \* bound: the tokens of feature values, and
  MaxTokens,      \*   how many one has
  MaxEntries      \* bound: entries of a tarball

ASSUME ManifestAssumption ==
  /\ {MaxJson, MaxUpload, MaxUnpack, MaxNameLength, MaxFeatures, MaxDeps, SplitLimit,
      MaxTokens, MaxEntries} \subseteq Nat \ {0}

VARIABLES
  input,     \* the request
  publish,   \* where the handler is, and what it has read
  stored     \* what it stored, and the index entry that was made of it

manifestVars == <<input, publish, stored>>

Absent == "absent"

-----------------------------------------------------------------------------
(* Names and features (crates_io_validation).                              *)

Digits == {"1"}
Other == {"-", "_", ".", "?", "/", "dep:", "+", "*"}
Letter(t) == t \notin Digits \cup Other

\* validate_crate_name
ValidCrateName(s) ==
  /\ Len(s) \in 1..MaxNameLength
  /\ Letter(s[1])
  /\ \A i \in 2..Len(s) : Letter(s[i]) \/ s[i] \in Digits \cup {"-", "_"}

\* validate_dependency_name: may begin with an underscore
ValidDependencyName(s) ==
  /\ Len(s) \in 1..MaxNameLength
  /\ Letter(s[1]) \/ s[1] = "_"
  /\ \A i \in 2..Len(s) : Letter(s[i]) \/ s[i] \in Digits \cup {"-", "_"}

ValidFeatureName(s) ==
  /\ s # <<>>
  /\ Letter(s[1]) \/ s[1] \in Digits \cup {"_"}
  /\ \A i \in 2..Len(s) : Letter(s[i]) \/ s[i] \in Digits \cup {"_", "+", "-", "."}

\* split_once
Occurs(t, s) == \E i \in DOMAIN s : s[i] = t
FirstAt(t, s) == CHOOSE i \in DOMAIN s : s[i] = t /\ \A j \in 1..(i - 1) : s[j] # t
BeforeToken(t, s) == SubSeq(s, 1, FirstAt(t, s) - 1)
AfterToken(t, s) == SubSeq(s, FirstAt(t, s) + 1, Len(s))

WithoutMark(s) == IF s # <<>> /\ Last(s) = "?" THEN Front(s) ELSE s

\* validate_feature
ValidFeature(s) ==
  IF Occurs("/", s)
  THEN /\ ValidDependencyName(WithoutMark(BeforeToken("/", s)))
       /\ ValidFeatureName(AfterToken("/", s))
  ELSE IF Occurs("dep:", s) THEN ValidDependencyName(AfterToken("dep:", s))
  ELSE ValidFeatureName(s)

-----------------------------------------------------------------------------
(* The tarball.                                                            *)

Entry(path, type, pax, size, content) ==
  [path |-> path, type |-> type, pax |-> pax, size |-> size, content |-> content]

\* "Cargo.toml" and its other cases, in the root of the package
ManifestPaths == {"Cargo.toml", "cargo.toml", "CARGO.TOML"}

\* Contents of a manifest: two good ones, and one that validate_manifest refuses.
Contents == {"good", "good2", "workspace"}

Entries ==
  {Entry(p, "file", "none", 1, c) : p \in ManifestPaths, c \in Contents}
    \cup {Entry("src/lib.rs", "file", pax, n, "code") : pax \in {"same", "other", "bad"}, n \in {1, 2}}
    \cup {Entry("src/lib.rs", type, "none", 1, "code") : type \in {"symlink", "hardlink", "device"}}
    \cup {Entry("../other-1.0.0/src/lib.rs", "file", "none", 1, "code"),
          Entry("sub/Cargo.toml", "file", "none", 1, "workspace")}

\* validate_manifest: no package, a [patch] table, or something inherited from a workspace
ManifestRefused(content) == content = "workspace"

\* validate_pax_size, the prefix of the path, the type, and for a manifest
\* validate_manifest
EntryRefused(e) ==
  \/ e.pax \in {"other", "bad"}
  \/ e.path = "../other-1.0.0/src/lib.rs"
  \/ e.type \in {"symlink", "hardlink", "device"}
  \/ e.path \in ManifestPaths /\ ManifestRefused(e.content)

\* A header is one block, and so is the end of the archive.
Blocks(e) == 1 + e.size
RECURSIVE AllBlocks(_)
AllBlocks(s) == IF s = <<>> THEN 1 ELSE Blocks(Head(s)) + AllBlocks(Tail(s))

UnpackLimit == IF MaxUnpack >= input.maxUpload THEN MaxUnpack ELSE input.maxUpload

\* Mutant: at the limit the reader says the archive has ended.
ReadLimit_ends(read) == "end"

\* LimitErrorReader: at the limit the reader fails.
ReadLimit(read) == "fail"

-----------------------------------------------------------------------------
(* The requests.                                                           *)

GoodBody == [json |-> 1, tarball |-> 1, length |-> 4]
GoodEntries == <<Entry("Cargo.toml", "file", "none", 1, "good")>>
GoodFields ==
  [name |-> TRUE, version |-> TRUE, description |-> "given", license |-> "known",
   license_file |-> Absent, url |-> Absent, rust_version |-> Absent,
   keywords |-> <<>>, categories |-> 0]
NoFeatures == [f \in {} |-> {}]

Request(body, entries, fields, features, deps, maxUpload) ==
  [body |-> body, entries |-> entries, fields |-> fields, features |-> features,
   deps |-> deps, maxUpload |-> maxUpload]

Bodies == [json : 0..MaxJson + 1, tarball : 0..MaxUpload + 2, length : 0..MaxJson + MaxUpload + 3]

FieldSets ==
  [name : BOOLEAN, version : BOOLEAN, description : {Absent, "empty", "given", "long"},
   license : {Absent, "empty", "known", "unknown"}, license_file : {Absent, "empty", "given"},
   url : {Absent, "good", "relative", "broken"}, rust_version : {Absent, "good", "caret"},
   keywords : {<<>>, <<"long">>, <<"good", "bad">>, <<"good", "good", "good", "good", "good", "good">>},
   categories : {0, 5, 6}]

\* The fields that differ from good ones: at most two, to see which error comes first.
NearlyGood(f) == Cardinality({k \in DOMAIN f : f[k] # GoodFields[k]}) <= 2

FeatureRefs == {"f1", "f2", "f3"}
FeatureMaps ==
  [FeatureRefs -> SUBSET ({<<f>> : f \in FeatureRefs} \cup {<<"dep:", "d">>})]
    \cup {[k \in {"f1"} |-> {v}] : v \in UNION {[1..n -> Values] : n \in 1..MaxTokens}}

Dep(key, package, kind, target, req, optional, registry) ==
  [key |-> key, package |-> package, kind |-> kind, target |-> target, req |-> req,
   optional |-> optional, registry |-> registry]

DepChoices ==
  {Dep(k, p, kind, t, "1", o, Absent) :
     k \in {<<"d">>, <<"_", "d">>}, p \in {<<>>, <<"d">>, <<"e">>},
     kind \in {"normal", "build", "dev"}, t \in {Absent, "unix"}, o \in BOOLEAN}
    \cup {Dep(<<"e">>, p, "normal", Absent, "^1", FALSE, Absent) : p \in {<<>>, <<"D">>, <<"-">>}}
    \cup {Dep(<<"d">>, <<>>, "dev", Absent, req, FALSE, reg) :
            req \in {"*", "bad", "=1"}, reg \in {Absent, "", "elsewhere"}}

DepSeqs ==
  {<<d>> : d \in DepChoices} \cup {<<d, e>> : d, e \in DepChoices}
    \cup {[i \in 1..MaxDeps + 1 |-> Dep(<<"d">>, <<>>, "normal", Absent, "1", FALSE, Absent)]}

\* Keys of one table of the manifest are different.
Table(d) == <<d.kind, d.target>>
OneTable(s) == \A i, j \in DOMAIN s : i # j /\ Table(s[i]) = Table(s[j]) => s[i].key # s[j].key

\* Crates there are.
Known == {<<"d">>, <<"e">>}

\* What the handler has before it has read any of the request.
PublishBegins ==
  /\ publish = [pc |-> "metadata", left |-> input.body.length, allocated |-> 0, read |-> 0,
                entries |-> input.entries, manifests |-> NoFeatures, manifest |-> Absent,
                license |-> Absent, deps |-> <<>>, error |-> Absent]
  /\ stored = [rows |-> <<>>, deps |-> <<>>, features |-> NoFeatures, features2 |-> NoFeatures,
               warned |-> FALSE]

ManifestInit ==
  /\ \/ \E b \in Bodies, m \in {MaxUpload, MaxUpload + 1} :
          input = Request(b, GoodEntries, GoodFields, NoFeatures, <<>>, m)
     \/ \E n \in 0..MaxEntries : \E s \in [1..n -> Entries] :
          input = Request(GoodBody, s, GoodFields, NoFeatures, <<>>, MaxUpload)
     \/ \E f \in FieldSets :
          NearlyGood(f) /\ input = Request(GoodBody, GoodEntries, f, NoFeatures, <<>>, MaxUpload)
     \/ \E f \in FeatureMaps :
          input = Request(GoodBody, GoodEntries, GoodFields, f, <<>>, MaxUpload)
     \/ \E d \in DepSeqs :
          /\ Len(d) > MaxDeps \/ OneTable(d)
          /\ input = Request(GoodBody, GoodEntries, GoodFields, NoFeatures, d, MaxUpload)
  /\ PublishBegins

-----------------------------------------------------------------------------
(* The handler.                                                            *)

Refuse(error) ==
  /\ publish' = [publish EXCEPT !.pc = "refused", !.error = error]
  /\ UNCHANGED <<input, stored>>

\* read_json_metadata, read_tarball_bytes: a length, one unit here, and that many bytes.
\* The first is part of the length of the body here, too.
ReadSection(at, next, limit, length) ==
  /\ publish.pc = at
  /\ IF publish.left < 1 THEN Refuse("invalid length")
     ELSE IF length > limit THEN Refuse("too large")
     ELSE IF publish.left < 1 + length
          THEN /\ publish' = [publish EXCEPT !.pc = "refused", !.error = "invalid length",
                                             !.allocated = @ + length]
               /\ UNCHANGED <<input, stored>>
     ELSE /\ publish' = [publish EXCEPT !.pc = next, !.left = @ - 1 - length, !.allocated = @ + length]
          /\ UNCHANGED <<input, stored>>

ReadJsonMetadata == ReadSection("metadata", "tarball", MaxJson, input.body.json)
ReadTarballBytes == ReadSection("tarball", "entries", input.maxUpload, input.body.tarball)

\* process_tarball: one entry; an entry beyond the limit is not seen.
ReadEntry ==
  /\ publish.pc = "entries" /\ publish.entries # <<>>
  /\ LET e == Head(publish.entries)
         read == publish.read + Blocks(e)
         over == read >= UnpackLimit
     IN IF over
        THEN IF ReadLimit(read) = "fail" THEN Refuse("malformed or too large")
             ELSE publish' = [publish EXCEPT !.entries = <<>>] /\ UNCHANGED <<input, stored>>
        ELSE IF EntryRefused(e) THEN Refuse("entry")
        ELSE /\ publish' = [publish EXCEPT
                  !.read = read, !.entries = Tail(@),
                  !.manifests = IF e.path \notin ManifestPaths THEN @
                                ELSE [p \in DOMAIN @ \cup {e.path} |->
                                        IF p = e.path THEN e.content ELSE @[p]]]
             /\ UNCHANGED <<input, stored>>

\* process_tarball: the end of the archive, and the one manifest.
FinishTarball ==
  /\ publish.pc = "entries" /\ publish.entries = <<>>
  /\ LET paths == DOMAIN publish.manifests
     IN IF publish.read + 1 >= UnpackLimit /\ ReadLimit(publish.read) = "fail"
        THEN Refuse("malformed or too large")
        ELSE IF Cardinality(paths) > 1 THEN Refuse("too many manifests")
        ELSE IF paths = {} THEN Refuse("missing manifest")
        ELSE IF paths = {"CARGO.TOML"} THEN Refuse("incorrectly cased manifest")
        ELSE /\ publish' = [publish EXCEPT !.pc = "package",
                                           !.manifest = publish.manifests[CHOOSE p \in paths : TRUE]]
             /\ UNCHANGED <<input, stored>>

\* package.name, package.version against the metadata
CheckPackage ==
  /\ publish.pc = "package"
  /\ IF ~input.fields.name THEN Refuse("name does not match")
     ELSE IF ~input.fields.version THEN Refuse("version does not match")
     ELSE publish' = [publish EXCEPT !.pc = "fields"] /\ UNCHANGED <<input, stored>>

\* empty
IsMissing(v) == v \in {Absent, "empty"}

\* parse_license_expr: the empty expression is none.
LicenseParses(v) == v = "known"

ValidUrl(v) == v \notin {"relative", "broken"}
ValidRustVersion(v) == v # "caret"
ValidKeyword(k) == k = "good"

CheckFields ==
  /\ publish.pc = "fields"
  /\ LET f == input.fields
     IN IF IsMissing(f.description) \/ (IsMissing(f.license) /\ IsMissing(f.license_file))
        THEN Refuse("missing metadata")
        ELSE IF \/ f.description = "long"
                \/ f.license # Absent /\ ~LicenseParses(f.license)
                \/ ~ValidUrl(f.url) \/ ~ValidRustVersion(f.rust_version)
                \/ Len(f.keywords) > 5 \/ \E i \in DOMAIN f.keywords : ~ValidKeyword(f.keywords[i])
                \/ f.categories > 5
        THEN Refuse("field")
        ELSE /\ publish' = [publish EXCEPT !.pc = "features",
                  !.license = IF f.license # Absent THEN f.license
                              ELSE IF f.license_file # Absent THEN "non-standard" ELSE Absent]
             /\ UNCHANGED <<input, stored>>

CheckFeatures ==
  /\ publish.pc = "features"
  /\ LET f == input.features
     IN IF \/ Cardinality(DOMAIN f) > MaxFeatures
           \/ \E k \in DOMAIN f : ~ValidFeatureName(<<k>>) \/ Cardinality(f[k]) > MaxFeatures
           \/ \E k \in DOMAIN f : \E v \in f[k] : ~ValidFeature(v)
        THEN Refuse("features")
        ELSE publish' = [publish EXCEPT !.pc = "deps"] /\ UNCHANGED <<input, stored>>

\* VersionReq::parse and to_string
NormalizedReq(req) == IF req = "1" THEN "^1" ELSE req

\* convert_dependency
ConvertDependency(d) ==
  [name |-> IF d.package = <<>> THEN d.key ELSE d.package,
   explicit |-> IF d.package = <<>> THEN <<>> ELSE d.key,
   kind |-> d.kind, target |-> d.target, req |-> NormalizedReq(d.req),
   optional |-> d.optional, registry |-> d.registry]

\* convert_dependencies: the tables one after the other.
TableOrder ==
  <<<<"normal", Absent>>, <<"dev", Absent>>, <<"build", Absent>>,
    <<"normal", "unix">>, <<"dev", "unix">>, <<"build", "unix">>>>
ConvertDependencies(s) ==
  LET of(i) == SelectSeq(s, LAMBDA d : Table(d) = TableOrder[i])
      all == of(1) \o of(2) \o of(3) \o of(4) \o of(5) \o of(6)
  IN [i \in DOMAIN all |-> ConvertDependency(all[i])]

\* validate_dependency
ValidDependency(d) ==
  /\ ValidCrateName(d.name)
  /\ d.registry \in {Absent, ""}
  /\ d.req \notin {"bad", "*"}
  /\ d.explicit # <<>> => ValidDependencyName(d.explicit)

CheckDependencies ==
  /\ publish.pc = "deps"
  /\ LET deps == ConvertDependencies(input.deps)
     IN IF Len(deps) > MaxDeps \/ \E i \in DOMAIN deps : ~ValidDependency(deps[i])
        THEN Refuse("dependencies")
        ELSE publish' = [publish EXCEPT !.pc = "store", !.deps = deps] /\ UNCHANGED <<input, stored>>

\* add_dependencies, in the transaction
Store ==
  /\ publish.pc = "store"
  /\ IF \E i \in DOMAIN publish.deps : publish.deps[i].name \notin Known
     THEN Refuse("no known crate")
     ELSE /\ stored' = [stored EXCEPT !.rows = publish.deps]
          /\ publish' = [publish EXCEPT !.pc = "index"]
          /\ UNCHANGED input

-----------------------------------------------------------------------------
(* The index.                                                              *)

\* has_features2_syntax
NewSyntax(v) ==
  v[1] = "dep:" \/ \E i \in 1..(Len(v) - 1) : v[i] = "?" /\ v[i + 1] = "/"

Only(f, ks) == [k \in ks |-> f[k]]

\* split_features: features with the new syntax, then, up to a limit, those that depend
\* on them.
SplitFeatures(f) ==
  LET new == {k \in DOMAIN f : \E v \in f[k] : NewSyntax(v)}
      moved(ks) == {k \in DOMAIN f \ ks : \E v \in f[k] : \E g \in ks : v = <<g>>}
      split[i \in 0..SplitLimit] == IF i = 0 THEN new ELSE split[i - 1] \cup moved(split[i - 1])
      two == split[SplitLimit]
  IN [features |-> Only(f, DOMAIN f \ two), features2 |-> Only(f, two),
      warned |-> moved(split[SplitLimit - 1]) # {}]

Rank(kind) == CASE kind = "normal" -> 1 [] kind = "build" -> 2 [] kind = "dev" -> 3
NameRank(n) == CASE n = <<"_", "d">> -> 1 [] n = <<"d">> -> 2 [] n = <<"e">> -> 3 [] OTHER -> 4

\* Ord for Dependency: the name, then the kind (what comes after tells no two apart here).
DependencyBefore(a, b) ==
  \/ NameRank(a.name) < NameRank(b.name)
  \/ NameRank(a.name) = NameRank(b.name) /\ Rank(a.kind) < Rank(b.kind)

\* index_metadata: an explicit name is the name, and the crate's the package.
IndexDependency(row) ==
  [name |-> IF row.explicit # <<>> THEN row.explicit ELSE row.name,
   package |-> IF row.explicit # <<>> THEN row.name ELSE <<>>,
   kind |-> row.kind, target |-> row.target, req |-> row.req, optional |-> row.optional]

\* Rows come in any order from the database, and are sorted.
WriteIndex ==
  /\ publish.pc = "index"
  /\ LET n == Len(stored.rows)
         deps == [i \in 1..n |-> IndexDependency(stored.rows[i])]
         split == SplitFeatures(input.features)
     IN \E p \in {f \in [1..n -> 1..n] : IsInjective(f)} :
          /\ \A i, j \in 1..n : i < j => ~DependencyBefore(deps[p[j]], deps[p[i]])
          /\ stored' = [stored EXCEPT !.deps = [i \in 1..n |-> deps[p[i]]],
                                      !.features = split.features, !.features2 = split.features2,
                                      !.warned = split.warned]
  /\ publish' = [publish EXCEPT !.pc = "done"]
  /\ UNCHANGED input

ManifestNext ==
  \/ ReadJsonMetadata \/ ReadTarballBytes
  \/ ReadEntry \/ FinishTarball
  \/ CheckPackage \/ CheckFields \/ CheckFeatures \/ CheckDependencies
  \/ Store \/ WriteIndex

ManifestSpec == ManifestInit /\ [][ManifestNext]_manifestVars

-----------------------------------------------------------------------------
\* Where a request may be.
ManifestTypeOK ==
  /\ publish.pc \in {"metadata", "tarball", "entries", "package", "fields", "features", "deps",
                     "store", "index", "done", "refused"}
  /\ (publish.pc = "refused") = (publish.error # Absent)
  /\ publish.left \in 0..input.body.length

\* read_json_metadata, read_tarball_bytes: whatever lengths a body declares, the memory
\* taken for it is bounded by the limits, and what goes on is exactly what it declares.
BodyBounded ==
  /\ publish.allocated <= MaxJson + input.maxUpload
  /\ publish.pc \notin {"metadata", "tarball", "refused"} =>
       publish.left = input.body.length - input.body.json - input.body.tarball - 2

Accepted == publish.pc = "done"

\* The content of the manifest that unpacking leaves: later entries overwrite earlier
\* ones, on a file system that may not tell cases apart.
Unpacked(fold) ==
  LET same(p) == IF fold THEN p \in ManifestPaths ELSE p \in {"Cargo.toml", "cargo.toml"}
      last == CHOOSE i \in DOMAIN input.entries :
                same(input.entries[i].path)
                  /\ \A j \in (i + 1)..Len(input.entries) : ~same(input.entries[j].path)
  IN input.entries[last].content

\* process_tarball: the manifest of an accepted tarball, which everything is read from, is
\* the one that unpacking it leaves, with or without a file system that folds cases, even
\* when the tarball has it twice; and every entry was looked at, none left out at the
\* limit, with nothing outside of the package, no link, and no two sizes.
TarballSound ==
  Accepted =>
    /\ Unpacked(FALSE) = publish.manifest /\ Unpacked(TRUE) = publish.manifest
    /\ \A i \in DOMAIN input.entries :
         LET e == input.entries[i]
         IN e.type = "file" /\ e.pax \in {"none", "same"} /\ e.path # "../other-1.0.0/src/lib.rs"
    /\ AllBlocks(input.entries) < UnpackLimit

\* publish: what is published has a description and a license, which is a known one or
\* stands for a license file that the manifest names.
LicenseStored ==
  Accepted =>
    /\ input.fields.description = "given"
    /\ publish.license \in {"known", "non-standard"}
    /\ publish.license = "non-standard" => input.fields.license_file = "given"

\* How cargo reads a dependency of the index: which crate, under which name.
Meaning(d) ==
  [crate |-> IF d.package = <<>> THEN d.name ELSE d.package, as |-> d.name,
   kind |-> d.kind, target |-> d.target, req |-> d.req, optional |-> d.optional]

\* convert_dependencies, add_dependencies, index_metadata: the dependencies of the index
\* mean what those of the manifest do, renamed ones included, each as often as it is
\* there, and refer to crates that exist under that very name.
DependenciesKept ==
  Accepted =>
    LET wanted(d) == [crate |-> IF d.package = <<>> THEN d.key ELSE d.package, as |-> d.key,
                      kind |-> d.kind, target |-> d.target, req |-> NormalizedReq(d.req),
                      optional |-> d.optional]
    IN /\ Len(stored.deps) = Len(input.deps)
       /\ {Meaning(stored.deps[i]) : i \in DOMAIN stored.deps}
            = {wanted(input.deps[i]) : i \in DOMAIN input.deps}
       /\ \A i \in DOMAIN stored.deps : Meaning(stored.deps[i]).crate \in Known

\* Ord for Dependency: of several dependencies of one name the normal one comes first.
NormalFirst ==
  Accepted =>
    \A i, j \in DOMAIN stored.deps :
      i < j /\ stored.deps[i].name = stored.deps[j].name /\ stored.deps[j].kind = "normal" =>
        stored.deps[i].kind = "normal"

\* split_features: features and features2 are the features of the manifest, each in one;
\* those in features need nothing an old cargo does not know, neither the new syntax nor
\* a feature in features2, unless the limit was reached, which is logged.
FeaturesSplit ==
  Accepted =>
    /\ DOMAIN stored.features \cap DOMAIN stored.features2 = {}
    /\ DOMAIN stored.features \cup DOMAIN stored.features2 = DOMAIN input.features
    /\ \A k \in DOMAIN stored.features : \A v \in stored.features[k] :
         ~NewSyntax(v) /\ (v \in {<<g>> : g \in DOMAIN stored.features2} => stored.warned)

\* What publish accepts and stores: bodies within their limits, tarballs that unpack to
\* what was checked, and an index entry with all dependencies and features.
ManifestInv ==
  /\ ManifestTypeOK
  /\ BodyBounded
  /\ TarballSound
  /\ LicenseStored
  /\ DependenciesKept
  /\ NormalFirst
  /\ FeaturesSplit
=============================================================================
