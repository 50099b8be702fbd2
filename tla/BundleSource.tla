---------------------------- MODULE BundleSource ----------------------------
(* The STIX bundle data source of Kestrel 1 (kestrel_datasource_stixbundle) *)
(* and what it keeps in the runtime directory of a session: a download per  *)
(* data path, an ingest directory per query, and the store the session      *)
(* loads the ingest files into.  A query is one operator that gives the set *)
(* of its outcomes: whatever the network, the server and the files do.      *)
EXTENDS Naturals, Sequences, FiniteSets, SequencesExt

CONSTANTS
  Scheme,       \* uri -> "file" or "http"
  DataPaths,    \* uri -> the sequence of data paths in it
  Patterns,     \* STIX patterns
  Objects,      \* data path -> version -> the sequence of its observed data
  Convertible,  \* data paths that firepit can read without their end (not JSON)
  PageReadable  \* whether an error page of the server is read as a bundle

Uris == DOMAIN DataPaths
AllPaths == DOMAIN Objects
Versions(path) == DOMAIN Objects[path]
NoLimit == 0

ASSUME BundleAssumption ==
  /\ \A u \in Uris : DataPaths[u] \in Seq(AllPaths)
  /\ \A p \in AllPaths : \A v \in Versions(p) : Objects[p][v] \in Seq(ToSet(Objects[p][v]))

\* The identity of a query: _make_query_id() leaves the limit out.
QueryIds == Uris \X Patterns

\* A raw file: a whole download, one cut off, an error page, or none at all;
\* "old" says that its time of change is more than five minutes ago.
NoFile == [kind |-> "none", version |-> 0, old |-> FALSE]
File(kind, version) == [kind |-> kind, version |-> version, old |-> FALSE]

-----------------------------------------------------------------------------
(* One remote data path *)

\* Whether the file is downloaded (again).  The change of a bundle follows
\* the download of another version of it, so it is newer than the file; a
\* server that does not date its answers is taken to have changed the bundle
\* five minutes ago.
Outdated(file, path, server) ==
  \/ file.kind = "none"
  \/ IF server.dated THEN server.version[path] # file.version ELSE file.old

\* A download that breaks off leaves what has arrived; the status of the
\* answer is not looked at, so an error page is kept like a bundle.
Downloads(path, server) ==
  {[file |-> File(kind, server.version[path]), how |-> "got"] : kind \in {"whole", "page"}}
  \union {[file |-> File("cut", server.version[path]), how |-> "raised"]}

Fetched(file, path, server) ==
  {[file |-> file, how |-> "refused"]}
  \union IF Outdated(file, path, server)
         THEN Downloads(path, server)
         ELSE {[file |-> file, how |-> "got"]}

\* The bundles that the file may be read as: none when it cannot be read.
ReadAs(file, path) ==
  LET whole == Objects[path][file.version]
  IN CASE file.kind = "whole" -> {whole}
       [] file.kind = "cut" -> IF path \in Convertible THEN {Front(whole)} ELSE {}
       [] file.kind = "page" -> IF PageReadable THEN {<<>>} ELSE {}

-----------------------------------------------------------------------------
(* A query *)

Matching(objects, pattern) ==
  LET kept[i \in 0..Len(objects)] ==
        IF i = 0 THEN <<>>
        ELSE IF pattern \in objects[i].matches THEN Append(kept[i - 1], objects[i]) ELSE kept[i - 1]
  IN kept[Len(objects)]

\* What fills the ingest files: the limit counts over all the data paths.
Taken(found, objects, pattern, limit) ==
  LET all == found \o Matching(objects, pattern)
  IN IF limit = NoLimit \/ Len(all) <= limit THEN all ELSE SubSeq(all, 1, limit)

(* A mutated form: the error is raised, the directory stays. *)
CleanedLater(at, q) == [at EXCEPT !.how = "refused"]

\* The failure that cleans up: the ingest directory goes, so that the next
\* execution does not take it for good data.
Cleaned(at, q) == [at EXCEPT !.folder.asked = @ \ {q}, !.how = "refused"]

\* One turn of the loop over the data paths.
TakeBundle(at, q, path, limit, bundles) ==
  {[at EXCEPT !.found = Taken(@, objects, q[2], limit)] : objects \in bundles}
  \union (IF bundles = {} THEN {Cleaned(at, q)} ELSE {})

NextPath(at, q, path, limit, server) ==
  IF at.how # "got" THEN {at}
  ELSE IF Scheme[q[1]] = "file"
       THEN {Cleaned(at, q)}
            \union TakeBundle(at, q, path, limit, {Objects[path][server.version[path]]})
       ELSE UNION {LET here == [at EXCEPT !.folder.raw[path] = f.file]
                   IN CASE f.how = "refused" -> {Cleaned(here, q)}
                        [] f.how = "raised" -> {[here EXCEPT !.how = "raised"]}
                        [] f.how = "got" -> TakeBundle(here, q, path, limit, ReadAs(f.file, path)) :
                   f \in Fetched(at.folder.raw[path], path, server)}

\* StixBundleInterface.query(): a query whose ingest directory is there has
\* nothing left to read.
Query(folder, q, limit, server) ==
  LET paths == DataPaths[q[1]]
      start == [folder |-> [folder EXCEPT !.asked = @ \union {q}], how |-> "got", found |-> <<>>]
      after[i \in 0..Len(paths)] ==
        IF i = 0 THEN {start}
        ELSE UNION {NextPath(at, q, paths[i], limit, server) : at \in after[i - 1]}
  IN IF q \in folder.asked
     THEN {[folder |-> folder, how |-> "got", found |-> <<>>]}
     ELSE after[Len(paths)]

\* The query and ReturnFromFile.load_to_store(): the store caches the ingest
\* files under the query id, or refuses them; the answer is what it then has
\* under that id.
Retrieved(folder, q, limit, server) ==
  LET loaded(at) == [at.folder EXCEPT !.store[q] = @ \union ToSet(at.found)]
  IN UNION {IF at.how # "got" THEN {[folder |-> at.folder, how |-> at.how, answer |-> {}]}
            ELSE {[folder |-> loaded(at), how |-> "got", answer |-> loaded(at).store[q]]}
                 \union (IF at.found # <<>>
                         THEN {[folder |-> at.folder, how |-> "unloaded", answer |-> {}]} ELSE {}) :
            at \in Query(folder, q, limit, server)}

-----------------------------------------------------------------------------
(* What a query should be answered *)

\* The versions of a path that may stand for what it holds now.
Current(q, path, server) ==
  IF Scheme[q[1]] = "file" \/ server.dated THEN {server.version[path]} ELSE server.recent[path]

\* What matches in version v[i] of every path i, with no limit.
Gathered(paths, v, pattern) ==
  LET upTo[i \in 0..Len(paths)] ==
        IF i = 0 THEN <<>> ELSE upTo[i - 1] \o Matching(Objects[paths[i]][v[i]], pattern)
  IN upTo[Len(paths)]

\* The answers of a reader who fetches every data path and applies the
\* pattern and the limit to all of them together.
Due(q, limit, server) ==
  LET paths == DataPaths[q[1]]
      picks == {v \in [1..Len(paths) -> UNION {Versions(p) : p \in AllPaths}] :
                  \A i \in 1..Len(paths) : v[i] \in Current(q, paths[i], server)}
      limited(all) == IF limit = NoLimit \/ Len(all) <= limit THEN all ELSE SubSeq(all, 1, limit)
  IN {ToSet(limited(Gathered(paths, v, q[2]))) : v \in picks}

\* Every download that the query reads is whole.
ReadWhole(folder, q) ==
  \A path \in ToSet(DataPaths[q[1]]) : folder.raw[path].kind \in {"none", "whole"}
=============================================================================
