--------------------------- MODULE MCBackendLoader ---------------------------
(* Instances of BackendLoader for TLC. *)
EXTENDS BackendLoader

MCEntries == {"node-esm", "node-cjs", "wasm-esm", "wasm-cjs", "browser", "react-native"}

MCRuntimes ==
    [platform : {"linux"}, arch : {"x64"},
     glibc : {<<>>, <<2, 27>>, <<2, 28>>, <<2, 28, 1>>, <<3, 0>>}]
    \cup [platform : {"win32", "darwin", "linux"}, arch : {"x64", "arm64"}, glibc : {<<>>}]

(* Complete, partial and empty listings, and three that must be refused. *)
MCListings ==
    {CANONICAL_TARGET_ORDER, <<"linux-x64-gnu">>, <<>>,
     <<"linux-x64-gnu", "win32-x64-msvc">>, <<"linux-x64-gnu", "linux-x64-gnu">>,
     <<"freebsd-x64">>}
=============================================================================
