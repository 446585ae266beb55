---------------------------- MODULE MCCommandLine ----------------------------
(* Instances of CommandLine for TLC. *)
EXTENDS CommandLine

b    == Group(FALSE, <<"background">>, NoWord)                     \* -b
qb   == Group(FALSE, <<"quiet", "background">>, NoWord)            \* -qb
nc   == Group(FALSE, <<"no-clobber", "continue">>, NoWord)         \* -nc
O    == Group(FALSE, <<"output-document">>, NoWord)                \* -O
OE   == Group(TRUE, <<"output-document">>, Empty)                  \* --output-document=
a    == Group(FALSE, <<"append-output">>, NoWord)                  \* -a
olog == Group(FALSE, <<"output-file">>, Plain("log"))              \* -olog
t    == Group(FALSE, <<"tries">>, NoWord)                          \* -t
np   == Group(TRUE, <<"no-parallel">>, NoWord)                     \* --no-parallel
hdr  == Group(TRUE, <<"header">>, NoWord)                          \* --header
split == Group(TRUE, <<"split-size">>, NoWord)                     \* --split-size
buf  == Group(TRUE, <<"buffer-size">>, NoWord)                     \* --buffer-size
in   == Group(TRUE, <<"input-file">>, Plain("list"))               \* --input-file=list
help == Group(TRUE, <<"help">>, NoWord)                            \* --help

SomeWords == {b, qb, nc, O, OE, olog, a, t, np, in, help, Separator, Dash, Unknown,
              Number(5), Plain("url"), Plain("h:v"), hdr, split, buf}
FewWords  == {b, O, Plain("url")}
NcWords   == {nc, Plain("url")}
SomeHeaders == {Plain("h:v")}
ListedUrls == <<Plain("listed")>>
=============================================================================
