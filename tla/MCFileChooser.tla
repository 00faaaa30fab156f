---------------------------- MODULE MCFileChooser ----------------------------
(***************************************************************************)
(* FileChooserPortal for TLC: two folders, a few file systems and one of   *)
(* each kind of call.                                                      *)
(***************************************************************************)
EXTENDS FileChooserPortal, TLC

CONSTANTS Downloads, images, texts

a == <<>>
a1 == <<1>>
MCNames == {a, a1}
AllNames == UNION {ToSet(Candidates(n)) : n \in MCNames}

FileSystem(entries) ==
    [folders |-> {Home, Downloads},
     at |-> entries @@ [p \in {Home, Downloads} \X AllNames |-> "none"]]
MCLayouts == {FileSystem(<<Home, a>> :> "file" @@ <<Home, a1>> :> kind
                         @@ <<Downloads, a>> :> "file") : kind \in {"none", "link"}}
MCContested == {<<Home, a>>, <<Home, a1>>}

Options(kind) ==
    [kind |-> kind, directory |-> FALSE, multiple |-> FALSE, folder |-> Unset, name |-> Unset,
     files |-> <<>>, filters |-> <<>>, current |-> Unset, choices |-> <<>>]
Encoding == [id |-> "encoding", options |-> <<"utf8", "latin1">>, initial |-> Unset]
ReadOnly == [id |-> "readonly", options |-> <<>>, initial |-> "true"]

MCOffers ==
    {[Options("OpenFile") EXCEPT !.filters = <<images, texts>>, !.current = texts],
     [Options("OpenFile") EXCEPT !.current = images, !.multiple = TRUE, !.choices = <<Encoding>>],
     [Options("OpenFile") EXCEPT !.multiple = TRUE, !.directory = TRUE],
     [Options("SaveFile") EXCEPT !.name = a, !.folder = Downloads, !.choices = <<ReadOnly>>],
     [Options("SaveFiles") EXCEPT !.files = <<a1, a>>],
     [Options("SaveFiles") EXCEPT !.files = <<a, a>>]}

MCSymmetry == Permutations(Handles)
=============================================================================
