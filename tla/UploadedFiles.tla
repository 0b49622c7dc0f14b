---------------------------- MODULE UploadedFiles ----------------------------
(***************************************************************************)
(* Uploaded files (src/file.rs) and the keys they are stored under         *)
(* (generate_unique_key and sanitize_filename of src/storage.rs, and       *)
(* generate_key of the backends).                                          *)
(*                                                                         *)
(* A file name is a sequence of segments, split at "/"; a segment is a run *)
(* of leading dots, a stem and an extension, "" for none.  An extension    *)
(* that follows nothing but dots, as in "..png", and the empty one of a    *)
(* name that ends in a dot have no place in this form: there are no names  *)
(* of the first kind, and to the second it gives no extension.             *)
(***************************************************************************)
EXTENDS MultipartParser

CONSTANTS
    Stems,      \* stems of file names, "" among them
    Exts,       \* extensions, "" among them
    Clean,      \* stem -> the stem with dangerous characters replaced
    Guess       \* extension -> the MIME type it suggests, or None

Segment == {s \in [dots : Nat, stem : Stems, ext : Exts] :
                /\ s.ext # "" => s.stem # ""
                /\ s.dots > 1 => s.ext # "" \/ s.stem = ""}

ASSUME UploadedFilesAssumption ==
    /\ "" \in Stems /\ "" \in Exts
    /\ Clean \in [Stems -> Stems]
    /\ \A s \in Stems : Clean[s] = "" <=> s = ""
    /\ DOMAIN Guess = Exts
    /\ FileNames \subseteq Seq(Segment) \ {<<>>}

Bare(dots) == [dots |-> dots, stem |-> "", ext |-> ""]

(* Path::components drops empty segments and ".": the positions of the     *)
(* others.  Path::file_name is the last of them unless it is "..".         *)
Components(name) == {i \in DOMAIN name : name[i] \notin {Bare(0), Bare(1)}}

IsLast(name, i) == /\ i \in Components(name)
                   /\ \A j \in Components(name) : j <= i

HasFileName(name) == \E i \in DOMAIN name : IsLast(name, i) /\ name[i] # Bare(2)

LastComponent(name) == name[CHOOSE i \in DOMAIN name : IsLast(name, i)]

Extension(name) ==
    IF name # None /\ HasFileName(name) THEN LastComponent(name).ext ELSE ""

(* The files: what was declared of them, and what they hold.               *)
FromField(part) ==
    [name |-> part.filename, ext |-> Extension(part.filename),
     type |-> part.type, size |-> part.size, content |-> part.content]

FromBytes(part) ==
    [FromField(part) EXCEPT !.type = Guess[Extension(part.filename)]]

-----------------------------------------------------------------------------
(* Keys.  id is the UUID in the key, or the empty one.                     *)

NoId == <<>>

(* StorageConfig: whether names are made unique, whether a unique name     *)
(* keeps the extension, and the largest file, in megabytes.                *)
ConfigType    == [unique : BOOLEAN, preserve : BOOLEAN, max : Limit]
DefaultConfig == [unique |-> TRUE, preserve |-> TRUE, max |-> 100]

(* Mutant: the name is taken as the client wrote it.                       *)
SanitizeNothing(name) == name

(* The last component, or where there is none the whole name with "/"      *)
(* replaced: what is left has one segment, written here as its parts.      *)
Sanitized(name) ==
    LET kept == IF HasFileName(name) THEN <<LastComponent(name)>> ELSE name
    IN [i \in DOMAIN kept |->
           [kept[i] EXCEPT !.stem = Clean[@], !.dots = IF i = 1 THEN 0 ELSE @]]

UniqueKey(name, id) ==
    [id |-> id, parts |-> <<[Bare(0) EXCEPT !.ext = Extension(name)]>>]

(* generate_key.  The extension that a unique name keeps is not sanitized. *)
GenerateKey(config, name, id) ==
    IF config.unique THEN UniqueKey(IF config.preserve THEN name ELSE None, id)
    ELSE IF name = None THEN UniqueKey(None, id)
    ELSE [id |-> NoId, parts |-> Sanitized(name)]

IsEmptyKey(key) == key.id = NoId /\ key.parts = <<Bare(0)>>
=============================================================================
