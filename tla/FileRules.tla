------------------------------ MODULE FileRules ------------------------------
(***************************************************************************)
(* The file validator (src/validation.rs): its rules, the way a validator  *)
(* is built from them, and what it answers for a file.                     *)
(*                                                                         *)
(* A MIME type is its two names and whether it carries parameters.  The    *)
(* long names of office formats are shortened.  The content of a file is   *)
(* the type its first bytes are known for, and the XML tokens it begins    *)
(* with.                                                                   *)
(***************************************************************************)
EXTENDS UploadedFiles

CONSTANTS
    Lower,          \* extension -> the extension in lower case
    SniffLimit      \* SVG_SNIFF_LIMIT, in tokens

Mime(top, sub) == [top |-> top, sub |-> sub, params |-> FALSE]

ASSUME FileRulesAssumption ==
    /\ Lower \in [Exts -> Exts] /\ SniffLimit \in Nat
    /\ None # Mime("image", "svg+xml")

-----------------------------------------------------------------------------
(* What a file holds                                                       *)

Svg == Mime("image", "svg+xml")

(* The media type of SVG or its alias, with or without parameters.         *)
IsSvgMime(type) == type # None /\ type.top = "image" /\ type.sub \in {"svg+xml", "svg"}

(* Only a byte order mark, white space, the XML declaration and other      *)
(* instructions, comments and a DOCTYPE come before the root element.      *)
IsSvgDocument(tokens) ==
    \E k \in 1 .. SniffLimit :
        /\ k <= Len(tokens) /\ tokens[k] = "svg"
        /\ \A i \in 1 .. k - 1 :
              \/ tokens[i] \in {"space", "instruction", "comment", "doctype"}
              \/ tokens[i] = "bom" /\ i = 1

Sniffed(content) == IF IsSvgDocument(content.tokens) THEN Svg ELSE content.magic

(* Aliases, and the containers of office formats.                          *)
Normal(type) ==
    CASE type = Mime("image", "jpg") -> Mime("image", "jpeg")
      [] type = Mime("image", "svg") -> Svg
      [] type = Mime("text", "xml")  -> Mime("application", "xml")
      [] OTHER -> type

ZipBacked(type) == /\ type.top = "application"
                   /\ type.sub \in {"docx", "xlsx"} \/ type = Mime("application", "odt")
CfbBacked(type) == /\ type.top = "application"
                   /\ type.sub = "vnd.ms-excel" \/ type = Mime("application", "msword")

Zip == {Mime("application", s) : s \in {"zip", "x-zip-compressed"}}
Cfb == {Mime("application", s) : s \in {"x-cfb", "vnd.ms-office", "x-ole-storage"}}

Compatible(declared, detected) ==
    LET d == Normal(declared)
        c == Normal(detected)
    IN \/ d = c
       \/ ZipBacked(d) /\ c \in Zip
       \/ CfbBacked(d) /\ c \in Cfb

-----------------------------------------------------------------------------
(* Building a validator                                                    *)

NewValidator == [rules |-> <<>>, svg |-> FALSE]

AddRule(v, rule) == [v EXCEPT !.rules = Append(@, rule)]

MaxSize(v, n) == AddRule(v, [rule |-> "max", n |-> n])
MinSize(v, n) == AddRule(v, [rule |-> "min", n |-> n])

(* An entry "top/" followed by an asterisk allows every type below top.    *)
Wildcard(top) == Mime(top, "*")

TypesRule(types, detect) ==
    [rule |-> "types", detect |-> detect,
     exact |-> {t \in types : t.sub # "*"},
     tops  |-> {t.top : t \in {u \in types : u.sub = "*"}}]

AllowedTypes(v, types)         == AddRule(v, TypesRule(types, FALSE))
AllowedTypesDetected(v, types) == AddRule(v, TypesRule(types, TRUE))

ImagesOnly(v) ==
    AllowedTypesDetected(v, {Mime("image", s) :
                                 s \in {"jpeg", "png", "gif", "webp", "svg+xml"}})

DocumentsOnly(v) ==
    AllowedTypes(v, {Mime("application", s) :
                         s \in {"pdf", "msword", "docx", "vnd.ms-excel", "xlsx"}}
                    \cup {Mime("text", "plain"), Mime("text", "csv")})

AllowedExtensions(v, exts) ==
    AddRule(v, [rule |-> "extensions", exts |-> {Lower[e] : e \in exts}])

RequireName(v) == AddRule(v, [rule |-> "name"])
NotEmpty(v)    == AddRule(v, [rule |-> "notempty"])

(* A function of the caller, known by the files it is content with.        *)
Custom(v, name, files) == AddRule(v, [rule |-> name, files |-> files])

AllowSvgUnsanitized(v) == [v EXCEPT !.svg = TRUE]

-----------------------------------------------------------------------------
(* What a rule answers, "ok" or an error                                   *)

Permits(rule, type) == type \in rule.exact \/ type.top \in rule.tops

(* Mutant: the content is only looked at when no type is declared.         *)
TypesAnswerDeclared(rule, file, detected, svg) ==
    LET declared == file.type
        type == IF declared # None THEN declared ELSE detected
    IN IF ~svg /\ IsSvgMime(type) THEN "type"
       ELSE IF type = None THEN IF rule.detect THEN "undetectable" ELSE "type"
       ELSE IF Permits(rule, type) THEN "ok" ELSE "type"

(* Mutant: of the two types only that of the content has to be listed.     *)
TypesAnswerUnlisted(rule, file, detected, svg) ==
    LET declared == file.type IN
    IF \/ ~svg /\ (IsSvgMime(declared) \/ IsSvgMime(detected))
       \/ declared = None
    THEN "type"
    ELSE IF detected = None THEN IF rule.detect THEN "undetectable" ELSE "ok"
    ELSE IF ~Permits(rule, detected) THEN "type"
    ELSE IF ~Compatible(declared, detected) THEN "mismatch" ELSE "ok"

(* SVG is refused by every allowlist unless the validator opts in; then    *)
(* the declared type must be there and allowed, and the content, where it  *)
(* can be recognized, allowed as well and of the declared type.            *)
TypesAnswer(rule, file, detected, svg) ==
    LET declared == file.type IN
    IF \/ ~svg /\ (IsSvgMime(declared) \/ IsSvgMime(detected))
       \/ declared = None
    THEN "type"
    ELSE IF ~Permits(rule, declared) THEN "type"
    ELSE IF detected = None THEN IF rule.detect THEN "undetectable" ELSE "ok"
    ELSE IF ~Permits(rule, detected) THEN "type"
    ELSE IF ~Compatible(declared, detected) THEN "mismatch" ELSE "ok"

MaxSizeAnswer(rule, file) == IF file.size > rule.n THEN "toolarge" ELSE "ok"
MinSizeAnswer(rule, file) == IF file.size < rule.n THEN "toosmall" ELSE "ok"

(* Without an extension nothing can be on the list.                        *)
ExtensionsAnswer(rule, file) ==
    IF file.ext # "" /\ Lower[file.ext] \in rule.exts THEN "ok" ELSE "extension"

RequireNameAnswer(file) == IF file.name = None THEN "name" ELSE "ok"
NotEmptyAnswer(file)    == IF file.size = 0 THEN "empty" ELSE "ok"
CustomAnswer(rule, file) == IF file \in rule.files THEN "ok" ELSE "custom"

(* ValidationContext: what is found out about a file once for all rules.   *)
Context(v, file) == [detected |-> Sniffed(file.content), svg |-> v.svg]

Answer(rule, file, context) ==
    CASE rule.rule = "max"        -> MaxSizeAnswer(rule, file)
      [] rule.rule = "min"        -> MinSizeAnswer(rule, file)
      [] rule.rule = "types"      -> TypesAnswer(rule, file, context.detected, context.svg)
      [] rule.rule = "extensions" -> ExtensionsAnswer(rule, file)
      [] rule.rule = "name"       -> RequireNameAnswer(file)
      [] rule.rule = "notempty"   -> NotEmptyAnswer(file)
      [] OTHER                    -> CustomAnswer(rule, file)

(* ValidationError::with_rule; kind and rule are its parts.                *)
WithRule(kind, rule) == [rule |-> rule.rule, kind |-> kind]

(* FileValidator::validate: every rule is asked, in the context of the     *)
(* file, and every error is attributed to its rule.  The errors are in the *)
(* order of the rules, here at the places of the rules they come from.  No *)
(* errors is Ok, one is returned alone and several as Multiple.            *)
Validate(v, file) ==
    LET answer(i) == Answer(v.rules[i], file, Context(v, file))
        refusing == {i \in DOMAIN v.rules : answer(i) # "ok"}
    IN [i \in refusing |-> WithRule(answer(i), v.rules[i])]

Accepts(v, file) == DOMAIN Validate(v, file) = {}
=============================================================================
