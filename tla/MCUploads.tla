------------------------------ MODULE MCUploads ------------------------------
(* Small instances of Uploads for TLC.                                     *)
EXTENDS Uploads

CONSTANTS upload, note, r1, r2

Seg(dots, stem, ext) == [dots |-> dots, stem |-> stem, ext |-> ext]

(* File names: "pic.png", "../.pic.png" that sanitizes to the same, ".."   *)
(* and "..." that sanitize to nothing, and "a:b.PDF" with a character      *)
(* replaced.                                                               *)
Pic    == <<Seg(0, "pic", "png")>>
Hidden == <<Bare(2), Seg(1, "pic", "png")>>
Up     == <<Bare(2)>>
Dots   == <<Bare(3)>>
Drive  == <<Seg(0, "a:b", "PDF")>>

SomeFileNames == {Pic, Hidden, Up, Dots, Drive}
SomeStems     == {"", "pic", "a:b", "a_b"}
SomeExts      == {"", "png", "PDF", "pdf"}
SomeClean     == [s \in SomeStems |-> IF s = "a:b" THEN "a_b" ELSE s]
SomeLower     == [e \in SomeExts |-> IF e = "PDF" THEN "pdf" ELSE e]

Png == Mime("image", "png")
Pdf == Mime("application", "pdf")
Doc == Mime("application", "msword")
Txt == Mime("text", "plain")
Xml == Mime("text", "xml")

SomeGuess == [e \in SomeExts |-> CASE e = "png" -> Png
                                   [] e \in {"pdf", "PDF"} -> Pdf
                                   [] OTHER -> None]

Holds(magic) == [magic |-> magic, tokens |-> <<>>]

(* An SVG document, and one whose root element is out of reach.            *)
Drawing     == [magic |-> Xml, tokens |-> <<"bom", "instruction", "svg">>]
FarDrawing  == [magic |-> None, tokens |-> <<"comment", "space", "comment", "svg">>]

P(name, filename, size, type, content) ==
    [name |-> name, filename |-> filename, size |-> size, type |-> type,
     content |-> content]

File1(filename, type, content) == P(upload, filename, 1, type, content)

APicture == File1(Pic, Png, Holds(Png))
AnAlias  == File1(Hidden, Mime("image", "jpg"), Holds(Mime("image", "jpeg")))
ALie     == File1(Pic, Png, Holds(Pdf))
ASvgLie  == File1(Pic, Png, Drawing)
GoodSvg  == File1(Pic, Svg, Drawing)
ASvg     == File1(Hidden, [Svg EXCEPT !.params = TRUE], Drawing)
PlainSvg == File1(Dots, Mime("image", "svg"), Drawing)
AFarSvg  == File1(Pic, Txt, FarDrawing)
ALetter  == File1(Drive, Doc, Holds(Mime("application", "x-cfb")))
AReport  == P(upload, Drive, 3, Pdf, Holds(Pdf))
Nothing  == P(upload, Up, 0, Png, Holds(None))
Untyped  == File1(None, None, Holds(Png))
ANote    == P(note, None, 1, None, Holds(None))
Another  == P(note, Pic, 1, Png, Holds(Png))

Form(parts) == [form |-> TRUE, parts |-> parts]
Made(part)  == [form |-> FALSE, parts |-> <<part>>]

SomeInputs ==
    {Form(<<APicture, ANote, AnAlias>>), Form(<<ANote, APicture>>),
     Form(<<APicture, ALie>>),
     Form(<<Another, ASvg>>), Form(<<GoodSvg, PlainSvg>>), Form(<<ASvgLie>>),
     Form(<<ALetter, AReport>>), Form(<<AReport, APicture>>), Form(<<AFarSvg>>),
     Form(<<Nothing>>), Form(<<Untyped>>), Made(APicture), Made(AReport)}

App(limits, validator, config, local) ==
    [limits |-> limits, validator |-> validator, local |-> local,
     config |-> config, rooted |-> TRUE, linked |-> {}]

Unbounded == [DefaultConfig EXCEPT !.max = None]
AsNamed   == [Unbounded EXCEPT !.unique = FALSE]
Small     == [DefaultConfig EXCEPT !.preserve = FALSE, !.max = 2]

Everything == AllowedTypes(NewValidator, {Wildcard("image"), Wildcard("application"),
                                          Wildcard("text")})

(* In the store of one application a link is where the sanitized Drive     *)
(* would go; another has lost its root.                                    *)
LinkedDrive == [id |-> NoId, parts |-> Sanitized(Drive)]

SomeApplications ==
    {App(Default, ImagesOnly(NewValidator), DefaultConfig, TRUE),
     App([Unlimited EXCEPT !.files = 1],
         AllowSvgUnsanitized(ImagesOnly(NewValidator)), AsNamed, TRUE),
     App([Unlimited EXCEPT !.total = 3],
         MaxSize(DocumentsOnly(NewValidator), 2), AsNamed, FALSE),
     App([Unlimited EXCEPT !.allowed = {upload}],
         AllowedExtensions(RequireName(Everything), {"PDF", "png"}), Small, FALSE),
     [App(Unlimited, AllowSvgUnsanitized(NotEmpty(MinSize(Everything, 1))),
          [AsNamed EXCEPT !.max = 2], TRUE) EXCEPT !.linked = {LinkedDrive}],
     [App(Unlimited, NewValidator, DefaultConfig, TRUE) EXCEPT !.rooted = FALSE],
     App(Unlimited, Custom(NewValidator, "mine", {FromField(Nothing), FromField(APicture)}),
         AsNamed, TRUE)}
=============================================================================
