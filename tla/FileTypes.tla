------------------------------- MODULE FileTypes -------------------------------
(***************************************************************************)
(* What the code says of a file's type, from the upload intent to the      *)
(* preview: four tables that each know it in another way (the name and the *)
(* declared type in middleware/fileValidation.js, the first bytes in       *)
(* utils/fileValidation.js, the name again in utils/filePreview.js).       *)
(***************************************************************************)
EXTENDS Integers, Sequences, SequencesExt

CONSTANTS
  Exts,      \* extensions, in lower case and without the dot
  Mimes,     \* types a browser declares
  Heads,     \* formats by their first bytes, "none" if it is no known one
  Sizes,     \* in units, of which MaxText and MaxVideo are the limits below
  MagicSize  \* MAGIC_CHECK_SIZE

MaxText == 3
MaxVideo == 5

TypesAssumption == Sizes \subseteq Nat

VARIABLES
  ext, mime, head, size,   \* the file
  stage,                   \* how far it came
  asked,                   \* an intent was given for it
  served                   \* the Content-Type of its preview

vars == <<ext, mime, head, size, stage, asked, served>>
file == <<ext, mime, head, size>>

-----------------------------------------------------------------------------
(* The tables *)

AllowedMimes == {"application/zip", "application/x-zip-compressed", "application/x-7z-compressed",
                 "application/pdf", "image/jpeg", "image/jpg", "image/png", "image/gif", "image/webp"}

AllowedExts == {"zip", "7z", "pdf", "jpg", "jpeg", "png", "gif", "webp"}

ExtensionToMime(e) ==
  CASE e = "zip" -> {"application/zip", "application/x-zip-compressed"}
    [] e = "7z" -> {"application/x-7z-compressed"}
    [] e = "pdf" -> {"application/pdf"}
    [] e \in {"jpg", "jpeg"} -> {"image/jpeg", "image/jpg"}
    [] e = "png" -> {"image/png"}
    [] e = "gif" -> {"image/gif"}
    [] e = "webp" -> {"image/webp"}
    [] OTHER -> {}

\* MAGIC_NUMBERS
Signatures == {"jpg", "png", "gif", "pdf", "zip", "7z"}

\* PREVIEWABLE_TYPES, in the order in which it is searched; 0 is no limit.
Previewable == <<
  [kind |-> "image", max |-> 0,
   exts |-> <<"jpg", "jpeg", "png", "gif", "webp", "bmp", "svg", "ico">>,
   mimes |-> <<"image/jpeg", "image/png", "image/gif", "image/webp", "image/bmp", "image/svg+xml",
               "image/x-icon">>],
  [kind |-> "pdf", max |-> 0, exts |-> <<"pdf">>, mimes |-> <<"application/pdf">>],
  [kind |-> "text", max |-> MaxText,
   exts |-> <<"txt", "md", "log", "csv", "json", "xml", "html", "css", "js", "ts", "jsx", "tsx", "vue",
              "yaml", "yml", "ini", "conf", "sh", "bat">>,
   mimes |-> <<"text/plain", "text/markdown", "text/csv", "application/json", "text/xml", "text/html",
               "text/css", "application/javascript", "text/x-yaml">>],
  [kind |-> "video", max |-> MaxVideo,
   exts |-> <<"mp4", "webm", "ogg", "mov">>,
   mimes |-> <<"video/mp4", "video/webm", "video/ogg", "video/quicktime">>],
  [kind |-> "audio", max |-> 0,
   exts |-> <<"mp3", "wav", "ogg", "m4a", "aac">>,
   mimes |-> <<"audio/mpeg", "audio/wav", "audio/ogg", "audio/mp4", "audio/aac">>] >>

Groups == DOMAIN Previewable

-----------------------------------------------------------------------------
(* The functions over them *)

Has(g, e) == e \in Range(Previewable[g].exts)

First(G) == CHOOSE g \in G : \A h \in G : g <= h

\* The first category that has the extension decides, by its limit.
CanPreview(e, n) ==
  LET G == {g \in Groups : Has(g, e)}
  IN  /\ G # {}
      /\ LET c == Previewable[First(G)] IN c.max = 0 \/ n <= c.max

PreviewType(e) == Previewable[First({g \in Groups : Has(g, e)})].kind

\* The type at the same place as the extension, where there is one, although the
\* two lists are not of the same length; else a few common ones.
GetMimeType(e) ==
  LET At(g) == CHOOSE i \in DOMAIN Previewable[g].exts : Previewable[g].exts[i] = e
      G == {g \in Groups : Has(g, e) /\ At(g) <= Len(Previewable[g].mimes)}
  IN  IF G # {} THEN Previewable[First(G)].mimes[At(First(G))]
      ELSE IF e = "zip" THEN "application/zip"
      ELSE IF e = "7z" THEN "application/x-7z-compressed"
      ELSE "application/octet-stream"

-----------------------------------------------------------------------------
(* The way of a file *)

\* validateFileMetadata: the form sends no size.
ValidateFileMetadata ==
  /\ stage = "chosen"
  /\ stage' = IF mime \in AllowedMimes /\ ext \in AllowedExts THEN "checked" ELSE "refused"
  /\ UNCHANGED <<file, asked, served>>

\* validateFileConsistency, and the intent.
ValidateFileConsistency ==
  /\ stage = "checked"
  /\ stage' = IF mime \in ExtensionToMime(ext) THEN "uploading" ELSE "refused"
  /\ asked' = (stage' = "uploading")
  /\ UNCHANGED <<file, served>>

\* The upload end point asks for no intent.
UploadDirectly ==
  /\ stage = "chosen"
  /\ stage' = "uploading"
  /\ UNCHANGED <<file, asked, served>>

\* validateBuffer, where there are bytes enough; which signature it is, is not
\* compared with the name.
ValidateBuffer ==
  /\ stage = "uploading"
  /\ stage' = IF size >= MagicSize /\ head \notin Signatures THEN "refused" ELSE "stored"
  /\ UNCHANGED <<file, asked, served>>

\* previewFile, with getContentHeaders.
Preview ==
  /\ stage = "stored"
  /\ stage' = IF CanPreview(ext, size) THEN "previewed" ELSE "unpreviewable"
  /\ served' = IF stage' = "previewed" THEN GetMimeType(ext) ELSE served
  /\ UNCHANGED <<file, asked>>

Init ==
  /\ ext \in Exts /\ mime \in Mimes /\ head \in Heads /\ size \in Sizes
  /\ stage = "chosen" /\ asked = FALSE /\ served = "none"

Next ==
  \/ ValidateFileMetadata \/ ValidateFileConsistency \/ UploadDirectly
  \/ ValidateBuffer \/ Preview

Spec == Init /\ [][Next]_vars

-----------------------------------------------------------------------------
(* Properties *)

TypesOf(kind) == UNION {Range(Previewable[g].mimes) : g \in {h \in Groups : Previewable[h].kind = kind}}

\* A file that an intent was given for is previewed as the kind of file it was
\* declared to be.
PreviewedAsDeclared ==
  asked /\ stage = "previewed" =>
    IF mime = "application/pdf" THEN PreviewType(ext) = "pdf" ELSE PreviewType(ext) = "image"

\* An extension of two categories (ogg) is served as the one that it is shown as.
ServedAsShown ==
  stage = "previewed" /\ served # "application/octet-stream" =>
    served \in TypesOf(PreviewType(ext))

\* A text or a video beyond its limit is not previewed, whatever the declared type.
LimitsHold ==
  stage = "previewed" =>
    /\ ext \in {"txt", "csv", "ts"} => size <= MaxText
    /\ ext \in {"mp4", "ogg"} => size <= MaxVideo

\* No file with bytes enough is stored without a signature the program knows.
StoredIsSigned ==
  stage \in {"stored", "previewed"} /\ size >= MagicSize => head \in Signatures

\* filePreview.js:86 "Get MIME type from filename extension": a file that was
\* declared, and accepted, as some type is served as that type.
ServedAsDeclared ==
  asked /\ stage = "previewed" => served \in ExtensionToMime(ext)

\* readme.md:30 "Natively supports .zip, .7z, .pdf, .jpg, .png, .gif, .webp": a
\* file that is what its name says is not refused.
SupportedIsStored ==
  stage = "refused" => ~ (mime \in ExtensionToMime(ext) /\ head = ext)

\* readme.md:28 "Built-in preview functionality for images (JPG, PNG, GIF, WebP, BMP,
\* SVG), PDFs, text files": a text file is not refused by its type.
TextIsAccepted ==
  stage = "refused" => ~ (ext = "txt" /\ mime = "text/plain" /\ size < MagicSize)
=============================================================================
