------------------------------- MODULE Intake -------------------------------
(***************************************************************************)
(* What becomes of one uploaded file or pasted text: it is measured, its   *)
(* type is sniffed, it is decoded or read, and accepted or refused for the *)
(* first reason found (services/parsing.py, api/v1/documents.py).          *)
(*                                                                         *)
(* The bytes of a text are grouped as UTF-8 groups them: a narrow          *)
(* character is one byte, a wide one two, and a bad byte belongs to no     *)
(* character.  Blanks, titles and NUL bytes are left out.  Of a PDF or a   *)
(* ZIP only what the readers say of it is kept.                            *)
(***************************************************************************)
EXTENDS Integers, Sequences, FiniteSets, SequencesExt

CONSTANTS
    max_bytes, max_pages,
    SNIFFED,                        \* 8192: the bytes that the type of a text is judged by
    MIN_TOTAL_CHARS, MIN_CHARS_PER_PAGE,
    CHARS_PER_PAGE,                 \* 3000: the estimate where there are no pages
    MAX_DECOMPRESSED_BYTES, MAX_DECOMPRESSION_RATIO,
    MaxUnits, MaxChars              \* bounds: of a text, and of what a reader extracts

IntakeAssumption ==
    {max_bytes, max_pages, SNIFFED, MIN_TOTAL_CHARS, MIN_CHARS_PER_PAGE, CHARS_PER_PAGE,
     MAX_DECOMPRESSED_BYTES, MAX_DECOMPRESSION_RATIO, MaxUnits, MaxChars} \subseteq Nat \ {0}

VARIABLES
    file,           \* what arrives
    type,           \* source_type, once it is known
    parsed,         \* the text is decoded: its characters and pages
    verdict         \* "open", "accepted" or the error

vars == <<file, type, parsed, verdict>>

Units == {"narrow", "wide", "bad"}
Sizes == {1, max_bytes, max_bytes + 1}

TextFiles == [kind : {"text"}, text : BoundedSeq(Units, MaxUnits)]

Pastes == [kind : {"paste"}, chars : 0 .. MaxChars]

PdfFiles == [kind : {"pdf"}, size : Sizes, read : {"no", "pages fail", "yes"},
             password : {"none", "empty", "secret"},
             pages : 0 .. max_pages + 1, chars : 0 .. MaxChars]

ZipFiles == [kind : {"zip"}, size : Sizes, whole : BOOLEAN, word : BOOLEAN, opens : BOOLEAN,
             compressed : 1 .. 2, decompressed : 0 .. MAX_DECOMPRESSED_BYTES + 1,
             chars : 0 .. MaxChars]

TypeOK ==
    /\ file \in TextFiles \cup Pastes \cup PdfFiles \cup ZipFiles
    /\ type \in {"unknown", "pdf", "docx", "txt", "paste"}
    /\ parsed.chars \in 0 .. 2 * MaxUnits + MaxChars
    /\ parsed.pages \in Nat
    /\ verdict \in {"open", "accepted", "FileTooLarge", "EmptyDocument",
                    "UnsupportedMediaType", "Unprocessable", "EncryptedDocument",
                    "ScannedDocument", "SUSPICIOUS_ARCHIVE", "TOO_MANY_PAGES", "error"}

Nothing == [chars |-> 0, pages |-> 0]

Init ==
    /\ \/ file \in TextFiles /\ type = "unknown"
       \/ file \in Pastes /\ type = "paste"
       \/ file \in PdfFiles /\ type = "unknown"
       \/ file \in ZipFiles /\ type = "unknown"
    /\ parsed = Nothing
    /\ verdict = "open"

-----------------------------------------------------------------------------
Width(unit) == IF unit = "wide" THEN 2 ELSE 1

Bytes(text) == Len(text) + Cardinality({i \in DOMAIN text : text[i] = "wide"})

\* The byte that unit i begins at, from 0.
Offset(text, i) == Bytes(SubSeq(text, 1, i - 1))

Size == IF file.kind = "text" THEN Bytes(file.text) ELSE file.size

Refuse(error) == verdict' = error /\ UNCHANGED <<file, type, parsed>>

\* validate_size, and the same test before it (upload_document).
RefuseSize ==
    /\ verdict = "open" /\ type = "unknown"
    /\ \/ Size > max_bytes /\ Refuse("FileTooLarge")
       \/ Size = 0 /\ Refuse("EmptyDocument")

InSize == Size \in 1 .. max_bytes

\* Faulty variant of HeadIsText: the bytes at the end are not looked at.
HeadIsTextLoosely(text) ==
    \A i \in DOMAIN text : Offset(text, i) + 1 < SNIFFED => text[i] # "bad"

\* data[:8192].decode("utf-8") succeeds: a character cut at the end is an error.
HeadIsText(text) ==
    \A i \in DOMAIN text : Offset(text, i) < SNIFFED =>
        /\ text[i] # "bad"
        /\ Offset(text, i) + Width(text[i]) <= SNIFFED

SniffedAs ==
    CASE file.kind = "pdf"  -> "pdf"
      [] file.kind = "zip"  -> IF file.whole /\ file.word THEN "docx" ELSE "unknown"
      [] file.kind = "text" -> IF HeadIsText(file.text) THEN "txt" ELSE "unknown"

\* sniff_file_type
SniffFileType ==
    /\ verdict = "open" /\ type = "unknown"
    /\ InSize
    /\ IF SniffedAs = "unknown" THEN Refuse("UnsupportedMediaType")
       ELSE type' = SniffedAs /\ UNCHANGED <<file, parsed, verdict>>

-----------------------------------------------------------------------------
Decided(error, chars, pages) ==
    /\ verdict' = error
    /\ parsed' = IF error = "accepted" THEN [chars |-> chars, pages |-> pages] ELSE parsed
    /\ UNCHANGED <<file, type>>

Estimated(chars) == IF chars < CHARS_PER_PAGE THEN 1 ELSE chars \div CHARS_PER_PAGE

\* Faulty variant of LengthError: a text without characters has one page.
LengthErrorOfPages(chars) ==
    IF Estimated(chars) > max_pages THEN "TOO_MANY_PAGES" ELSE "accepted"

LengthError(chars) ==
    CASE chars < MIN_TOTAL_CHARS       -> "EmptyDocument"
      [] Estimated(chars) > max_pages  -> "TOO_MANY_PAGES"
      [] OTHER                         -> "accepted"

\* An unreadable page has no characters.  An error of the page tree is not caught.
PdfError ==
    CASE file.read = "no"              -> "Unprocessable"
      [] file.password = "secret"      -> "EncryptedDocument"
      [] file.read = "pages fail"      -> "error"
      [] file.pages = 0                -> "EmptyDocument"
      [] file.pages > max_pages        -> "TOO_MANY_PAGES"
      [] \/ file.chars < MIN_TOTAL_CHARS
         \/ file.chars < MIN_CHARS_PER_PAGE * file.pages -> "ScannedDocument"
      [] OTHER                         -> "accepted"

ParsePdf ==
    /\ verdict = "open" /\ type = "pdf"
    /\ Decided(PdfError, file.chars, file.pages)

DocxError ==
    CASE \/ file.decompressed > MAX_DECOMPRESSED_BYTES
         \/ file.decompressed > MAX_DECOMPRESSION_RATIO * file.compressed -> "SUSPICIOUS_ARCHIVE"
      [] ~ file.opens -> "Unprocessable"
      [] OTHER        -> LengthError(file.chars)

ParseDocx ==
    /\ verdict = "open" /\ type = "docx"
    /\ Decided(DocxError, file.chars, Estimated(file.chars))

\* What a text can be read as: by UTF-8, and if a byte of it is bad, by UTF-16
\* when the bytes happen to be pairs that it knows, and else by Latin-1.
Decodings(text) ==
    IF \A i \in DOMAIN text : text[i] # "bad" THEN {Len(text)}
    ELSE {Bytes(text)} \cup (IF Bytes(text) % 2 = 0 THEN {Bytes(text) \div 2} ELSE {})

ParseTxt ==
    /\ verdict = "open" /\ type = "txt"
    /\ \E chars \in Decodings(file.text) :
         Decided(LengthError(chars), chars, Estimated(chars))

ParsePlainText ==
    /\ verdict = "open" /\ type = "paste"
    /\ Decided(LengthError(file.chars), file.chars, Estimated(file.chars))

Next ==
    \/ RefuseSize
    \/ SniffFileType
    \/ ParsePdf
    \/ ParseDocx
    \/ ParseTxt
    \/ ParsePlainText

Spec == Init /\ [][Next]_vars

-----------------------------------------------------------------------------
(* Properties.                                                             *)

\* Whatever its type, an accepted document has text enough and pages few enough,
\* came in a file of a size that is allowed, and is what its content says.
AcceptedIsAnalyzable ==
    verdict = "accepted" =>
        /\ parsed.chars >= MIN_TOTAL_CHARS
        /\ parsed.pages \in 1 .. max_pages
        /\ type # "paste" => InSize
        /\ type = "pdf" => parsed.chars >= MIN_CHARS_PER_PAGE * parsed.pages
        /\ type = "docx" => file.decompressed <= MAX_DECOMPRESSION_RATIO * file.compressed

\* Some character of a text lies across its byte SNIFFED.
Straddles(text) ==
    \E i \in DOMAIN text : Offset(text, i) < SNIFFED /\ Offset(text, i) + Width(text[i]) > SNIFFED

\* A file of well-formed text of an allowed size and length is accepted with all
\* of its characters, but for one kind: the text that has a character across the
\* end of what is sniffed is refused as no text at all.  What is not well formed
\* is accepted only if the head does not show it.
TextIsReadAsItIs ==
    file.kind = "text" /\ verdict # "open" =>
      LET text == file.text
          bad == {i \in DOMAIN text : text[i] = "bad"}
      IN  /\ bad = {} /\ InSize /\ LengthError(Len(text)) = "accepted"
               => IF Straddles(text) THEN verdict = "UnsupportedMediaType"
                  ELSE verdict = "accepted" /\ parsed.chars = Len(text)
          /\ verdict = "accepted" => \A i \in bad : Offset(text, i) >= SNIFFED

\* An upload or a paste is accepted exactly if there is something to analyze in
\* it that can be read, one seam of the sniffing apart (parse_upload).
IntakeIsSound == AcceptedIsAnalyzable /\ TextIsReadAsItIs
=============================================================================
