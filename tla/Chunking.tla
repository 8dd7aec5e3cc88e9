----------------------------- MODULE Chunking -------------------------------
(***************************************************************************)
(* From a file to its chunks: the pages of a PDF are read by a native tool *)
(* and, where that reads badly, by OCR; the better reading of each page is *)
(* a block, as is each section of an EPUB and a whole text file.  A block  *)
(* is cut into units, sentences or parts of long ones, and the units are   *)
(* put together to chunks that overlap, once for each tier.                *)
(*                                                                         *)
(* A text is its lines: how many characters a line has, none for a blank   *)
(* one, and whether it ends a sentence.  The quality of a page is a number *)
(* and whether it is too short; the page's text is independent of both.    *)
(***************************************************************************)
EXTENDS Orders, FiniteSetsExt

CONSTANTS
    PageCount,                 \* pages of a PDF
    NativePages, OcrPages,     \* readings of a page: records with score, short, conf
    OcrOutputs,                \* what the OCR command may write: entries in the order of its files
    TheTexts,                  \* texts of a text file, as sequences of lines
    PageText,                  \* the text of a page or section
    MaxSections,               \* bound: files of an EPUB
    PdfMinScore, PdfScoreDiff, \* pdfMinScore, pdfScoreDiff
    RunesPerToken,             \* characters of a token
    UnitFactor, MinUnit,       \* the longest unit: 6 times the size, at least 240
    TierSize, TierOverlap      \* size and overlap of the two tiers, in tokens

PdfPageNos == 1 .. PageCount
Tiers == <<"lexical", "semantic">>
Texts == TheTexts \cup {PageText}
HasText(text) == \E i \in DOMAIN text : text[i].runes > 0

\* The file an entry is in, the page it is of, and the number it gives that; an entry that
\* is "bare" is a file without a list of pages.
OcrEntries == [file : Nat, page : PdfPageNos, by : {"page_index", "page", "place", "bare"}, n : Nat]

ASSUME ChunkingAssumption ==
    /\ {PageCount, RunesPerToken, UnitFactor, MinUnit} \subseteq Nat \ {0}
    /\ \A t \in 1 .. 2 : TierSize[t] \in Nat \ {0} /\ TierOverlap[t] \in Nat
    /\ \A p \in NativePages \cup OcrPages : p.score \in Nat /\ p.conf \in Nat /\ p.short \in BOOLEAN
    /\ OcrOutputs \subseteq Seq(OcrEntries)
    /\ \A o \in OcrOutputs : {o[i].page : i \in DOMAIN o} = PdfPageNos
    /\ Texts \subseteq Seq([runes : Nat, ends : BOOLEAN]) /\ HasText(PageText)

VARIABLES
    file,        \* what the tools would read in the file
    at,          \* where the job is
    pages,       \* pages read so far, in order
    textBlocks,  \* the blocks: records of a page or section number, a method and a text
    block, tier, \* the block and the tier that are being cut
    pending,     \* the units of them still to take
    filling,     \* the units of the chunk being filled
    cut          \* the chunks

chunkingVars == <<file, at, pages, textBlocks, block, tier, pending, filling, cut>>

NoPage == [score |-> 0, short |-> TRUE, conf |-> 0]

-----------------------------------------------------------------------------
(* Pages of a PDF *)

\* The pages of a reading that have a text, by number.
Readable(reading) == {p \in PdfPageNos : reading[p] # NoPage}
Extraction(p, method, reading) == [page |-> p, method |-> method, quality |-> reading[p]]
Extracted(method, reading) ==
    LET numbers == Ascending(Readable(reading))
    IN  [i \in DOMAIN numbers |-> Extraction(numbers[i], method, reading)]

parsePDFPagesWithPdftotext == IF file.tool = "pdftotext" THEN Extracted("pdftotext", file.native) ELSE <<>>
parsePDFPagesWithGoLib == IF file.tool \in {"pdftotext", "golib"} THEN Extracted("golib", file.native) ELSE <<>>
parsePDFNativePages ==
    IF parsePDFPagesWithPdftotext # <<>> THEN parsePDFPagesWithPdftotext ELSE parsePDFPagesWithGoLib

\* The number of a page in the output of the command: its index from 0, its number, or its
\* place among the entries of its file.  A file without a list of pages is page 1.
PaddlePageNo(entry, place) ==
    CASE entry.by = "page_index"          -> entry.n + 1
      [] entry.by = "page" /\ entry.n > 0 -> entry.n
      [] entry.by = "bare"                -> 1
      [] OTHER                            -> place

\* The entries with a text.  A file that has none fails them all.
WithText == {i \in DOMAIN file.ocrOutput : file.ocr[file.ocrOutput[i].page] # NoPage}
InFile(n) == {i \in DOMAIN file.ocrOutput : file.ocrOutput[i].file = n}
OcrFails == file.ocrTool = "command" /\ \E i \in DOMAIN file.ocrOutput : InFile(file.ocrOutput[i].file) \cap WithText = {}

\* The pages of the files one after the other; mergePDFPages puts them in order.
parsePDFWithPaddleOCR ==
    LET read     == Ascending(WithText)
        entry(k) == file.ocrOutput[read[k]]
        place(k) == Cardinality({i \in InFile(entry(k).file) : i <= read[k]})
    IN  IF OcrFails THEN <<>>
        ELSE [k \in DOMAIN read |-> [page |-> PaddlePageNo(entry(k), place(k)), method |-> "paddleocr",
                                     quality |-> file.ocr[entry(k).page]]]
parsePDFWithOCRService == Extracted("ocr-service", file.ocr)

isLowQualityPage(q) == q = NoPage \/ q.short \/ q.score < PdfMinScore

\* The quality of the text, and the confidence of the OCR where there is one; tenths.
OcrScore(q) == IF q.conf > 0 THEN 8 * q.score + 2 * q.conf ELSE 10 * q.score
Pick(native, ocr) ==
    IF isLowQualityPage(native.quality) /\ OcrScore(ocr.quality) >= 10 * (native.quality.score + PdfScoreDiff)
    THEN ocr ELSE native

\* A page that is in a reading twice is what the later entry says.
PagesIn(s) == {s[i].page : i \in DOMAIN s}
PageOf(s, p) == s[Max({i \in DOMAIN s : s[i].page = p})]

\* As it would be if only the pages read natively were walked.
MergeNativePages(native, ocr) ==
    [i \in DOMAIN native |-> IF native[i].page \notin PagesIn(ocr) THEN native[i]
                             ELSE Pick(native[i], PageOf(ocr, native[i].page))]

\* Every page that one of them read, in the order of the numbers.
mergePDFPages(native, ocr) ==
    LET numbers == Ascending(PagesIn(native) \cup PagesIn(ocr))
        Merged(p) == CASE p \notin PagesIn(ocr)    -> PageOf(native, p)
                       [] p \notin PagesIn(native) -> PageOf(ocr, p)
                       [] OTHER -> Pick(PageOf(native, p), PageOf(ocr, p))
    IN  [i \in DOMAIN numbers |-> Merged(numbers[i])]

needsOCR(native) ==
    file.ocrEnabled /\ (native = <<>> \/ \E i \in DOMAIN native : isLowQualityPage(native[i].quality))

Unread == UNCHANGED <<file, textBlocks, block, tier, pending, filling, cut>>

parsePDF ==
    /\ file.kind = "pdf" /\ at = "parse"
    /\ pages' = parsePDFNativePages
    /\ at' = CASE needsOCR(pages')                   -> "ocr"
               [] pages' = <<>> /\ ~ file.ocrEnabled -> "failed"
               [] OTHER                              -> "blocks"
    /\ Unread

\* The service or the command; when it fails or reads nothing the native pages stand.
ReadByOCR ==
    /\ at = "ocr"
    /\ LET ocr == CASE file.ocrTool = "service" -> parsePDFWithOCRService
                    [] file.ocrTool = "command" -> parsePDFWithPaddleOCR
                    [] OTHER                    -> <<>>
       IN  /\ pages' = IF ocr = <<>> THEN pages ELSE mergePDFPages(pages, ocr)
           /\ at' = IF pages' = <<>> THEN "failed" ELSE "blocks"
    /\ Unread

-----------------------------------------------------------------------------
(* Units *)

\* Runs of lines that are not blank: those that ended, and the one that goes on.
EndParagraph(s) == IF s.buf = <<>> THEN s ELSE [out |-> Append(s.out, s.buf), buf |-> <<>>]
AddLine(s, line) == IF line.runes = 0 THEN EndParagraph(s) ELSE [s EXCEPT !.buf = Append(@, line)]
splitParagraphs(text) == EndParagraph(FoldLeft(AddLine, [out |-> <<>>, buf |-> <<>>], text)).out

\* The lengths of the sentences of a paragraph, whose lines are joined by a space.
AddToSentence(s, line) ==
    LET n == IF s.buf = 0 THEN line.runes ELSE s.buf + 1 + line.runes
    IN  IF line.ends THEN [out |-> Append(s.out, n), buf |-> 0] ELSE [s EXCEPT !.buf = n]
splitSentences(paragraph) ==
    LET end == FoldLeft(AddToSentence, [out |-> <<>>, buf |-> 0], paragraph)
    IN  IF end.buf = 0 THEN end.out ELSE Append(end.out, end.buf)

\* The lengths of the parts of a sentence.
splitByRunes(runes, size) ==
    [i \in 1 .. (runes + size - 1) \div size |-> IF i * size <= runes THEN size ELSE runes % size]

AtLeastOne(n) == IF n < 1 THEN 1 ELSE n
tokenLen(runes) == AtLeastOne(runes \div RunesPerToken)

SentenceUnits(runes, size, first) ==
    LET parts == splitByRunes(runes, size)
    IN  [j \in DOMAIN parts |-> [runes |-> parts[j], tokens |-> tokenLen(parts[j]), starts |-> first /\ j = 1]]
ParagraphUnits(paragraph, size) ==
    LET sentences == splitSentences(paragraph)
    IN  InARow([i \in DOMAIN sentences |-> SentenceUnits(sentences[i], size, i = 1)])

buildSentenceUnits(text, size) ==
    LET paragraphs == splitParagraphs(text)
        units      == InARow([p \in DOMAIN paragraphs |-> ParagraphUnits(paragraphs[p], size)])
    IN  [n \in DOMAIN units |-> [no |-> n, runes |-> units[n].runes,
                                 tokens |-> units[n].tokens, starts |-> units[n].starts]]

UnitRunes(t) == IF TierSize[t] * UnitFactor < MinUnit THEN MinUnit ELSE TierSize[t] * UnitFactor
UnitsOf(text, t) == buildSentenceUnits(text, UnitRunes(t))

-----------------------------------------------------------------------------
(* Blocks *)

TextBlock(n, method, text) == [no |-> n, method |-> method, text |-> text]

\* No block, no job: process fails.
StartBlocks(blocks) ==
    /\ textBlocks' = blocks
    /\ at' = IF blocks = <<>> THEN "failed" ELSE "cut"
    /\ pending' = IF blocks = <<>> THEN <<>> ELSE UnitsOf(blocks[1].text, 1)
    /\ UNCHANGED <<file, pages, block, tier, filling, cut>>

buildPDFChunks ==
    /\ at = "blocks"
    /\ StartBlocks([i \in DOMAIN pages |-> TextBlock(pages[i].page, pages[i].method, PageText)])

\* The files of the archive in its order; one that cannot be read fails them all.
parseEPUB ==
    /\ file.kind = "epub" /\ at = "parse"
    /\ LET html == Ascending({i \in DOMAIN file.sections : file.sections[i] = "text"})
       IN  StartBlocks(IF \E i \in DOMAIN file.sections : file.sections[i] = "error" THEN <<>>
                       ELSE [i \in DOMAIN html |-> TextBlock(html[i], "parser", PageText)])

parseText ==
    /\ file.kind = "text" /\ at = "parse"
    /\ StartBlocks(IF HasText(file.text) THEN <<TextBlock(1, "parser", file.text)>> ELSE <<>>)

-----------------------------------------------------------------------------
(* Chunks *)

unitsTokenLen(units) == SumOf([i \in DOMAIN units |-> units[i].tokens])

\* The shortest end of the units with at least that many tokens, or all of them.
overlapUnitsByTokens(units, overlap) ==
    IF overlap <= 0 \/ units = <<>> THEN <<>>
    ELSE LET From(i) == SubSeq(units, i, Len(units))
         IN  From(Max({1} \cup {i \in DOMAIN units : unitsTokenLen(From(i)) >= overlap}))

ClosedChunk(units) == [block |-> block, tier |-> tier, index |-> Len(cut),
                       tierIndex |-> Cardinality({i \in DOMAIN cut : cut[i].block = block /\ cut[i].tier = tier}),
                       tierCount |-> 0, count |-> 0, units |-> units]

\* chunkTextByTokens, a step of its loop: a chunk that the next unit would overfill is
\* closed, and its end begins the next one unless the two would overfill that too.
TakeUnit ==
    LET unit   == Head(pending)
        Over(s) == s # <<>> /\ unitsTokenLen(s) + unit.tokens > TierSize[tier]
        kept   == overlapUnitsByTokens(filling, TierOverlap[tier])
    IN  /\ at = "cut" /\ pending # <<>>
        /\ cut' = IF Over(filling) THEN Append(cut, ClosedChunk(filling)) ELSE cut
        /\ filling' = Append(IF ~ Over(filling) THEN filling ELSE IF Over(kept) THEN <<>> ELSE kept, unit)
        /\ pending' = Tail(pending)
        /\ UNCHANGED <<file, at, pages, textBlocks, block, tier>>

\* The counts of a tier, and of all once they are known.
WithCounts(chunks, last) ==
    LET OfTier == {i \in DOMAIN chunks : chunks[i].block = block /\ chunks[i].tier = tier}
    IN  [i \in DOMAIN chunks |->
            [chunks[i] EXCEPT !.tierCount = IF i \in OfTier THEN Cardinality(OfTier) ELSE @,
                              !.count = IF last THEN Len(chunks) ELSE @]]

\* buildRetrievalChunks: the last chunk of a tier, then the next tier or block.
EndTier ==
    LET last == block = Len(textBlocks) /\ tier = Len(Tiers)
    IN  /\ at = "cut" /\ pending = <<>>
        /\ cut' = WithCounts(IF filling = <<>> THEN cut ELSE Append(cut, ClosedChunk(filling)), last)
        /\ filling' = <<>>
        /\ tier' = IF tier = Len(Tiers) THEN 1 ELSE tier + 1
        /\ block' = IF tier = Len(Tiers) /\ ~ last THEN block + 1 ELSE block
        /\ pending' = IF last THEN <<>> ELSE UnitsOf(textBlocks[block'].text, tier')
        /\ at' = IF ~ last THEN "cut" ELSE IF cut' = <<>> THEN "failed" ELSE "done"
        /\ UNCHANGED <<file, pages, textBlocks>>

-----------------------------------------------------------------------------
NoFile == [kind |-> "none", tool |-> "none", native |-> <<>>, ocrEnabled |-> FALSE, ocrTool |-> "none",
           ocrOutput |-> <<>>, ocr |-> <<>>, sections |-> <<>>, text |-> <<>>]
Pdf(tool, native, enabled, ocrTool, output, ocr) ==
    [NoFile EXCEPT !.kind = "pdf", !.tool = tool, !.native = native, !.ocrEnabled = enabled,
                   !.ocrTool = ocrTool, !.ocrOutput = output, !.ocr = ocr]

\* The files: what the tools read in a PDF, and whether they can; sections; a text.
NativeReadings == [PdfPageNos -> NativePages \cup {NoPage}]
OcrReadings == [PdfPageNos -> OcrPages \cup {NoPage}]
NativeTools == {"pdftotext", "golib", "none"}
OcrTools == ({"service", "none"} \X {<<>>}) \cup ({"command"} \X OcrOutputs)
PdfFiles ==
    {Pdf(read[1], read[2], TRUE, read[3][1], read[3][2], read[4]) :
        read \in NativeTools \X NativeReadings \X OcrTools \X OcrReadings}
    \cup {Pdf("pdftotext", native, FALSE, "none", <<>>, <<>>) : native \in NativeReadings}
EpubFiles ==
    {[NoFile EXCEPT !.kind = "epub", !.sections = s] :
        s \in UNION {[1 .. n -> {"error", "other", "blank", "text"}] : n \in 0 .. MaxSections}}
TextFiles == {[NoFile EXCEPT !.kind = "text", !.text = t] : t \in TheTexts}
Files == PdfFiles \cup EpubFiles \cup TextFiles

ChunkingInit ==
    /\ file \in Files
    /\ at = "parse" /\ pages = <<>> /\ textBlocks = <<>>
    /\ block = 1 /\ tier = 1 /\ pending = <<>> /\ filling = <<>>
    /\ cut = <<>>

ChunkingNext ==
    parsePDF \/ ReadByOCR \/ buildPDFChunks \/ parseEPUB \/ parseText \/ TakeUnit \/ EndTier

ChunkingSpec == ChunkingInit /\ [][ChunkingNext]_chunkingVars

-----------------------------------------------------------------------------
(* What the chunks promise *)

\* The OCR gives each page its own number: the service, and the command where its files list
\* their pages and number them, or list all the pages before.  Where they do not, pages share
\* a number and only the last of them is kept.
OcrNumbersPages ==
    file.ocrTool = "command" =>
        \A i \in DOMAIN file.ocrOutput :
            LET entry == file.ocrOutput[i]
            IN  PaddlePageNo(entry, Cardinality({j \in InFile(entry.file) : j <= i})) = entry.page

\* Every page that was read natively is one block, and so is every page that an OCR read
\* that ran and numbers its pages; the blocks are in order, and the OCR stands only where
\* the native reading is poor (parser.go mergePDFPages).
PagesKept ==
    LET native == IF file.tool = "none" THEN {} ELSE Readable(file.native)
        poor   == native = {} \/ \E p \in native : isLowQualityPage(file.native[p])
        ocr    == IF file.ocrEnabled /\ file.ocrTool # "none" /\ poor /\ ~ OcrFails THEN Readable(file.ocr) ELSE {}
        kept   == {textBlocks[i].no : i \in DOMAIN textBlocks}
    IN  /\ native \subseteq kept
        /\ OcrNumbersPages => kept = native \cup ocr
        /\ \A i, j \in DOMAIN textBlocks : i < j => textBlocks[i].no < textBlocks[j].no
        /\ \A i \in DOMAIN textBlocks :
            LET p == textBlocks[i].no
            IN  p \in native /\ textBlocks[i].method \in {"ocr-service", "paddleocr"}
                => isLowQualityPage(file.native[p])

\* The chunks of a block in a tier follow each other: runs of its units from the first to
\* the last, each beginning after the one before it and no later than where that one ends,
\* and bringing something new; none above the size but for a single unit, and no more in
\* common than the overlap needs (parser.go chunkTextByTokens).
TierKept(b, t) ==
    LET units   == UnitsOf(textBlocks[b].text, t)
        From(i) == cut[i].units[1].no
        To(i)   == Last(cut[i].units).no
    IN  \E m, n \in DOMAIN cut :
        /\ {i \in DOMAIN cut : cut[i].block = b /\ cut[i].tier = t} = m .. n
        /\ m <= n /\ From(m) = 1 /\ To(n) = Len(units)
        /\ \A i \in m .. n :
            /\ cut[i].units = SubSeq(units, From(i), To(i))
            /\ unitsTokenLen(cut[i].units) <= TierSize[t] \/ Len(cut[i].units) = 1
            /\ cut[i].tierIndex = i - m /\ cut[i].tierCount = n - m + 1 /\ cut[i].count = Len(cut)
            /\ i > m => /\ From(i - 1) < From(i) /\ From(i) <= To(i - 1) + 1 /\ To(i - 1) < To(i)
                        /\ unitsTokenLen(SubSeq(units, From(i) + 1, To(i - 1))) < TierOverlap[t]
                           \/ From(i) > To(i - 1)

\* The units hold what the lines hold, and begin a paragraph where the text does.
UnitsKept(b, t) ==
    LET units == UnitsOf(textBlocks[b].text, t)
        text  == textBlocks[b].text
        Paragraph(i) == text[i].runes > 0 /\ (i = 1 \/ text[i - 1].runes = 0)
        Joined(i)    == text[i].runes > 0 /\ ~ Paragraph(i) /\ ~ text[i - 1].ends
        Runes(s)     == SumOf([i \in DOMAIN s |-> s[i].runes])
    IN  /\ Runes(units) = Runes(text) + Cardinality({i \in DOMAIN text : Joined(i)})
        /\ Cardinality({i \in DOMAIN units : units[i].starts}) = Cardinality({i \in DOMAIN text : Paragraph(i)})

\* Nothing that was read is lost on the way to the index, but for pages that an OCR gives
\* the number of others, and nothing is out of order.
TextKept ==
    at = "done" =>
        /\ file.kind = "pdf" => PagesKept
        /\ \A b \in DOMAIN textBlocks, t \in 1 .. 2 : TierKept(b, t) /\ UnitsKept(b, t)
        /\ \A i \in DOMAIN cut : cut[i].index = i - 1
=============================================================================
