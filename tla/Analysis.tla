------------------------------ MODULE Analysis ------------------------------
(***************************************************************************)
(* What a worker makes of one submission: Submit_Data and the processors   *)
(* it calls, down to the requests to the language model, and back up with  *)
(* the verdict.  Archives hold files of every kind, archives included, so  *)
(* Submit_Archive and Submit_Data call each other: the calls under way are *)
(* a stack.                                                                *)
(*                                                                         *)
(* A file is what it is made of: the entries of an archive, the pages of a *)
(* PDF, the PDF that LibreOffice makes of an office document.              *)
(***************************************************************************)
EXTENDS Integers, Sequences, FiniteSets

CONSTANTS
    Files,            \* submissions, and whatever is inside them
    Submissions,
    NoFile,
    Kind,             \* Kind[f]: what Check_MIME says, or "PAGE", or "OTHER"
    Parts,            \* Parts[f]: entries, pages or PDF, in order
    Path,             \* Path[f]: the rank of its name in natural order, in the
                      \* archive it is in; 0 leaves the work directory
    Size,
    Minimum_Image_Size, Max_PDF_Pages, Max_Archive_Size,
    MaxFaults         \* bound: failures during one analysis

Supported == {"IMAGE", "TEXT", "PDF", "OFFICE", "ARCHIVE"}
Leaves == {f \in Files : Kind[f] \in {"IMAGE", "TEXT", "PAGE"}}

\* A file and everything in it, however deep.  Nothing says that the nesting ends:
\* there are archives that hold a copy of themselves.
ClosedSets ==
    {S \in SUBSET Files : \A f \in S : \A i \in 1..Len(Parts[f]) : Parts[f][i] \in S}
Inside == [f \in Files |->
    LET holders == {S \in ClosedSets : f \in S}
    IN  {x \in Files : \A S \in holders : x \in S}]

ASSUME PartsAssumption ==
    /\ Submissions \subseteq {f \in Files : Kind[f] \in Supported}
    /\ NoFile \notin Files
    /\ Kind \in [Files -> Supported \cup {"PAGE", "OTHER"}]
    /\ Parts \in [Files -> Seq(Files)]
    /\ \A f \in Files : Kind[f] = "OFFICE"
           => Len(Parts[f]) = 1 /\ Kind[Parts[f][1]] = "PDF"
    /\ \A f \in Files : Kind[f] = "PDF"
           => \A i \in 1..Len(Parts[f]) : Kind[Parts[f][i]] = "PAGE"
    /\ \A f \in Leaves : Parts[f] = <<>>
    /\ Path \in [Files -> Nat] /\ Size \in [Files -> Nat]
ASSUME LimitsAssumption ==
    /\ Minimum_Image_Size \in Nat /\ Max_PDF_Pages \in Nat
    /\ Max_Archive_Size \in Nat /\ MaxFaults \in Nat

VARIABLES
    root,      \* the submission a worker has last taken
    stack,     \* the calls under way, the innermost first
    ret,       \* what the last call that ended returned
    faults

\* History, read by the properties only.
VARIABLES
    sensitive, \* the parts in which the model sees sensitive data
    found,     \* the files on the stack when it said so
    excused    \* files the analysis gave up or passed over

past == <<sensitive, found, excused>>
vars == <<root, stack, ret, faults, past>>

-----------------------------------------------------------------------------
(* Verdicts                                                                *)

NoPage == -1
NoPath == 0
Verdict(s, b) ==
    [status |-> s, has_sensitive_data |-> b, page_number |-> NoPage,
     file_in_zip |-> NoPath]
NoVerdict == Verdict("none", FALSE)     \* the empty string
Failed == Verdict("failed", FALSE)
Clean == Verdict("success", FALSE)

Verdicts ==
    [status : {"none", "failed", "success"}, has_sensitive_data : BOOLEAN,
     page_number : {NoPage} \cup Nat, file_in_zip : Nat]

-----------------------------------------------------------------------------
(* Calls                                                                   *)

\* next: entries or pages done; out: the extracted files still to be looked at;
\* member: the last of them that was looked at (before, the archive itself);
\* total: bytes extracted or pages made; cut: was a file extracted in part?;
\* first: the verdict on page one
Call(f, b) ==
    [file |-> f, blank |-> b, at |-> "begin", next |-> 0, out |-> {},
     member |-> f, total |-> 0, cut |-> FALSE, first |-> NoVerdict]

Calls ==
    [file : Files, blank : BOOLEAN,
     at : {"begin", "pages", "extract", "walk", "await"},
     next : Nat, out : SUBSET Files, member : Files, total : Nat, cut : BOOLEAN,
     first : Verdicts]

Top == Head(stack)
Running(kind, place) ==
    stack # <<>> /\ Kind[Top.file] = kind /\ Top.at = place
Continue(t) == stack' = <<t>> \o Tail(stack) /\ UNCHANGED ret
Enter(f, b, t) == stack' = <<Call(f, b), t>> \o Tail(stack) /\ UNCHANGED ret
Return(v) == stack' = Tail(stack) /\ ret' = v

Fault == faults < MaxFaults /\ faults' = faults + 1
Excuse(S) == excused' = excused \cup S

\* A step of the call fails: it returns a verdict that says so.
GiveUp ==
    /\ Fault
    /\ Return(Failed)
    /\ Excuse({Top.file})
    /\ UNCHANGED <<root, sensitive, found>>

\* Submit_AI: every error is the verdict Failed.
Submit_AI(f, blank, v) ==
    \/ /\ v = Failed /\ Fault
       /\ Excuse({f})
       /\ UNCHANGED found
    \/ /\ v \in {Verdict("success", b) : b \in
                     IF blank THEN BOOLEAN ELSE {f \in sensitive}}
       /\ found' = IF v.has_sensitive_data
                     THEN {stack[i].file : i \in 1..Len(stack)} \cup {f} ELSE found
       /\ UNCHANGED <<faults, excused>>

Init ==
    /\ root = NoFile /\ stack = <<>> /\ ret = NoVerdict /\ faults = 0
    /\ sensitive = {} /\ found = {} /\ excused = {}

-----------------------------------------------------------------------------
(* DoWork and Submit_Data                                                  *)

DoWork(f) ==
    /\ stack = <<>>
    /\ root' = f
    /\ stack' = <<Call(f, FALSE)>> /\ ret' = NoVerdict /\ faults' = 0
    /\ sensitive' \in SUBSET (Inside[f] \cap Leaves)
    /\ found' = {} /\ excused' = {}

TooSmall(t) == t.blank \/ Size[t.file] <= Minimum_Image_Size

RejectImage ==
    /\ Running("IMAGE", "begin") /\ TooSmall(Top)
    /\ Return(NoVerdict)
    /\ Excuse({Top.file})
    /\ UNCHANGED <<root, faults, sensitive, found>>

SubmitImage(v) ==
    /\ Running("IMAGE", "begin") /\ ~TooSmall(Top)
    /\ Submit_AI(Top.file, FALSE, v)
    /\ Return(v)
    /\ UNCHANGED <<root, sensitive>>

SubmitText(v) ==
    /\ Running("TEXT", "begin")
    /\ Submit_AI(Top.file, Top.blank, v)
    /\ Return(v)
    /\ UNCHANGED <<root, sensitive>>

-----------------------------------------------------------------------------
(* Submit_PDF                                                              *)

PagesOf(f) == Parts[f]

\* The command has made all the pages, or those of %RANGE%.
ConvertPDF ==
    /\ Running("PDF", "begin")
    /\ \E n \in {Max_PDF_Pages, Len(PagesOf(Top.file))} :
           /\ n > 0 /\ n =< Len(PagesOf(Top.file))
           /\ Continue([Top EXCEPT !.at = "pages", !.total = n])
    /\ Excuse({PagesOf(Top.file)[i] :
                  i \in Max_PDF_Pages+1..Len(PagesOf(Top.file))})
    /\ UNCHANGED <<root, faults, sensitive, found>>

\* No directory, no file, no conversion, no time left, ...
ConvertPDFFails == Running("PDF", "begin") /\ GiveUp

\* ... or no pages.
NoPages ==
    /\ Running("PDF", "begin") /\ (Top.blank \/ PagesOf(Top.file) = <<>>)
    /\ Return(Failed)
    /\ UNCHANGED <<root, faults, past>>

Page == PagesOf(Top.file)[Top.next + 1]

LastPage(t) == t.next >= Max_PDF_Pages
PageLeft == Running("PDF", "pages") /\ Top.next < Top.total

\* A page without sensitive data: on to the next one.
CleanPage(v) ==
    /\ PageLeft /\ ~LastPage(Top)
    /\ Submit_AI(Page, Top.blank, v) /\ ~v.has_sensitive_data
    /\ Continue([Top EXCEPT !.next = @ + 1,
                            !.first = IF Top.next = 0 THEN v ELSE @])
    /\ UNCHANGED <<root, sensitive>>

\* Mutant of SensitivePage: it is page one's verdict that is returned.
SensitivePage_First(v) ==
    /\ PageLeft /\ ~LastPage(Top)
    /\ Submit_AI(Page, Top.blank, v) /\ v.has_sensitive_data
    /\ Return([Top.first EXCEPT !.page_number = Top.next])
    /\ UNCHANGED <<root, sensitive>>

SensitivePage(v) ==
    /\ PageLeft /\ ~LastPage(Top)
    /\ Submit_AI(Page, Top.blank, v) /\ v.has_sensitive_data
    /\ Return([v EXCEPT !.page_number = Top.next])
    /\ UNCHANGED <<root, sensitive>>

ReadPageFails ==
    /\ PageLeft /\ ~LastPage(Top)
    /\ GiveUp

HitMaxPages ==
    /\ PageLeft /\ LastPage(Top)
    /\ Return(Top.first)
    /\ UNCHANGED <<root, faults, past>>

AllPages ==
    /\ Running("PDF", "pages") /\ Top.next = Top.total
    /\ Return([Top.first EXCEPT !.page_number = 1])
    /\ UNCHANGED <<root, faults, past>>

Submit_PDF ==
    \/ ConvertPDF \/ ConvertPDFFails \/ NoPages \/ ReadPageFails \/ HitMaxPages \/ AllPages
    \/ \E v \in {Failed} \cup {Verdict("success", b) : b \in BOOLEAN} :
           CleanPage(v) \/ SensitivePage(v)

-----------------------------------------------------------------------------
(* Submit_Office                                                           *)

\* LibreOffice makes a PDF, which Submit_PDF takes.
ConvertOffice ==
    /\ Running("OFFICE", "begin")
    /\ Enter(Parts[Top.file][1], Top.blank, [Top EXCEPT !.at = "await"])
    /\ UNCHANGED <<root, faults, past>>

ConvertOfficeFails == Running("OFFICE", "begin") /\ GiveUp

OfficeDone ==
    /\ Running("OFFICE", "await")
    /\ Return(ret)
    /\ UNCHANGED <<root, faults, past>>

Submit_Office == ConvertOffice \/ ConvertOfficeFails \/ OfficeDone

-----------------------------------------------------------------------------
(* Submit_Archive                                                          *)

IdentifyArchive ==
    /\ Running("ARCHIVE", "begin") /\ ~Top.blank
    /\ Continue([Top EXCEPT !.at = "extract"])
    /\ UNCHANGED <<root, faults, past>>

\* No directory, no file, no format, or one that cannot be extracted.
IdentifyArchiveFails ==
    Running("ARCHIVE", "begin") /\ ~Top.blank /\ GiveUp

\* Nothing was read of an archive in an archive.
IdentifyNothing ==
    /\ Running("ARCHIVE", "begin") /\ Top.blank
    /\ Return(Failed)
    /\ UNCHANGED <<root, faults, past>>

Extracting == Running("ARCHIVE", "extract") /\ Top.next < Len(Parts[Top.file])
Entry == Parts[Top.file][Top.next + 1]

\* A name that leaves the work directory is skipped.
SkipEntry ==
    /\ Extracting /\ Path[Entry] = 0
    /\ Continue([Top EXCEPT !.next = @ + 1])
    /\ Excuse({Entry})
    /\ UNCHANGED <<root, faults, sensitive, found>>

Least(m, n) == IF m < n THEN m ELSE n

\* Mutant of Copied: the byte too many is not asked for.
Copied_Exactly(t, e) == Least(Size[e], Max_Archive_Size - t.total)

\* What io.Copy takes of an entry: at most a byte more than may remain.
Copied(t, e) == Least(Size[e], Max_Archive_Size - t.total + 1)

WithinLimit(t, e) ==
    /\ t.total < Max_Archive_Size
    /\ t.total + Copied(t, e) =< Max_Archive_Size

\* The file replaces one of the same name.
ExtractEntry ==
    /\ Extracting /\ Path[Entry] # 0 /\ WithinLimit(Top, Entry)
    /\ LET same == {f \in Top.out : Path[f] = Path[Entry]}
       IN  /\ Continue([Top EXCEPT
                  !.next = @ + 1,
                  !.out = (@ \ same) \cup {Entry},
                  !.total = @ + Copied(Top, Entry),
                  !.cut = @ \/ Copied(Top, Entry) < Size[Entry]])
           /\ Excuse(same)
    /\ UNCHANGED <<root, faults, sensitive, found>>

ExceedLimit ==
    /\ Extracting /\ Path[Entry] # 0 /\ ~WithinLimit(Top, Entry)
    /\ Return(Failed)
    /\ Excuse({Top.file})
    /\ UNCHANGED <<root, faults, sensitive, found>>

\* The deadline, a damaged entry, a directory or a file that cannot be made.
ExtractFails == Running("ARCHIVE", "extract") /\ GiveUp

Extracted ==
    /\ Running("ARCHIVE", "extract") /\ Top.next = Len(Parts[Top.file])
    /\ Continue([Top EXCEPT !.at = "walk"])
    /\ UNCHANGED <<root, faults, past>>

\* The files are looked at in natural order of their names.
Walking(m) ==
    /\ Running("ARCHIVE", "walk")
    /\ m \in Top.out /\ \A g \in Top.out : Path[m] =< Path[g]
LookingAt(m) == [Top EXCEPT !.at = "await", !.out = @ \ {m}, !.member = m]

\* Not a type to analyse, or not a type that could be told.
SkipMember(m) ==
    /\ Walking(m)
    /\ \/ Kind[m] \notin Supported /\ UNCHANGED faults
       \/ Fault
    /\ Continue([Top EXCEPT !.out = @ \ {m}])
    /\ Excuse({m})
    /\ UNCHANGED <<root, sensitive, found>>

SubmitMember(m) ==
    /\ Walking(m) /\ Kind[m] \in Supported
    /\ Enter(m, FALSE, LookingAt(m))
    /\ UNCHANGED <<root, faults, past>>

\* A member that cannot be read is submitted all the same, with no data.
ReadMemberFails(m) ==
    /\ Walking(m) /\ Kind[m] \in Supported
    /\ Fault
    /\ Enter(m, TRUE, LookingAt(m))
    /\ Excuse({m})
    /\ UNCHANGED <<root, sensitive, found>>

\* Mutant of CleanMember: the first member decides.
CleanMember_Decides ==
    /\ Running("ARCHIVE", "await") /\ ~ret.has_sensitive_data
    /\ Return(ret)
    /\ UNCHANGED <<root, faults, past>>

\* Mutant of CleanMember: the member is looked at again.
CleanMember_Again ==
    /\ Running("ARCHIVE", "await") /\ ~ret.has_sensitive_data
    /\ Continue([Top EXCEPT !.at = "walk", !.out = @ \cup {Top.member}])
    /\ UNCHANGED <<root, faults, past>>

\* Whatever else the verdict on the member says, the walk goes on.
CleanMember ==
    /\ Running("ARCHIVE", "await") /\ ~ret.has_sensitive_data
    /\ Continue([Top EXCEPT !.at = "walk"])
    /\ UNCHANGED <<root, faults, past>>

\* Mutant of SensitiveMember: the walk goes on to find them all.
SensitiveMember_Continues ==
    /\ Running("ARCHIVE", "await") /\ ret.has_sensitive_data
    /\ Continue([Top EXCEPT !.at = "walk"])
    /\ UNCHANGED <<root, faults, past>>

\* Mutant of SensitiveMember: a member that is named already stays named.
SensitiveMember_Inner ==
    /\ Running("ARCHIVE", "await") /\ ret.has_sensitive_data
    /\ Return([ret EXCEPT !.file_in_zip = IF @ = NoPath THEN Path[Top.member] ELSE @])
    /\ UNCHANGED <<root, faults, past>>

SensitiveMember ==
    /\ Running("ARCHIVE", "await") /\ ret.has_sensitive_data
    /\ Return([ret EXCEPT !.file_in_zip = Path[Top.member]])
    /\ UNCHANGED <<root, faults, past>>

CleanArchive ==
    /\ Running("ARCHIVE", "walk") /\ Top.out = {}
    /\ Return(Clean)
    /\ UNCHANGED <<root, faults, past>>

Submit_Archive ==
    \/ IdentifyArchive \/ IdentifyArchiveFails \/ IdentifyNothing
    \/ SkipEntry \/ ExtractEntry \/ ExceedLimit \/ ExtractFails \/ Extracted
    \/ \E m \in Files : SkipMember(m) \/ SubmitMember(m) \/ ReadMemberFails(m)
    \/ CleanMember \/ SensitiveMember \/ CleanArchive

-----------------------------------------------------------------------------
Submit_Data ==
    \/ RejectImage
    \/ \E v \in {Failed} \cup {Verdict("success", b) : b \in BOOLEAN} :
           SubmitImage(v) \/ SubmitText(v)
    \/ Submit_PDF \/ Submit_Office \/ Submit_Archive

Next == Submit_Data \/ \E f \in Submissions : DoWork(f)

Spec == Init /\ [][Next]_vars

\* Every step of an analysis ends: requests and commands have timeouts.
FairSpec == Spec /\ WF_vars(Submit_Data)

-----------------------------------------------------------------------------
(* Properties                                                              *)

Done == stack = <<>> /\ root # NoFile

\* The calls under way and what they return keep their types, and no page after
\* the last one allowed is ever submitted.
AnalysisTypeOK ==
    /\ root \in Files \cup {NoFile}
    /\ stack \in Seq(Calls)
    /\ \A i \in 1..Len(stack) :
           stack[i].at = "pages" => stack[i].next =< Max_PDF_Pages
    /\ ret \in Verdicts

\* The verdict on a submission says that it has sensitive data exactly if the
\* model said so of a part of it: nothing is lost, overwritten or made up on
\* the way through archives, documents and pages.
FoundIsReported == Done => (ret.has_sensitive_data <=> found # {})

\* The page and the member that the verdict names are those where it was found.
\* (Pages count from zero; in nested archives it is the outermost member.)
PointsToFinding ==
    Done /\ ret.has_sensitive_data =>
        /\ ret.page_number # NoPage => \E f \in found :
               /\ Kind[f] = "PDF" /\ ret.page_number < Len(Parts[f])
               /\ Parts[f][ret.page_number + 1] \in found
        /\ ret.file_in_zip # NoPath <=> Kind[root] = "ARCHIVE"
        /\ ret.file_in_zip # NoPath => \E i \in 1..Len(Parts[root]) :
               /\ Parts[root][i] \in found
               /\ Path[Parts[root][i]] = ret.file_in_zip

\* docs: "stops at the first page" or "file with sensitive data".  From then
\* on every step of every call under way is its return.
StopsAtFirst ==
    [][found # {} /\ stack # <<>> => Len(stack') = Len(stack) - 1]_vars

\* What an archive has been extracted to is within the limit, and every file of
\* it is there in full: the limit refuses an archive, it does not truncate it.
NothingCutShort ==
    \A i \in 1..Len(stack) :
        stack[i].at \in {"walk", "await"} /\ Kind[stack[i].file] = "ARCHIVE"
            => ~stack[i].cut /\ stack[i].total =< Max_Archive_Size

\* A part with sensitive data that the verdict is silent about is in a file of
\* which a step failed, or which the code passes over: too small an image, a
\* page after the last, a name outside, a file replaced by another of its name.
MissedOnlyIfExcused ==
    Done /\ ~ret.has_sensitive_data =>
        \A f \in sensitive : \E e \in excused : f \in Inside[e]

\* A worker gets done with a submission, unless it is at an archive that it found
\* in that same archive: nothing but the size of what one archive is extracted to,
\* and the time for it, is limited, not how deep Submit_Archive and Submit_Data call
\* each other.
AnalysisEnds ==
    stack # <<>> ~>
        \/ stack = <<>>
        \/ \E i, j \in 1..Len(stack) :
              /\ i < j /\ stack[i].file = stack[j].file
              /\ Kind[stack[i].file] = "ARCHIVE"
=============================================================================
