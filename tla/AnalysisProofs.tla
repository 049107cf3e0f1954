--------------------------- MODULE AnalysisProofs ---------------------------
(***************************************************************************)
(* Machine-checked proofs about Analysis: whatever files hold which, every *)
(* limit and any number of failures.                                       *)
(***************************************************************************)
EXTENDS Analysis, FiniteSetTheorems, WellFoundedInduction, TLAPS

\* A stack without its top, and with a call on it.
LEMMA PopStack ==
    ASSUME NEW S, NEW s \in Seq(S), s # <<>>
    PROVE  /\ Head(s) = s[1] /\ Head(s) \in S /\ Len(s) \in Nat \ {0}
           /\ Tail(s) \in Seq(S) /\ Len(Tail(s)) = Len(s) - 1
           /\ \A i \in 1..Len(Tail(s)) : Tail(s)[i] = s[i + 1]
  OBVIOUS

LEMMA PushStack ==
    ASSUME NEW S, NEW s \in Seq(S), NEW t \in S
    PROVE  /\ <<t>> \o s \in Seq(S) /\ <<t>> \o s # <<>>
           /\ Len(<<t>> \o s) = Len(s) + 1
           /\ Head(<<t>> \o s) = t /\ (<<t>> \o s)[1] = t
           /\ \A i \in 2..Len(<<t>> \o s) : (<<t>> \o s)[i] = s[i - 1]
  OBVIOUS

\* The stack after a call goes on, and after it makes another.
LEMMA Continued ==
    ASSUME NEW S, stack \in Seq(S), stack # <<>>, NEW t \in S, Continue(t)
    PROVE  /\ stack' \in Seq(S) /\ stack' # <<>> /\ Head(stack') = t
           /\ Len(stack') = Len(stack) /\ stack'[1] = t
           /\ \A i \in 2..Len(stack') : stack'[i] = stack[i]
<1>1. /\ Tail(stack) \in Seq(S) /\ Len(stack) \in Nat \ {0}
      /\ Len(Tail(stack)) = Len(stack) - 1
      /\ \A i \in 1..Len(Tail(stack)) : Tail(stack)[i] = stack[i + 1]
  BY PopStack
<1>2. /\ stack' \in Seq(S) /\ stack' # <<>> /\ Head(stack') = t
      /\ Len(stack') = Len(stack) /\ stack'[1] = t
      /\ \A i \in 2..Len(stack') : stack'[i] = Tail(stack)[i - 1]
  BY <1>1, PushStack DEF Continue
<1>3. \A i \in 2..Len(stack') : i - 1 \in 1..Len(Tail(stack)) /\ (i - 1) + 1 = i
  BY <1>1, <1>2
<1>4. \A i \in 2..Len(stack') : stack'[i] = stack[i]
  BY <1>1, <1>2, <1>3
<1>5. QED
  BY <1>2, <1>4

LEMMA Entered ==
    ASSUME NEW S, stack \in Seq(S), stack # <<>>, NEW f, NEW b, NEW t \in S,
           Call(f, b) \in S, Enter(f, b, t)
    PROVE  /\ stack' \in Seq(S) /\ stack' # <<>> /\ Head(stack') = Call(f, b)
           /\ Len(stack') = Len(stack) + 1 /\ Len(stack) \in Nat \ {0}
           /\ stack'[1] = Call(f, b) /\ stack'[2] = t
           /\ \A i \in 3..Len(stack') : stack'[i] = stack[i - 1]
<1> DEFINE s == <<t>> \o Tail(stack)
<1>1. /\ Tail(stack) \in Seq(S) /\ Len(stack) \in Nat \ {0}
      /\ Len(Tail(stack)) = Len(stack) - 1
      /\ \A i \in 1..Len(Tail(stack)) : Tail(stack)[i] = stack[i + 1]
  BY PopStack
<1>2. /\ s \in Seq(S) /\ Len(s) = Len(stack) /\ s[1] = t
      /\ \A i \in 2..Len(s) : s[i] = Tail(stack)[i - 1]
  BY <1>1, PushStack
<1>3. stack' = <<Call(f, b)>> \o s
  BY <1>1 DEF Enter
<1> HIDE DEF s
<1>4. /\ stack' \in Seq(S) /\ stack' # <<>> /\ Head(stack') = Call(f, b)
      /\ Len(stack') = Len(s) + 1 /\ stack'[1] = Call(f, b)
      /\ \A i \in 2..Len(stack') : stack'[i] = s[i - 1]
  BY <1>2, <1>3, PushStack
<1>5. stack'[2] = t
  BY <1>1, <1>2, <1>4
<1>6. ASSUME NEW i \in 3..Len(stack')
      PROVE  stack'[i] = stack[i - 1]
  <2>1. /\ i \in 2..Len(stack') /\ i - 1 \in 2..Len(s)
        /\ (i - 1) - 1 \in 1..Len(Tail(stack)) /\ ((i - 1) - 1) + 1 = i - 1
    BY <1>1, <1>2, <1>4
  <2>2. stack'[i] = s[i - 1] /\ s[i - 1] = Tail(stack)[(i - 1) - 1]
    BY <1>2, <1>4, <2>1
  <2>3. QED
    BY <1>1, <2>1, <2>2
<1>7. QED
  BY <1>1, <1>2, <1>4, <1>5, <1>6

\* What holds of every call under way: no PDF goes beyond its last page, page
\* one's verdict was clean, and an archive is within its limit.
Sound(t) ==
    /\ t \in Calls
    /\ t.at = "begin" => t.next = 0
    /\ t.at = "pages" => t.next =< Max_PDF_Pages
    /\ ~t.first.has_sensitive_data
    /\ Kind[t.file] = "ARCHIVE" => ~t.cut /\ t.total =< Max_Archive_Size

\* Every call under way is sound, and all but the innermost wait.
StackOK(s) ==
    /\ s \in Seq(Calls)
    /\ \A i \in 1..Len(s) : Sound(s[i])
    /\ \A i \in 2..Len(s) : s[i].at = "await"

LEMMA StackReturn ==
    ASSUME StackOK(stack), stack # <<>>, NEW v, Return(v)
    PROVE  /\ StackOK(stack') /\ Len(stack') = Len(stack) - 1
           /\ \A i \in 1..Len(stack') : stack'[i] = stack[i + 1]
           /\ stack' # <<>> => Head(stack').at = "await"
           /\ ret' = v
<1>1. stack \in Seq(Calls) /\ stack' = Tail(stack)
  BY DEF StackOK, Return
<1>2. /\ stack' \in Seq(Calls) /\ Len(stack') = Len(stack) - 1
      /\ Len(stack) \in Nat \ {0}
      /\ \A i \in 1..Len(stack') : stack'[i] = stack[i + 1]
  BY <1>1, PopStack
<1>3. \A i \in 1..Len(stack') : i + 1 \in 2..Len(stack)
  BY <1>2
<1>4. \A i \in 1..Len(stack') : Sound(stack'[i]) /\ stack'[i].at = "await"
  BY <1>2, <1>3 DEF StackOK
<1>5. stack' # <<>> => Head(stack') = stack'[1] /\ 1 \in 1..Len(stack')
  BY <1>2, PopStack
<1>6. QED
  BY <1>2, <1>4, <1>5 DEF StackOK, Return

LEMMA StackContinue ==
    ASSUME StackOK(stack), stack # <<>>, NEW t, Sound(t), Continue(t)
    PROVE  StackOK(stack') /\ stack' # <<>> /\ Head(stack') = t /\ ret' = ret
<1>1. stack \in Seq(Calls) /\ t \in Calls
  BY DEF StackOK, Sound
<1>2. /\ stack' \in Seq(Calls) /\ stack' # <<>> /\ Head(stack') = t
      /\ Len(stack') = Len(stack) /\ stack'[1] = t
      /\ \A i \in 2..Len(stack') : stack'[i] = stack[i]
  BY <1>1, Continued
<1>3. \A i \in 1..Len(stack') : Sound(stack'[i])
  BY <1>2 DEF StackOK
<1>4. QED
  BY <1>2, <1>3 DEF StackOK, Continue

LEMMA StackEnter ==
    ASSUME StackOK(stack), stack # <<>>, NEW f \in Files, NEW b \in BOOLEAN,
           NEW t, Sound(t), t.at = "await", Enter(f, b, t), Sound(Call(f, b))
    PROVE  /\ StackOK(stack') /\ stack' # <<>> /\ ret' = ret
           /\ Head(stack').at = "begin"
<1>1. stack \in Seq(Calls) /\ t \in Calls /\ Call(f, b) \in Calls
  BY DEF StackOK, Sound
<1>2. /\ stack' \in Seq(Calls) /\ stack' # <<>> /\ Head(stack') = Call(f, b)
      /\ Len(stack') = Len(stack) + 1 /\ Len(stack) \in Nat \ {0}
      /\ stack'[1] = Call(f, b) /\ stack'[2] = t
      /\ \A i \in 3..Len(stack') : stack'[i] = stack[i - 1]
  BY <1>1, Entered
<1>3. \A i \in 3..Len(stack') : i - 1 \in 2..Len(stack)
  BY <1>2
<1>4. \A i \in 2..Len(stack') : Sound(stack'[i]) /\ stack'[i].at = "await"
  <2>1. \A i \in 3..Len(stack') : Sound(stack'[i]) /\ stack'[i].at = "await"
    BY <1>2, <1>3 DEF StackOK
  <2>2. \A i \in 2..Len(stack') : i = 2 \/ i \in 3..Len(stack')
    BY <1>2
  <2>3. QED
    BY <1>2, <2>1, <2>2
<1>5. \A i \in 1..Len(stack') : Sound(stack'[i])
  BY <1>2, <1>4
<1>6. Head(stack').at = "begin"
  BY <1>2 DEF Call
<1>7. QED
  BY <1>2, <1>4, <1>5, <1>6 DEF StackOK, Enter

-----------------------------------------------------------------------------
(* What is found is returned, call by call                                 *)

\* Once something is found, every call under way is about to return it; and a
\* call that is about to go on with a verdict has one that tells the truth.
FindInv ==
    /\ root \in Files \cup {NoFile}
    /\ ret \in Verdicts
    /\ StackOK(stack)
    /\ found # {} => ret.has_sensitive_data /\ (stack # <<>> => Top.at = "await")
    /\ (stack = <<>> \/ Top.at = "await")
          => (ret.has_sensitive_data => found # {})

LEMMA TopSound ==
    ASSUME FindInv, stack # <<>>
    PROVE  Sound(Top) /\ Top \in Calls /\ Top.file \in Files
<1>1. Head(stack) = stack[1] /\ Len(stack) \in Nat \ {0}
  BY PopStack DEF FindInv, StackOK
<1>2. Sound(Top)
  BY <1>1 DEF FindInv, StackOK, Top
<1>3. QED
  BY <1>2 DEF Sound, Calls

LEMMA FindReturn ==
    ASSUME FindInv, stack # <<>>, root' = root, NEW v \in Verdicts, Return(v),
           v.has_sensitive_data <=> found' # {}
    PROVE  FindInv'
<1>1. StackOK(stack)' /\ ret' = v /\ (stack' # <<>> => Head(stack').at = "await")
  BY StackReturn DEF FindInv
<1>2. QED
  BY <1>1 DEF FindInv, Top

LEMMA FindContinue ==
    ASSUME FindInv, stack # <<>>, root' = root, NEW t, Sound(t), Continue(t),
           t.at # "await", found' = {}
    PROVE  FindInv'
<1>1. StackOK(stack)' /\ stack' # <<>> /\ Head(stack') = t /\ ret' = ret
  BY StackContinue DEF FindInv
<1>2. QED
  BY <1>1 DEF FindInv, Top

LEMMA FindEnter ==
    ASSUME FindInv, stack # <<>>, root' = root, NEW f \in Files, NEW b \in BOOLEAN,
           NEW t, Sound(t), t.at = "await", Enter(f, b, t), found' = {}
    PROVE  FindInv'
<1>1. Sound(Call(f, b))
  BY LimitsAssumption
  DEF Sound, Call, Calls, NoVerdict, Verdict, Verdicts, NoPage, NoPath
<1>2. /\ StackOK(stack)' /\ stack' # <<>> /\ ret' = ret
      /\ Head(stack').at = "begin"
  BY <1>1, StackEnter DEF FindInv
<1>3. QED
  BY <1>2 DEF FindInv, Top

\* The verdicts that the code writes itself, and the model's.
LEMMA VerdictsOfCode ==
    /\ Failed \in Verdicts /\ Clean \in Verdicts /\ NoVerdict \in Verdicts
    /\ ~Failed.has_sensitive_data /\ ~Clean.has_sensitive_data
    /\ ~NoVerdict.has_sensitive_data
    /\ \A b \in BOOLEAN : /\ Verdict("success", b) \in Verdicts
                          /\ Verdict("success", b).has_sensitive_data = b
  BY DEF Failed, Clean, NoVerdict, Verdict, Verdicts, NoPage, NoPath

\* Nothing is found while the innermost call does not wait.
LEMMA NotFoundYet ==
    ASSUME FindInv, NEW kind, NEW place, Running(kind, place), place # "await"
    PROVE  found = {} /\ stack # <<>>
  BY DEF FindInv, Running

\* A request is answered with sensitive data exactly if it finds some.
LEMMA Answered ==
    ASSUME FindInv, stack # <<>>, found = {}, NEW f, NEW b \in BOOLEAN,
           NEW v, Submit_AI(f, b, v)
    PROVE  v \in Verdicts /\ (v.has_sensitive_data <=> found' # {})
<1>1. CASE v = Failed /\ UNCHANGED found
  BY <1>1, VerdictsOfCode
<1>2. CASE /\ v \in {Verdict("success", c) : c \in
                        IF b THEN BOOLEAN ELSE {f \in sensitive}}
           /\ found' = IF v.has_sensitive_data
                         THEN {stack[i].file : i \in 1..Len(stack)} \cup {f}
                         ELSE found
  <2>1. v \in Verdicts
    BY <1>2, VerdictsOfCode
  <2>2. QED
    BY <1>2, <2>1
<1>3. QED
  BY <1>1, <1>2 DEF Submit_AI

LEMMA FindGiveUp ==
    ASSUME FindInv, stack # <<>>, found = {}, GiveUp
    PROVE  FindInv'
  BY FindReturn, VerdictsOfCode DEF GiveUp

\* A verdict stays one whatever page or member it is made to name.
LEMMA VerdictNames ==
    ASSUME NEW v \in Verdicts, NEW n \in Nat
    PROVE  /\ [v EXCEPT !.page_number = n] \in Verdicts
           /\ [v EXCEPT !.page_number = n].has_sensitive_data
                  = v.has_sensitive_data
           /\ [v EXCEPT !.file_in_zip = n] \in Verdicts
           /\ [v EXCEPT !.file_in_zip = n].has_sensitive_data
                  = v.has_sensitive_data
  BY DEF Verdicts

-----------------------------------------------------------------------------
(* Every step keeps it                                                     *)

LEMMA FindInit == Init => FindInv
<1> SUFFICES ASSUME Init PROVE FindInv
  OBVIOUS
<1>1. StackOK(stack)
  BY DEF Init, StackOK
<1>2. QED
  BY <1>1, VerdictsOfCode DEF Init, FindInv

LEMMA FindDoWork ==
    ASSUME FindInv, NEW f \in Submissions, DoWork(f)
    PROVE  FindInv'
<1>1. f \in Files /\ Sound(Call(f, FALSE))
  BY PartsAssumption, LimitsAssumption
  DEF Sound, Call, Calls, NoVerdict, Verdict, Verdicts, NoPage, NoPath
<1>2. \A c : Sound(c) => StackOK(<<c>>)
  BY DEF StackOK, Sound
<1>3. StackOK(stack')
  BY <1>1, <1>2 DEF DoWork
<1>4. root' \in Files /\ ret' = NoVerdict /\ found' = {}
  BY <1>1 DEF DoWork
<1>5. QED
  BY <1>3, <1>4, VerdictsOfCode DEF FindInv

\* Images and texts: one request, or none.
LEMMA FindLeaf ==
    ASSUME FindInv, NEW v, RejectImage \/ SubmitImage(v) \/ SubmitText(v)
    PROVE  FindInv'
<1>1. CASE RejectImage
  <2>1. found = {} /\ stack # <<>>
    BY <1>1, NotFoundYet DEF RejectImage
  <2>2. QED
    BY <1>1, <2>1, FindReturn, VerdictsOfCode DEF RejectImage
<1>2. CASE SubmitImage(v)
  <2>1. found = {} /\ stack # <<>>
    BY <1>2, NotFoundYet DEF SubmitImage
  <2>2. v \in Verdicts /\ (v.has_sensitive_data <=> found' # {})
    BY <1>2, <2>1, TopSound, Answered DEF SubmitImage
  <2>3. QED
    BY <1>2, <2>1, <2>2, FindReturn DEF SubmitImage
<1>3. CASE SubmitText(v)
  <2>1. found = {} /\ stack # <<>>
    BY <1>3, NotFoundYet DEF SubmitText
  <2>2. Top.blank \in BOOLEAN
    BY <2>1, TopSound DEF Calls
  <2>3. v \in Verdicts /\ (v.has_sensitive_data <=> found' # {})
    BY <1>3, <2>1, <2>2, TopSound, Answered DEF SubmitText
  <2>4. QED
    BY <1>3, <2>1, <2>3, FindReturn DEF SubmitText
<1>4. QED
  BY <1>1, <1>2, <1>3

\* What a call that goes on may change of itself.
LEMMA SoundPDF ==
    ASSUME NEW t, Sound(t), Kind[t.file] # "ARCHIVE"
    PROVE  /\ \A n \in Nat : t.at = "begin" =>
                  Sound([t EXCEPT !.at = "pages", !.total = n])
           /\ \A v \in Verdicts : t.at = "pages" /\ t.next < Max_PDF_Pages
                  /\ ~v.has_sensitive_data =>
                  Sound([t EXCEPT !.next = @ + 1,
                                  !.first = IF t.next = 0 THEN v ELSE @])
           /\ Sound([t EXCEPT !.at = "await"])
<1>1. ASSUME NEW n \in Nat, t.at = "begin"
      PROVE  Sound([t EXCEPT !.at = "pages", !.total = n])
  <2>1. t.next = 0 /\ 0 =< Max_PDF_Pages
    BY <1>1, LimitsAssumption DEF Sound
  <2> DEFINE u == [t EXCEPT !.at = "pages", !.total = n]
  <2>2. u \in Calls
    BY DEF Sound, Calls
  <2>3. u.at = "pages" /\ u.next = 0 /\ u.first = t.first /\ u.file = t.file
    BY <2>1 DEF Sound, Calls
  <2> HIDE DEF u
  <2>4. Sound(u)
    BY <2>1, <2>2, <2>3 DEF Sound
  <2>5. QED
    BY <2>4 DEF u
<1>2. ASSUME NEW v \in Verdicts, t.at = "pages", t.next < Max_PDF_Pages,
             ~v.has_sensitive_data
      PROVE  Sound([t EXCEPT !.next = @ + 1,
                             !.first = IF t.next = 0 THEN v ELSE @])
  <2>1. t.next + 1 \in Nat /\ t.next + 1 =< Max_PDF_Pages
    BY <1>2, LimitsAssumption DEF Sound, Calls
  <2> DEFINE w == IF t.next = 0 THEN v ELSE t.first
  <2>2. w \in Verdicts /\ ~w.has_sensitive_data
    BY <1>2 DEF Sound, Calls
  <2> HIDE DEF w
  <2>3. Sound([t EXCEPT !.next = t.next + 1, !.first = w])
    BY <1>2, <2>1, <2>2 DEF Sound, Calls
  <2>4. QED
    BY <2>3 DEF w
<1>3. Sound([t EXCEPT !.at = "await"])
  BY DEF Sound, Calls
<1>4. QED
  BY <1>1, <1>2, <1>3

LEMMA FindPDF ==
    ASSUME FindInv, Submit_PDF
    PROVE  FindInv'
<1>1. PICK place \in {"begin", "pages"} : Running("PDF", place)
  BY DEF Submit_PDF, ConvertPDF, ConvertPDFFails, NoPages, ReadPageFails,
         HitMaxPages, AllPages, CleanPage, SensitivePage, PageLeft
<1>2. /\ found = {} /\ stack # <<>> /\ Sound(Top) /\ Top \in Calls
      /\ Top.file \in Files /\ Kind[Top.file] = "PDF"
  BY <1>1, NotFoundYet, TopSound DEF Running
<1>3. /\ Parts[Top.file] \in Seq(Files) /\ Len(Parts[Top.file]) \in Nat
      /\ Top.next \in Nat /\ Top.total \in Nat /\ Top.first \in Verdicts
      /\ Top.blank \in BOOLEAN /\ ~Top.first.has_sensitive_data
  BY <1>2, PartsAssumption DEF Calls, Sound
<1>4. CASE ConvertPDF
  <2>1. PICK n \in Nat :
            /\ Top.at = "begin"
            /\ Continue([Top EXCEPT !.at = "pages", !.total = n])
    BY <1>3, <1>4, LimitsAssumption DEF ConvertPDF, Running, PagesOf
  <2> DEFINE t == [Top EXCEPT !.at = "pages", !.total = n]
  <2>2. Sound(t) /\ t.at # "await"
    BY <1>2, <2>1, SoundPDF DEF Calls
  <2> HIDE DEF t
  <2>3. QED
    BY <1>2, <1>4, <2>1, <2>2, FindContinue DEF ConvertPDF, t
<1>5. CASE ConvertPDFFails \/ ReadPageFails
  BY <1>2, <1>5, FindGiveUp DEF ConvertPDFFails, ReadPageFails
<1>6. CASE NoPages
  BY <1>2, <1>6, FindReturn, VerdictsOfCode DEF NoPages, past
<1>7. CASE HitMaxPages
  BY <1>2, <1>3, <1>7, FindReturn DEF HitMaxPages, past
<1>8. CASE AllPages
  BY <1>2, <1>3, <1>8, FindReturn, VerdictNames DEF AllPages, past
<1>9. ASSUME NEW v, CleanPage(v) \/ SensitivePage(v)
      PROVE  /\ v \in Verdicts /\ (v.has_sensitive_data <=> found' # {})
             /\ Top.next < Max_PDF_Pages
  <2>1. PageLeft /\ ~LastPage(Top) /\ Submit_AI(Page, Top.blank, v)
    BY <1>9 DEF CleanPage, SensitivePage
  <2>2. Top.next < Max_PDF_Pages
    BY <1>3, <2>1, LimitsAssumption DEF LastPage
  <2>3. QED
    BY <1>2, <1>3, <2>1, <2>2, Answered
<1>10. CASE \E v : CleanPage(v)
  <2>1. PICK v : CleanPage(v)
    BY <1>10
  <2> DEFINE t == [Top EXCEPT !.next = @ + 1,
                              !.first = IF Top.next = 0 THEN v ELSE @]
  <2>2. /\ v \in Verdicts /\ ~v.has_sensitive_data /\ found' = {}
        /\ Top.at = "pages" /\ Top.next < Max_PDF_Pages
    BY <1>9, <2>1 DEF CleanPage, PageLeft, Running
  <2>3. Sound(t) /\ t.at # "await"
    BY <1>2, <2>2, SoundPDF DEF Calls
  <2>4. Continue(t) /\ root' = root
    BY <2>1 DEF CleanPage
  <2> HIDE DEF t
  <2>5. QED
    BY <1>2, <2>2, <2>3, <2>4, FindContinue
<1>11. CASE \E v : SensitivePage(v)
  <2>1. PICK v : SensitivePage(v)
    BY <1>11
  <2> DEFINE w == [v EXCEPT !.page_number = Top.next]
  <2>2. w \in Verdicts /\ (w.has_sensitive_data <=> found' # {})
    BY <1>3, <1>9, <2>1, VerdictNames
  <2>3. Return(w) /\ root' = root
    BY <2>1 DEF SensitivePage
  <2> HIDE DEF w
  <2>4. QED
    BY <1>2, <2>2, <2>3, FindReturn
<1>12. QED
  BY <1>4, <1>5, <1>6, <1>7, <1>8, <1>10, <1>11 DEF Submit_PDF

LEMMA FindOffice ==
    ASSUME FindInv, Submit_Office
    PROVE  FindInv'
<1>1. CASE ConvertOffice
  <2>1. Running("OFFICE", "begin") /\ UNCHANGED found /\ root' = root
    BY <1>1 DEF ConvertOffice, past
  <2>2. /\ found = {} /\ stack # <<>> /\ Sound(Top) /\ Top \in Calls
        /\ Top.file \in Files /\ Kind[Top.file] = "OFFICE"
    BY <2>1, NotFoundYet, TopSound DEF Running
  <2>3. Parts[Top.file][1] \in Files /\ Top.blank \in BOOLEAN
    BY <2>2, PartsAssumption DEF Calls
  <2> DEFINE t == [Top EXCEPT !.at = "await"]
  <2>4. Sound(t) /\ t.at = "await"
    BY <2>2, SoundPDF DEF Calls
  <2>5. Enter(Parts[Top.file][1], Top.blank, t)
    BY <1>1 DEF ConvertOffice
  <2> HIDE DEF t
  <2>6. QED
    BY <2>1, <2>2, <2>3, <2>4, <2>5, FindEnter
<1>2. CASE ConvertOfficeFails
  BY <1>2, NotFoundYet, FindGiveUp DEF ConvertOfficeFails
<1>3. CASE OfficeDone
  <2>1. ret \in Verdicts /\ (ret.has_sensitive_data <=> found # {})
    BY <1>3 DEF OfficeDone, Running, FindInv
  <2>2. QED
    BY <1>3, <2>1, FindReturn DEF OfficeDone, Running, past
<1>4. QED
  BY <1>1, <1>2, <1>3 DEF Submit_Office

\* What an entry adds keeps an archive within its limit, and adds all of it.
LEMMA Whole ==
    ASSUME NEW t \in Calls, NEW e \in Files, WithinLimit(t, e)
    PROVE  /\ t.total + Copied(t, e) \in Nat
           /\ t.total + Copied(t, e) =< Max_Archive_Size
           /\ ~(Copied(t, e) < Size[e])
<1>1. Size[e] \in Nat /\ t.total \in Nat
  BY PartsAssumption DEF Calls
<1>2. QED
  BY <1>1, LimitsAssumption DEF WithinLimit, Copied, Least

\* A call moves on: only its place, its entry or its files change.
LEMMA SoundArchive ==
    ASSUME NEW t, Sound(t)
    PROVE  /\ Sound([t EXCEPT !.at = "extract"])
           /\ Sound([t EXCEPT !.at = "walk"])
           /\ \A S \in SUBSET Files :
                  t.at \in {"walk", "await"} => Sound([t EXCEPT !.out = S])
           /\ \A S \in SUBSET Files, m \in Files :
                  Sound([t EXCEPT !.at = "await", !.out = S, !.member = m])
           /\ t.at = "extract" => Sound([t EXCEPT !.next = @ + 1])
<1>1. /\ Sound([t EXCEPT !.at = "extract"]) /\ Sound([t EXCEPT !.at = "walk"])
  BY DEF Sound, Calls
<1>2. ASSUME NEW S \in SUBSET Files
      PROVE  t.at \in {"walk", "await"} => Sound([t EXCEPT !.out = S])
  BY DEF Sound, Calls
<1>3. ASSUME NEW S \in SUBSET Files, NEW m \in Files
      PROVE  Sound([t EXCEPT !.at = "await", !.out = S, !.member = m])
  BY DEF Sound, Calls
<1>4. t.at = "extract" => Sound([t EXCEPT !.next = @ + 1])
  BY DEF Sound, Calls
<1>5. QED
  BY <1>1, <1>2, <1>3, <1>4

\* An entry is extracted.
LEMMA FindExtract ==
    ASSUME FindInv, ExtractEntry
    PROVE  FindInv'
<1>1. /\ found = {} /\ stack # <<>> /\ Sound(Top) /\ Top \in Calls
      /\ Top.file \in Files /\ Top.at = "extract"
  BY NotFoundYet, TopSound DEF ExtractEntry, Extracting, Running
<1>2. Parts[Top.file] \in Seq(Files) /\ Top.next \in Nat
  BY <1>1, PartsAssumption DEF Calls
<1>3. Entry \in Files
  BY <1>2 DEF ExtractEntry, Extracting, Entry
<1> DEFINE n == Top.total + Copied(Top, Entry)
           c == Top.cut \/ Copied(Top, Entry) < Size[Entry]
           S == (Top.out \ {f \in Top.out : Path[f] = Path[Entry]}) \cup {Entry}
           t == [Top EXCEPT !.next = Top.next + 1, !.out = S, !.total = n, !.cut = c]
<1>4. n \in Nat /\ n =< Max_Archive_Size /\ ~(Copied(Top, Entry) < Size[Entry])
  BY <1>1, <1>3, Whole DEF ExtractEntry
<1>5. c = Top.cut
  BY <1>1, <1>4 DEF Calls
<1>6. S \in SUBSET Files
  BY <1>1, <1>3 DEF Calls
<1>7. Continue(t) /\ root' = root /\ found' = found
  BY DEF ExtractEntry
<1> HIDE DEF n, c, S
<1>8. Sound(t) /\ t.at # "await"
  <2>1. t \in Calls
    <3>1. c \in BOOLEAN
      BY <1>1, <1>5 DEF Calls
    <3>2. Top.next + 1 \in Nat
      BY <1>2
    <3>3. QED
      BY <1>1, <1>4, <1>6, <3>1, <3>2 DEF Calls
  <2>2. /\ t.at = "extract" /\ t.first = Top.first /\ t.file = Top.file
        /\ t.cut = Top.cut /\ t.total = n
    BY <1>1, <1>5 DEF Calls
  <2>3. QED
    BY <1>1, <1>4, <2>1, <2>2 DEF Sound
<1> HIDE DEF t
<1>9. QED
  BY <1>1, <1>7, <1>8, FindContinue

\* A member of the archive is passed over or submitted.
LEMMA FindMember ==
    ASSUME FindInv, NEW m \in Files,
           SkipMember(m) \/ SubmitMember(m) \/ ReadMemberFails(m)
    PROVE  FindInv'
<1>1. Walking(m) /\ root' = root /\ found' = found
  BY DEF SkipMember, SubmitMember, ReadMemberFails, past
<1>2. /\ found = {} /\ stack # <<>> /\ Sound(Top) /\ Top \in Calls
      /\ Top.at = "walk" /\ Top.out \ {m} \in SUBSET Files
  BY <1>1, NotFoundYet, TopSound DEF Walking, Running, Calls
<1>3. CASE SkipMember(m)
  <2> DEFINE t == [Top EXCEPT !.out = Top.out \ {m}]
  <2>1. Sound(t) /\ t.at # "await"
    BY <1>2, SoundArchive DEF Calls
  <2>2. Continue(t)
    BY <1>3 DEF SkipMember
  <2> HIDE DEF t
  <2>3. QED
    BY <1>1, <1>2, <2>1, <2>2, FindContinue
<1>4. CASE SubmitMember(m) \/ ReadMemberFails(m)
  <2>1. Sound(LookingAt(m)) /\ LookingAt(m).at = "await"
    BY <1>2, SoundArchive DEF LookingAt, Calls
  <2>2. PICK b \in BOOLEAN : Enter(m, b, LookingAt(m))
    BY <1>4 DEF SubmitMember, ReadMemberFails
  <2>3. QED
    BY <1>1, <1>2, <2>1, <2>2, FindEnter
<1>5. QED
  BY <1>3, <1>4

LEMMA FindArchive ==
    ASSUME FindInv, Submit_Archive
    PROVE  FindInv'
<1>1. ASSUME NEW place, Running("ARCHIVE", place), place # "await"
      PROVE  /\ found = {} /\ stack # <<>> /\ Sound(Top) /\ Top \in Calls
             /\ Top.at = place
  BY <1>1, NotFoundYet, TopSound DEF Running
<1>2. CASE IdentifyArchive
  <2> DEFINE t == [Top EXCEPT !.at = "extract"]
  <2>1. Continue(t) /\ root' = root /\ found' = found
        /\ Running("ARCHIVE", "begin")
    BY <1>2 DEF IdentifyArchive, past
  <2>2. Sound(t) /\ t.at # "await"
    BY <1>1, <2>1, SoundArchive DEF Calls
  <2> HIDE DEF t
  <2>3. QED
    BY <1>1, <2>1, <2>2, FindContinue
<1>3. CASE IdentifyArchiveFails \/ ExtractFails
  BY <1>1, <1>3, FindGiveUp DEF IdentifyArchiveFails, ExtractFails
<1>4. CASE IdentifyNothing \/ ExceedLimit
  BY <1>1, <1>4, FindReturn, VerdictsOfCode
  DEF IdentifyNothing, ExceedLimit, Extracting, past
<1>5. CASE SkipEntry
  <2> DEFINE t == [Top EXCEPT !.next = @ + 1]
  <2>1. Continue(t) /\ root' = root /\ found' = found
        /\ Running("ARCHIVE", "extract")
    BY <1>5 DEF SkipEntry, Extracting
  <2>2. Sound(t) /\ t.at # "await"
    <3>1. Sound(Top) /\ Top \in Calls /\ Top.at = "extract"
      BY <1>1, <2>1
    <3>2. t.at = "extract"
      BY <3>1 DEF Calls
    <3>3. QED
      BY <3>1, <3>2, SoundArchive
  <2> HIDE DEF t
  <2>3. QED
    BY <1>1, <2>1, <2>2, FindContinue
<1>6. CASE ExtractEntry
  BY <1>6, FindExtract
<1>7. CASE Extracted \/ CleanMember
  <2> DEFINE t == [Top EXCEPT !.at = "walk"]
  <2>1. Continue(t) /\ root' = root /\ found' = found /\ stack # <<>>
    BY <1>7 DEF Extracted, CleanMember, Running, past
  <2>2. found = {}
    BY <1>1, <1>7 DEF Extracted, CleanMember, FindInv
  <2>3. Sound(t) /\ t.at # "await"
    BY <2>1, TopSound, SoundArchive DEF Calls
  <2> HIDE DEF t
  <2>4. QED
    BY <2>1, <2>2, <2>3, FindContinue
<1>8. CASE \E m \in Files : SkipMember(m) \/ SubmitMember(m) \/ ReadMemberFails(m)
  BY <1>8, FindMember
<1>9. CASE SensitiveMember
  <2>1. /\ stack # <<>> /\ ret \in Verdicts /\ found # {}
        /\ ret.has_sensitive_data
    BY <1>9 DEF SensitiveMember, Running, FindInv
  <2>2. Path[Top.member] \in Nat
    BY <2>1, TopSound, PartsAssumption DEF Calls
  <2> DEFINE w == [ret EXCEPT !.file_in_zip = Path[Top.member]]
  <2>3. w \in Verdicts /\ w.has_sensitive_data
    BY <2>1, <2>2, VerdictNames
  <2>4. Return(w) /\ root' = root /\ found' = found
    BY <1>9 DEF SensitiveMember, past
  <2> HIDE DEF w
  <2>5. QED
    BY <2>1, <2>3, <2>4, FindReturn
<1>10. CASE CleanArchive
  BY <1>1, <1>10, FindReturn, VerdictsOfCode DEF CleanArchive, past
<1>11. QED
  BY <1>2, <1>3, <1>4, <1>5, <1>6, <1>7, <1>8, <1>9, <1>10 DEF Submit_Archive

LEMMA FindStep == FindInv /\ [Next]_vars => FindInv'
<1> SUFFICES ASSUME FindInv, [Next]_vars PROVE FindInv'
  OBVIOUS
<1>1. CASE RejectImage \/ \E v : SubmitImage(v) \/ SubmitText(v)
  BY <1>1, FindLeaf
<1>2. CASE Submit_PDF \/ Submit_Office \/ Submit_Archive
  BY <1>2, FindPDF, FindOffice, FindArchive
<1>3. CASE \E f \in Submissions : DoWork(f)
  BY <1>3, FindDoWork
<1>4. CASE UNCHANGED vars
  BY <1>4 DEF vars, past, FindInv, StackOK, Top
<1>5. QED
  BY <1>1, <1>2, <1>3, <1>4 DEF Next, Submit_Data

THEOREM FindingsKept == Spec => []FindInv
  BY FindInit, FindStep, PTL DEF Spec

-----------------------------------------------------------------------------
(* The page and the member named are where it was found                    *)

\* The file that a waiting call has passed on, and an entry that is extracted.
Inner(t) == IF Kind[t.file] = "OFFICE" THEN Parts[t.file][1] ELSE t.member
Listed(f, m) == Path[m] # NoPath /\ \E i \in 1..Len(Parts[f]) : Parts[f][i] = m

\* A PDF has no more pages than it has, an archive's files left to look at are
\* entries of it, and so is the one it waits for.
Placed(t) ==
    /\ t.at = "pages" => t.total =< Len(Parts[t.file])
    /\ Kind[t.file] = "ARCHIVE" => \A m \in t.out : Listed(t.file, m)
    /\ t.at = "await" =>
          \/ Kind[t.file] = "OFFICE"
          \/ Kind[t.file] = "ARCHIVE" /\ Listed(t.file, t.member)

\* The calls under way are those that led from the submission to the innermost.
ChainInv ==
    /\ \A i \in 1..Len(stack) : Placed(stack[i])
    /\ \A i \in 1..(Len(stack) - 1) : stack[i].file = Inner(stack[i + 1])
    /\ stack # <<>> => stack[Len(stack)].file = root

\* The file whose verdict ret is, once something is found.
Returned == IF stack = <<>> THEN root ELSE Inner(Top)

\* From the finding on, ret names its page; and the member of the archive it is the
\* verdict on, if it is the verdict on one.
PageOK(r) ==
    r.page_number # NoPage => \E f \in found :
        /\ Kind[f] = "PDF" /\ r.page_number < Len(Parts[f])
        /\ Parts[f][r.page_number + 1] \in found
PointInv ==
    found # {} =>
        /\ \A i \in 1..Len(stack) : stack[i].file \in found
        /\ Returned \in found
        /\ PageOK(ret)
        /\ ret.file_in_zip # NoPath <=> Kind[Returned] = "ARCHIVE"
        /\ ret.file_in_zip # NoPath => \E i \in 1..Len(Parts[Returned]) :
               /\ Parts[Returned][i] \in found
               /\ Path[Parts[Returned][i]] = ret.file_in_zip

LEMMA TopPlaced ==
    ASSUME FindInv, ChainInv, stack # <<>>
    PROVE  Placed(Top) /\ Top \in Calls /\ Top.file \in Files
<1>1. Head(stack) = stack[1] /\ Len(stack) \in Nat \ {0}
  BY PopStack DEF FindInv, StackOK
<1>2. QED
  BY <1>1, TopSound DEF ChainInv, Top

LEMMA ChainReturn ==
    ASSUME FindInv, ChainInv, stack # <<>>, root' = root, NEW v, Return(v)
    PROVE  ChainInv' /\ Returned' = Top.file
<1>1. /\ Top = stack[1] /\ Len(stack) \in Nat \ {0} /\ stack' \in Seq(Calls)
      /\ Len(stack') = Len(stack) - 1
      /\ \A i \in 1..Len(stack') : stack'[i] = stack[i + 1]
      /\ stack' # <<>> => Top' = stack'[1]
  BY PopStack DEF FindInv, StackOK, Top, Return
<1>2. \A i \in 1..Len(stack') : i + 1 \in 1..Len(stack)
  BY <1>1
<1>3. \A i \in 1..Len(stack') : Placed(stack'[i])
  BY <1>1, <1>2 DEF ChainInv
<1>4. ASSUME NEW i \in 1..(Len(stack') - 1)
      PROVE  stack'[i].file = Inner(stack'[i + 1])
  <2>1. /\ i \in 1..Len(stack') /\ i + 1 \in 1..Len(stack')
        /\ i + 1 \in 1..(Len(stack) - 1)
    BY <1>1
  <2>2. stack'[i] = stack[i + 1] /\ stack'[i + 1] = stack[(i + 1) + 1]
    BY <1>1, <2>1
  <2>3. QED
    BY <2>1, <2>2 DEF ChainInv
<1>5. stack' # <<>> => stack'[Len(stack')].file = root'
  <2>1. SUFFICES ASSUME stack' # <<>>
                 PROVE  stack'[Len(stack')].file = root'
    OBVIOUS
  <2>2. Len(stack') \in 1..Len(stack') /\ Len(stack') + 1 = Len(stack)
    BY <1>1, <2>1
  <2>3. stack'[Len(stack')] = stack[Len(stack)]
    BY <1>1, <2>2
  <2>4. QED
    BY <2>3 DEF ChainInv
<1>6. Returned' = Top.file
  <2>1. CASE stack' = <<>>
    <3>1. Len(stack) = 1
      BY <1>1, <2>1
    <3>2. QED
      BY <1>1, <2>1, <3>1 DEF ChainInv, Returned
  <2>2. CASE stack' # <<>>
    <3>1. 1 \in 1..(Len(stack) - 1) /\ 1 \in 1..Len(stack')
      BY <1>1, <2>2
    <3>2. Top' = stack[2] /\ stack[1].file = Inner(stack[2])
      BY <1>1, <2>2, <3>1 DEF ChainInv
    <3>3. QED
      BY <1>1, <2>2, <3>2 DEF Returned
  <2>3. QED
    BY <2>1, <2>2
<1>7. QED
  BY <1>3, <1>4, <1>5, <1>6 DEF ChainInv

LEMMA ChainContinue ==
    ASSUME FindInv, ChainInv, stack # <<>>, root' = root, NEW t, Continue(t),
           t.file = Top.file, Placed(t)
    PROVE  ChainInv'
<1>1. /\ stack \in Seq(Calls \cup {t}) /\ Top = stack[1] /\ Len(stack) \in Nat \ {0}
  BY PopStack DEF FindInv, StackOK, Top
<1>2. /\ Len(stack') = Len(stack) /\ stack'[1] = t /\ stack' # <<>>
      /\ \A i \in 2..Len(stack') : stack'[i] = stack[i]
  BY <1>1, Continued
<1>3. \A i \in 1..Len(stack') : i = 1 \/ i \in 2..Len(stack')
  BY <1>1, <1>2
<1>4. \A i \in 1..Len(stack') : Placed(stack'[i]) /\ stack'[i].file = stack[i].file
  BY <1>1, <1>2, <1>3 DEF ChainInv
<1>5. ASSUME NEW i \in 1..(Len(stack') - 1)
      PROVE  stack'[i].file = Inner(stack'[i + 1])
  <2>1. i + 1 \in 2..Len(stack') /\ i \in 1..Len(stack') /\ i \in 1..(Len(stack) - 1)
    BY <1>1, <1>2
  <2>2. QED
    BY <1>2, <1>4, <2>1 DEF ChainInv
<1>6. Len(stack') \in 1..Len(stack')
  BY <1>1, <1>2
<1>7. stack'[Len(stack')].file = root'
  BY <1>1, <1>2, <1>4, <1>6 DEF ChainInv
<1>8. QED
  BY <1>4, <1>5, <1>7 DEF ChainInv

LEMMA ChainEnter ==
    ASSUME FindInv, ChainInv, stack # <<>>, root' = root, NEW f, NEW b, NEW t,
           Enter(f, b, t), t.file = Top.file, Inner(t) = f, Placed(t)
    PROVE  ChainInv'
<1>1. /\ stack \in Seq(Calls \cup {t, Call(f, b)}) /\ Top = stack[1]
  BY PopStack DEF FindInv, StackOK, Top
<1>2. /\ Len(stack') = Len(stack) + 1 /\ Len(stack) \in Nat \ {0} /\ stack' # <<>>
      /\ stack'[1] = Call(f, b) /\ stack'[2] = t
      /\ \A i \in 3..Len(stack') : stack'[i] = stack[i - 1]
  BY <1>1, Entered
<1>3. \A i \in 1..Len(stack') : i = 1 \/ i = 2 \/ (i \in 3..Len(stack') /\ i - 1 \in 1..Len(stack))
  BY <1>2
<1>4. Placed(Call(f, b)) /\ Call(f, b).file = f
  BY DEF Placed, Call
<1>5. \A i \in 1..Len(stack') : Placed(stack'[i])
  BY <1>2, <1>3, <1>4 DEF ChainInv
<1>6. \A i \in 2..Len(stack') : stack'[i].file = stack[i - 1].file
  BY <1>1, <1>2, <1>3
<1>7. ASSUME NEW i \in 1..(Len(stack') - 1)
      PROVE  stack'[i].file = Inner(stack'[i + 1])
  <2>1. CASE i = 1
    BY <1>2, <1>4, <2>1
  <2>2. CASE i # 1
    <3>1. /\ i \in 2..Len(stack') /\ i + 1 \in 3..Len(stack') /\ (i + 1) - 1 = i
          /\ i - 1 \in 1..(Len(stack) - 1) /\ (i - 1) + 1 = i
      BY <1>2, <2>2
    <3>2. stack'[i + 1] = stack[i] /\ stack'[i].file = stack[i - 1].file
      BY <1>2, <1>6, <3>1
    <3>3. QED
      BY <3>1, <3>2 DEF ChainInv
  <2>3. QED
    BY <2>1, <2>2
<1>8. Len(stack') \in 2..Len(stack') /\ Len(stack') - 1 = Len(stack)
  BY <1>2
<1>9. stack'[Len(stack')].file = root'
  BY <1>6, <1>8 DEF ChainInv
<1>10. QED
  BY <1>5, <1>7, <1>9 DEF ChainInv

LEMMA ChainArchive ==
    ASSUME FindInv, ChainInv, Submit_Archive, \A v : ~Return(v)
    PROVE  ChainInv'
<1>1. stack # <<>> /\ Kind[Top.file] = "ARCHIVE" /\ root' = root
  BY DEF Submit_Archive, IdentifyArchive, IdentifyArchiveFails, IdentifyNothing, SkipEntry,
         ExtractEntry, ExceedLimit, ExtractFails, Extracted, SkipMember, SubmitMember,
         ReadMemberFails, CleanMember, SensitiveMember, CleanArchive, Extracting, Walking,
         Running, GiveUp
<1>2. Placed(Top) /\ Top \in Calls /\ Top.file \in Files
  BY <1>1, TopPlaced
<1>3. CASE IdentifyArchive
  <2> DEFINE t == [Top EXCEPT !.at = "extract"]
  <2>1. t.file = Top.file /\ Placed(t)
    BY <1>2 DEF Placed, Calls
  <2>2. Continue(t)
    BY <1>3 DEF IdentifyArchive
  <2> HIDE DEF t
  <2>3. QED
    BY <1>1, <2>1, <2>2, ChainContinue
<1>4. CASE SkipEntry
  <2> DEFINE t == [Top EXCEPT !.next = @ + 1]
  <2>1. t.file = Top.file /\ Placed(t)
    BY <1>2 DEF Placed, Calls
  <2>2. Continue(t)
    BY <1>4 DEF SkipEntry
  <2> HIDE DEF t
  <2>3. QED
    BY <1>1, <2>1, <2>2, ChainContinue
<1>5. CASE ExtractEntry
  <2> DEFINE S == (Top.out \ {f \in Top.out : Path[f] = Path[Entry]}) \cup {Entry}
             n == Top.total + Copied(Top, Entry)
             c == Top.cut \/ Copied(Top, Entry) < Size[Entry]
             t == [Top EXCEPT !.next = Top.next + 1, !.out = S, !.total = n, !.cut = c]
  <2>1. Listed(Top.file, Entry)
    <3>1. /\ Parts[Top.file] \in Seq(Files) /\ Top.next \in Nat
          /\ Top.next < Len(Parts[Top.file]) /\ Path[Entry] # NoPath
      BY <1>2, <1>5, PartsAssumption DEF ExtractEntry, Extracting, Calls, NoPath
    <3>2. Top.next + 1 \in 1..Len(Parts[Top.file])
      BY <3>1
    <3>3. QED
      BY <3>1, <3>2 DEF Listed, Entry
  <2>2. \A m \in S : Listed(Top.file, m)
    BY <1>1, <1>2, <2>1 DEF Placed
  <2>3. Continue(t)
    BY <1>5 DEF ExtractEntry
  <2> HIDE DEF S, n, c
  <2>4. t.file = Top.file /\ t.out = S /\ t.at = "extract"
    BY <1>2, <1>5 DEF Calls, ExtractEntry, Extracting, Running
  <2> HIDE DEF t
  <2>5. Placed(t)
    BY <2>2, <2>4 DEF Placed
  <2>6. QED
    BY <1>1, <2>3, <2>4, <2>5, ChainContinue
<1>6. CASE Extracted \/ CleanMember
  <2> DEFINE t == [Top EXCEPT !.at = "walk"]
  <2>1. t.file = Top.file /\ Placed(t)
    BY <1>2 DEF Placed, Calls
  <2>2. Continue(t)
    BY <1>6 DEF Extracted, CleanMember
  <2> HIDE DEF t
  <2>3. QED
    BY <1>1, <2>1, <2>2, ChainContinue
<1>7. ASSUME NEW m \in Files, SkipMember(m)
      PROVE  ChainInv'
  <2> DEFINE t == [Top EXCEPT !.out = Top.out \ {m}]
  <2>1. t.file = Top.file /\ Placed(t)
    BY <1>2 DEF Placed, Calls
  <2>2. Continue(t)
    BY <1>7 DEF SkipMember
  <2> HIDE DEF t
  <2>3. QED
    BY <1>1, <2>1, <2>2, ChainContinue
<1>8. ASSUME NEW m \in Files, SubmitMember(m) \/ ReadMemberFails(m)
      PROVE  ChainInv'
  <2> DEFINE t == LookingAt(m)
  <2>1. m \in Top.out
    BY <1>8 DEF SubmitMember, ReadMemberFails, Walking
  <2>2. Listed(Top.file, m)
    BY <1>1, <1>2, <2>1 DEF Placed
  <2>3. t.file = Top.file /\ t.member = m /\ t.out = Top.out \ {m} /\ t.at = "await"
    BY <1>2 DEF Calls, LookingAt
  <2>4. \E b : Enter(m, b, t)
    BY <1>8 DEF SubmitMember, ReadMemberFails
  <2> HIDE DEF t
  <2>5. Placed(t) /\ Inner(t) = m
    BY <1>1, <1>2, <2>2, <2>3 DEF Placed, Inner
  <2>6. QED
    BY <1>1, <2>3, <2>4, <2>5, ChainEnter
<1>9. QED
  BY <1>3, <1>4, <1>5, <1>6, <1>7, <1>8
  DEF Submit_Archive, IdentifyArchiveFails, IdentifyNothing, ExceedLimit, ExtractFails,
      SensitiveMember, CleanArchive, GiveUp

LEMMA ChainStep == FindInv /\ ChainInv /\ [Next]_vars => ChainInv'
<1> SUFFICES ASSUME FindInv, ChainInv, [Next]_vars PROVE ChainInv'
  OBVIOUS
<1>1. CASE Submit_Data /\ \E v : Return(v)
  <2>1. stack # <<>> /\ root' = root
    BY <1>1 DEF Submit_Data, RejectImage, SubmitImage, SubmitText, Submit_PDF, ConvertPDF,
       ConvertPDFFails, NoPages, ReadPageFails, HitMaxPages, AllPages, CleanPage,
       SensitivePage, PageLeft, Submit_Office, ConvertOffice, ConvertOfficeFails,
       OfficeDone, Submit_Archive, IdentifyArchive, IdentifyArchiveFails, IdentifyNothing,
       SkipEntry, ExtractEntry, ExceedLimit, ExtractFails, Extracted, SkipMember,
       SubmitMember, ReadMemberFails, CleanMember, SensitiveMember, CleanArchive,
       Extracting, Walking, Running, GiveUp
  <2>2. QED
    BY <1>1, <2>1, ChainReturn
<1>2. CASE Submit_PDF /\ \A v : ~Return(v)
  <2>1. ConvertPDF \/ \E v : CleanPage(v)
    BY <1>2 DEF Submit_PDF, ConvertPDFFails, NoPages, ReadPageFails, HitMaxPages,
       AllPages, SensitivePage, GiveUp
  <2>2. stack # <<>> /\ Kind[Top.file] = "PDF" /\ root' = root
    BY <2>1 DEF ConvertPDF, CleanPage, PageLeft, Running
  <2>3. Placed(Top) /\ Top \in Calls /\ Top.file \in Files
    BY <2>2, TopPlaced
  <2>4. CASE ConvertPDF
    <3>1. PICK n : /\ n =< Len(Parts[Top.file])
                   /\ Continue([Top EXCEPT !.at = "pages", !.total = n])
      BY <2>4 DEF ConvertPDF, PagesOf
    <3> DEFINE t == [Top EXCEPT !.at = "pages", !.total = n]
    <3>2. t.file = Top.file /\ t.total = n /\ t.at = "pages"
      BY <2>3 DEF Calls
    <3> HIDE DEF t
    <3>3. Placed(t)
      BY <2>2, <3>1, <3>2 DEF Placed
    <3>4. QED
      BY <2>2, <3>1, <3>2, <3>3, ChainContinue DEF t
  <2>5. ASSUME NEW v, CleanPage(v)
        PROVE  ChainInv'
    <3> DEFINE t == [Top EXCEPT !.next = @ + 1,
                                !.first = IF Top.next = 0 THEN v ELSE @]
    <3>1. t.file = Top.file /\ t.total = Top.total /\ t.at = Top.at /\ t.at = "pages"
      BY <2>3, <2>5 DEF Calls, CleanPage, PageLeft, Running
    <3>2. Continue(t)
      BY <2>5 DEF CleanPage
    <3> HIDE DEF t
    <3>3. Placed(t)
      BY <2>2, <2>3, <3>1 DEF Placed
    <3>4. QED
      BY <2>2, <3>1, <3>2, <3>3, ChainContinue
  <2>6. QED
    BY <2>1, <2>4, <2>5
<1>3. CASE Submit_Office /\ \A v : ~Return(v)
  <2>1. ConvertOffice
    BY <1>3 DEF Submit_Office, ConvertOfficeFails, OfficeDone, GiveUp
  <2>2. stack # <<>> /\ Kind[Top.file] = "OFFICE" /\ root' = root
    BY <2>1 DEF ConvertOffice, Running
  <2>3. Placed(Top) /\ Top \in Calls /\ Top.file \in Files
    BY <2>2, TopPlaced
  <2> DEFINE t == [Top EXCEPT !.at = "await"]
  <2>4. t.file = Top.file /\ t.at = "await" /\ Enter(Parts[Top.file][1], Top.blank, t)
    BY <2>1, <2>3 DEF Calls, ConvertOffice
  <2> HIDE DEF t
  <2>5. Placed(t) /\ Inner(t) = Parts[Top.file][1]
    BY <2>2, <2>4 DEF Placed, Inner
  <2>6. QED
    BY <2>2, <2>4, <2>5, ChainEnter
<1>4. CASE Submit_Archive /\ \A v : ~Return(v)
  BY <1>4, ChainArchive
<1>5. CASE \E f \in Submissions : DoWork(f)
  <2>1. PICK f \in Submissions : DoWork(f)
    BY <1>5
  <2>2. Placed(Call(f, FALSE)) /\ Call(f, FALSE).file = f
    BY DEF Placed, Call
  <2>3. /\ Len(stack') = 1 /\ stack'[1] = Call(f, FALSE) /\ root' = f
    BY <2>1 DEF DoWork
  <2>4. \A i \in 1..Len(stack') : i = 1
    BY <2>3
  <2>5. \A i \in 1..Len(stack') : Placed(stack'[i])
    BY <2>2, <2>3, <2>4
  <2>6. \A i : i \notin 1..(Len(stack') - 1)
    BY ONLY <2>3
  <2>7. stack'[Len(stack')].file = root'
    BY ONLY <2>2, <2>3
  <2>8. QED
    BY ONLY <2>5, <2>6, <2>7 DEF ChainInv
<1>6. CASE UNCHANGED vars
  BY <1>6 DEF vars, ChainInv
<1>7. QED
  BY <1>1, <1>2, <1>3, <1>4, <1>5, <1>6
  DEF Next, Submit_Data, RejectImage, SubmitImage, SubmitText

\* Once something is found, the only steps are the returns from waiting calls.
LEMMA OnlyReturns ==
    ASSUME FindInv, found # {}, stack # <<>>, Next
    PROVE  OfficeDone \/ SensitiveMember
<1>1. ret.has_sensitive_data /\ Top.at = "await"
  BY DEF FindInv
<1>2. \A place : (\E kind : Running(kind, place)) => place = "await"
  BY <1>1 DEF Running
<1>3. ~Submit_PDF
  BY <1>2 DEF Submit_PDF, ConvertPDF, ConvertPDFFails, NoPages, ReadPageFails,
              HitMaxPages, AllPages, CleanPage, SensitivePage, PageLeft
<1>4. QED
  BY <1>1, <1>2, <1>3
  DEF Next, Submit_Data, DoWork, RejectImage, SubmitImage, SubmitText,
      Submit_Office, ConvertOffice, ConvertOfficeFails, Submit_Archive,
      IdentifyArchive, IdentifyArchiveFails, IdentifyNothing, SkipEntry,
      ExtractEntry, ExceedLimit, ExtractFails, Extracted, SkipMember,
      SubmitMember, ReadMemberFails, CleanMember, CleanArchive, Extracting,
      Walking

\* The call that got the answer returns it.
LEMMA PointFound ==
    ASSUME FindInv, ChainInv, found = {}, found' # {}, Submit_Data
    PROVE  PointInv'
<1>1. PICK v, f :
          /\ SubmitImage(v) \/ SubmitText(v) \/ SensitivePage(v)
          /\ \E b \in BOOLEAN : Submit_AI(f, b, v)
          /\ SensitivePage(v) => f = Page
  <2>1. (\E v : SubmitImage(v) \/ SubmitText(v) \/ CleanPage(v) \/ SensitivePage(v))
    BY DEF Submit_Data, RejectImage, Submit_PDF, ConvertPDF, ConvertPDFFails, NoPages,
       ReadPageFails, HitMaxPages, AllPages, Submit_Office, ConvertOffice,
       ConvertOfficeFails, OfficeDone, Submit_Archive, IdentifyArchive,
       IdentifyArchiveFails, IdentifyNothing, SkipEntry, ExtractEntry, ExceedLimit,
       ExtractFails, Extracted, SkipMember, SubmitMember, ReadMemberFails, CleanMember,
       SensitiveMember, CleanArchive, GiveUp, past
  <2>2. \A v : ~CleanPage(v)
    BY DEF CleanPage, Submit_AI
  <2>3. PICK v : SubmitImage(v) \/ SubmitText(v) \/ SensitivePage(v)
    BY <2>1, <2>2
  <2>4. stack # <<>> /\ Top.blank \in BOOLEAN
    <3>1. stack # <<>>
      BY <2>3 DEF SubmitImage, SubmitText, SensitivePage, PageLeft, Running
    <3>2. QED
      BY <3>1, TopSound DEF Calls
  <2>5. CASE SensitivePage(v)
    <3>1. Submit_AI(Page, Top.blank, v)
      BY <2>5 DEF SensitivePage
    <3>2. QED
      BY <2>3, <2>4, <3>1
  <2>6. CASE SubmitImage(v) /\ ~SensitivePage(v)
    <3>1. Submit_AI(Top.file, FALSE, v)
      BY <2>6 DEF SubmitImage
    <3>2. QED
      BY <2>3, <2>6, <3>1
  <2>7. CASE SubmitText(v) /\ ~SensitivePage(v)
    <3>1. Submit_AI(Top.file, Top.blank, v)
      BY <2>7 DEF SubmitText
    <3>2. QED
      BY <2>3, <2>4, <2>7, <3>1
  <2>8. QED
    BY <2>3, <2>5, <2>6, <2>7
<1>2. /\ v = Verdict("success", TRUE)
      /\ found' = {stack[i].file : i \in 1..Len(stack)} \cup {f}
  <2>1. PICK b \in BOOLEAN : Submit_AI(f, b, v)
    BY <1>1
  <2>2. /\ v \in {Verdict("success", c) : c \in IF b THEN BOOLEAN ELSE {f \in sensitive}}
        /\ found' = IF v.has_sensitive_data
                      THEN {stack[i].file : i \in 1..Len(stack)} \cup {f} ELSE found
    BY <2>1 DEF Submit_AI
  <2>3. v.has_sensitive_data
    BY <2>2
  <2>4. PICK c \in BOOLEAN : v = Verdict("success", c)
    BY <2>2
  <2>5. c = TRUE
    BY <2>3, <2>4 DEF Verdict
  <2>6. QED
    BY <2>2, <2>3, <2>4, <2>5
<1>3. /\ stack # <<>> /\ root' = root
      /\ \/ Kind[Top.file] \in {"IMAGE", "TEXT"} /\ Return(v)
         \/ /\ Kind[Top.file] = "PDF" /\ f = Page /\ Top.at = "pages"
            /\ Top.next < Top.total /\ Return([v EXCEPT !.page_number = Top.next])
  BY <1>1 DEF SubmitImage, SubmitText, SensitivePage, PageLeft, Running
<1>4. ChainInv' /\ Returned' = Top.file
  BY <1>3, ChainReturn
<1>5. /\ Top = stack[1] /\ Len(stack) \in Nat \ {0} /\ Len(stack') = Len(stack) - 1
      /\ \A i \in 1..Len(stack') : stack'[i] = stack[i + 1]
  BY <1>3, PopStack, StackReturn DEF FindInv, StackOK, Top
<1>6. Top.file \in found'
  BY <1>2, <1>5
<1>7. \A i \in 1..Len(stack') : stack'[i].file \in found'
  <2>1. \A i \in 1..Len(stack') : i + 1 \in 1..Len(stack)
    BY <1>5
  <2>2. QED
    BY <1>2, <1>5, <2>1
<1>8. ret'.file_in_zip = NoPath /\ Kind[Top.file] # "ARCHIVE"
  BY <1>2, <1>3 DEF Return, Verdict
<1>9. PageOK(ret)'
  <2>1. CASE Return(v)
    BY <1>2, <2>1 DEF Return, Verdict, PageOK
  <2>2. CASE ~Return(v)
    <3>1. /\ Kind[Top.file] = "PDF" /\ f = Page /\ Top.at = "pages"
          /\ Top.next < Top.total /\ ret' = [v EXCEPT !.page_number = Top.next]
      BY <1>3, <2>2 DEF Return
    <3>2. ret'.page_number = Top.next
      BY <1>2, <3>1 DEF Verdict
    <3>3. Placed(Top) /\ Top \in Calls /\ Top.file \in Files
      BY <1>3, TopPlaced
    <3>4. /\ Top.total =< Len(Parts[Top.file]) /\ Top.total \in Nat /\ Top.next \in Nat
          /\ Len(Parts[Top.file]) \in Nat
      BY <3>1, <3>3, PartsAssumption DEF Placed, Calls
    <3>5. Top.next < Len(Parts[Top.file]) /\ Parts[Top.file][Top.next + 1] = f
      BY <3>1, <3>4 DEF Page, PagesOf
    <3>6. f \in found'
      BY <1>2
    <3>7. QED
      BY <1>6, <3>1, <3>2, <3>5, <3>6 DEF PageOK
  <2>3. QED
    BY <2>1, <2>2
<1>10. QED
  BY <1>4, <1>6, <1>7, <1>8, <1>9 DEF PointInv

\* A waiting call hands the verdict on; an archive names its member.
LEMMA PointHandedOn ==
    ASSUME FindInv, ChainInv, PointInv, found # {}, OfficeDone \/ SensitiveMember
    PROVE  PointInv'
<1>1. /\ stack # <<>> /\ root' = root /\ found' = found /\ Top.at = "await"
      /\ \E v : Return(v)
  BY DEF OfficeDone, SensitiveMember, Running, past
<1>2. ChainInv' /\ Returned' = Top.file
  BY <1>1, ChainReturn
<1>3. /\ Top = stack[1] /\ Len(stack) \in Nat \ {0} /\ Len(stack') = Len(stack) - 1
      /\ \A i \in 1..Len(stack') : stack'[i] = stack[i + 1]
  BY <1>1, PopStack, StackReturn DEF FindInv, StackOK, Top
<1>4. Top.file \in found'
  BY <1>1, <1>3 DEF PointInv
<1>5. \A i \in 1..Len(stack') : stack'[i].file \in found'
  <2>1. \A i \in 1..Len(stack') : i + 1 \in 1..Len(stack)
    BY <1>3
  <2>2. QED
    BY <1>1, <1>3, <2>1 DEF PointInv
<1>6. Placed(Top) /\ Top \in Calls /\ Top.file \in Files
  BY <1>1, TopPlaced
<1>7. Inner(Top) \in found
  BY <1>1 DEF PointInv, Returned
<1>8. CASE OfficeDone
  <2>1. Kind[Top.file] = "OFFICE" /\ ret' = ret
    BY <1>8 DEF OfficeDone, Running, Return
  <2>2. Kind[Inner(Top)] = "PDF"
    BY <1>6, <2>1, PartsAssumption DEF Inner
  <2>3. ret.file_in_zip = NoPath
    BY <1>1, <2>2 DEF PointInv, Returned
  <2>4. PageOK(ret)'
    BY <1>1, <2>1 DEF PointInv, PageOK
  <2>5. QED
    BY <1>2, <1>4, <1>5, <2>1, <2>3, <2>4 DEF PointInv
<1>9. CASE SensitiveMember
  <2>1. /\ Kind[Top.file] = "ARCHIVE" /\ ret \in Verdicts
        /\ ret' = [ret EXCEPT !.file_in_zip = Path[Top.member]]
    BY <1>9 DEF SensitiveMember, Running, Return, FindInv
  <2>2. ret'.file_in_zip = Path[Top.member] /\ ret'.page_number = ret.page_number
    BY <2>1 DEF Verdicts
  <2>3. Listed(Top.file, Top.member) /\ Top.member \in found
    BY <1>1, <1>6, <1>7, <2>1 DEF Placed, Inner
  <2>4. /\ ret'.file_in_zip # NoPath
        /\ \E i \in 1..Len(Parts[Top.file]) :
              /\ Parts[Top.file][i] \in found'
              /\ Path[Parts[Top.file][i]] = ret'.file_in_zip
    BY <1>1, <2>2, <2>3 DEF Listed
  <2>5. PageOK(ret)'
    BY <1>1, <2>2 DEF PointInv, PageOK
  <2>6. QED
    BY <1>2, <1>4, <1>5, <2>1, <2>4, <2>5 DEF PointInv
<1>10. QED
  BY <1>8, <1>9

LEMMA PointStep == FindInv /\ ChainInv /\ PointInv /\ [Next]_vars => PointInv'
<1> SUFFICES ASSUME FindInv, ChainInv, PointInv, [Next]_vars PROVE PointInv'
  OBVIOUS
<1>1. CASE UNCHANGED vars
  BY <1>1 DEF vars, past, PointInv, PageOK, Returned, Top
<1>2. CASE found' = {}
  BY <1>2 DEF PointInv
<1>3. CASE Submit_Data /\ found # {}
  <2>1. stack # <<>>
    BY <1>3 DEF Submit_Data, RejectImage, SubmitImage, SubmitText, Submit_PDF, ConvertPDF,
       ConvertPDFFails, NoPages, ReadPageFails, HitMaxPages, AllPages, CleanPage,
       SensitivePage, PageLeft, Submit_Office, ConvertOffice, ConvertOfficeFails,
       OfficeDone, Submit_Archive, IdentifyArchive, IdentifyArchiveFails, IdentifyNothing,
       SkipEntry, ExtractEntry, ExceedLimit, ExtractFails, Extracted, SkipMember,
       SubmitMember, ReadMemberFails, CleanMember, SensitiveMember, CleanArchive,
       Extracting, Walking, Running, GiveUp
  <2>2. QED
    BY <1>3, <2>1, OnlyReturns, PointHandedOn DEF Next
<1>4. CASE Submit_Data /\ found = {} /\ found' # {}
  BY <1>4, PointFound
<1>5. CASE \E f \in Submissions : DoWork(f)
  BY <1>2, <1>5 DEF DoWork
<1>6. QED
  BY <1>1, <1>2, <1>3, <1>4, <1>5 DEF Next

-----------------------------------------------------------------------------
(* What is not excused has been looked at                                  *)

\* A file has itself and what its parts have in it, and nothing else.
LEMMA InsideUnfolds ==
    \A f \in Files :
        Inside[f] = {f} \cup UNION {Inside[Parts[f][i]] : i \in 1..Len(Parts[f])}
<1> DEFINE Closed(S) == \A f \in S : \A i \in 1..Len(Parts[f]) : Parts[f][i] \in S
           G == [f \in Files |->
                   {x \in Files : \A S \in SUBSET Files : f \in S /\ Closed(S) => x \in S}]
<1>1. Inside = G
  BY DEF Inside, ClosedSets
<1>2. ASSUME NEW f \in Files, NEW i \in 1..Len(Parts[f])
      PROVE  Parts[f][i] \in Files
  BY PartsAssumption
<1>3. ASSUME NEW f \in Files
      PROVE  G[f] = {f} \cup UNION {G[Parts[f][i]] : i \in 1..Len(Parts[f])}
  <2> DEFINE U == {f} \cup UNION {G[Parts[f][i]] : i \in 1..Len(Parts[f])}
  <2>1. U \in SUBSET Files
    BY <1>2
  <2>2. Closed(U)
    <3> SUFFICES ASSUME NEW y \in U, NEW j \in 1..Len(Parts[y])
                 PROVE  Parts[y][j] \in U
      OBVIOUS
    <3>1. y \in Files /\ Parts[y][j] \in Files
      BY <1>2, <2>1
    <3>2. CASE y = f
      <4>1. Parts[f][j] \in G[Parts[f][j]]
        BY <3>1, <3>2
      <4>2. QED
        BY <3>2, <4>1
    <3>3. ASSUME NEW i \in 1..Len(Parts[f]), y \in G[Parts[f][i]]
          PROVE  Parts[y][j] \in G[Parts[f][i]]
      <4>1. Parts[f][i] \in Files
        BY <1>2
      <4>2. ASSUME NEW S \in SUBSET Files, Parts[f][i] \in S, Closed(S)
            PROVE  Parts[y][j] \in S
        <5>1. y \in S
          BY <3>3, <4>1, <4>2
        <5>2. QED
          BY <4>2, <5>1
      <4>3. QED
        BY <3>1, <4>1, <4>2
    <3>4. CASE y # f
      <4>1. PICK i \in 1..Len(Parts[f]) : y \in G[Parts[f][i]]
        BY <3>4
      <4>2. Parts[y][j] \in G[Parts[f][i]]
        BY <3>3, <4>1
      <4> HIDE DEF G
      <4>3. QED
        BY <4>2
    <3>5. QED
      BY <3>2, <3>4
  <2>3. G[f] \subseteq U
    <3> SUFFICES ASSUME NEW x \in G[f] PROVE x \in U
      OBVIOUS
    <3>1. \A S \in SUBSET Files : f \in S /\ Closed(S) => x \in S
      OBVIOUS
    <3>2. f \in U
      OBVIOUS
    <3> HIDE DEF U, Closed, G
    <3>3. QED
      BY <2>1, <2>2, <3>1, <3>2
  <2>4. U \subseteq G[f]
    <3>1. f \in G[f]
      OBVIOUS
    <3>2. ASSUME NEW i \in 1..Len(Parts[f]), NEW x \in G[Parts[f][i]]
          PROVE  x \in G[f]
      <4>1. Parts[f][i] \in Files /\ x \in Files
        BY <1>2
      <4>2. ASSUME NEW S \in SUBSET Files, f \in S, Closed(S)
            PROVE  x \in S
        BY <4>1, <4>2
      <4>3. QED
        BY <4>1, <4>2
    <3> HIDE DEF G
    <3>3. \A i \in 1..Len(Parts[f]) : G[Parts[f][i]] \subseteq G[f]
      BY <3>2
    <3>4. QED
      BY <3>1, <3>3
  <2>5. QED
    BY <2>3, <2>4
<1> HIDE DEF G
<1>4. QED
  BY <1>1, <1>3

\* What is in a part of a file is in the file; an image, a text or a page is all
\* there is in it.
LEMMA PartsInside ==
    /\ \A f \in Files : f \in Inside[f]
    /\ \A f \in Files : \A i \in 1..Len(Parts[f]) :
           Parts[f][i] \in Files /\ Inside[Parts[f][i]] \subseteq Inside[f]
    /\ \A f \in Files : \A x \in Inside[f] :
           x = f \/ \E i \in 1..Len(Parts[f]) : x \in Inside[Parts[f][i]]
    /\ \A f \in Leaves : Inside[f] = {f}
<1>1. \A f \in Files : \A i \in 1..Len(Parts[f]) : Parts[f][i] \in Files
  BY PartsAssumption
<1>2. \A f \in Files : f \in Inside[f]
  BY InsideUnfolds
<1>3. \A f \in Files : \A i \in 1..Len(Parts[f]) :
          Inside[Parts[f][i]] \subseteq Inside[f]
  <2> SUFFICES ASSUME NEW f \in Files, NEW i \in 1..Len(Parts[f])
               PROVE  Inside[Parts[f][i]] \subseteq Inside[f]
    OBVIOUS
  <2>1. Inside[Parts[f][i]] \in {Inside[Parts[f][j]] : j \in 1..Len(Parts[f])}
    OBVIOUS
  <2>2. QED
    BY <2>1, InsideUnfolds
<1>4. \A f \in Files : \A x \in Inside[f] :
          x = f \/ \E i \in 1..Len(Parts[f]) : x \in Inside[Parts[f][i]]
  BY InsideUnfolds
<1>5. \A f \in Leaves : Inside[f] = {f}
  <2> SUFFICES ASSUME NEW f \in Leaves PROVE Inside[f] = {f}
    OBVIOUS
  <2>1. f \in Files /\ Len(Parts[f]) = 0
    BY PartsAssumption DEF Leaves
  <2>2. \A i : i \notin 1..Len(Parts[f])
    BY <2>1
  <2>3. QED
    BY <1>2, <1>4, <2>1, <2>2
<1>6. QED
  BY <1>1, <1>2, <1>3, <1>4, <1>5

\* In one of some files, however deep.
In(f, S) == \E e \in S : f \in Inside[e]

\* The files that a call under way has still to look at: the one it is on, or the
\* entries and pages that are left and the extracted files of an archive.
Remaining(t) ==
    {i \in 1..Len(Parts[t.file]) :
        t.next < i /\ (t.at = "extract" \/ (t.at = "pages" /\ i =< t.total))}
ToSee(t) ==
    IF t.at = "begin" THEN {t.file}
    ELSE {Parts[t.file][i] : i \in Remaining(t)}
         \cup {m \in t.out : Kind[t.file] = "ARCHIVE"}

\* A call without data is on a part of a file that is excused, and so is every
\* page after the last one allowed.
PassedOver(t, S) ==
    /\ t.blank => \E e \in S : Inside[t.file] \subseteq Inside[e]
    /\ t.at = "pages" => \A i \in Max_PDF_Pages+1..Len(Parts[t.file]) :
                             Parts[t.file][i] \in S

\* While nothing is found, each part with sensitive data is in an excused file or in
\* one that some call under way has still to look at.
AccountInv ==
    /\ sensitive \subseteq Leaves
    /\ \A i \in 1..Len(stack) : PassedOver(stack[i], excused)
    /\ found = {} => \A f \in sensitive :
           In(f, excused) \/ \E i \in 1..Len(stack) : In(f, ToSee(stack[i]))

\* The sensitive parts of the files of S are in files of T.
Accounts(S, T) == \A f \in sensitive : In(f, S) => In(f, T)

LEMMA TopAccount ==
    ASSUME FindInv, ChainInv, AccountInv, stack # <<>>
    PROVE  /\ Top \in Calls /\ Top.file \in Files /\ Sound(Top) /\ Placed(Top)
           /\ PassedOver(Top, excused)
           /\ Accounts(ToSee(Top), {Top.file})
           /\ Top.blank => Accounts(ToSee(Top), excused)
<1>1. Head(stack) = stack[1] /\ Len(stack) \in Nat \ {0}
  BY PopStack DEF FindInv, StackOK
<1>2. /\ Top \in Calls /\ Top.file \in Files /\ Sound(Top) /\ Placed(Top)
      /\ PassedOver(Top, excused)
  BY <1>1, TopSound, TopPlaced DEF AccountInv, Top
<1>3. \A g \in ToSee(Top) : Inside[g] \subseteq Inside[Top.file]
  <2> SUFFICES ASSUME NEW g \in ToSee(Top)
               PROVE  Inside[g] \subseteq Inside[Top.file]
    OBVIOUS
  <2>1. g = Top.file \/ \E i \in 1..Len(Parts[Top.file]) : g = Parts[Top.file][i]
    BY <1>2 DEF ToSee, Remaining, Placed, Listed
  <2>2. QED
    BY <1>2, <2>1, PartsInside
<1>4. Accounts(ToSee(Top), {Top.file})
  BY <1>3 DEF Accounts, In
<1>5. Top.blank => Accounts(ToSee(Top), excused)
  BY <1>2, <1>3 DEF Accounts, In, PassedOver
<1>6. QED
  BY <1>2, <1>4, <1>5

LEMMA AccountReturn ==
    ASSUME FindInv, AccountInv, stack # <<>>, sensitive' = sensitive,
           excused \subseteq excused', NEW v, Return(v),
           found' = {} => found = {} /\ Accounts(ToSee(Top), excused')
    PROVE  AccountInv'
<1>1. /\ Top = stack[1] /\ Len(stack) \in Nat \ {0}
      /\ Len(stack') = Len(stack) - 1
      /\ \A i \in 1..Len(stack') : stack'[i] = stack[i + 1]
  BY PopStack DEF FindInv, StackOK, Top, Return
<1>2. \A i \in 1..Len(stack') : i + 1 \in 1..Len(stack)
  BY <1>1
<1>3. \A i \in 1..Len(stack') : PassedOver(stack'[i], excused')
  <2> SUFFICES ASSUME NEW i \in 1..Len(stack')
               PROVE  PassedOver(stack'[i], excused')
    OBVIOUS
  <2>1. PassedOver(stack'[i], excused)
    BY <1>1, <1>2 DEF AccountInv
  <2>2. QED
    BY <2>1 DEF PassedOver
<1>4. ASSUME found' = {}, NEW f \in sensitive
      PROVE  In(f, excused') \/ \E i \in 1..Len(stack') : In(f, ToSee(stack'[i]))
  <2>1. CASE In(f, excused)
    BY <2>1 DEF In
  <2>2. ASSUME NEW i \in 1..Len(stack), In(f, ToSee(stack[i]))
        PROVE  In(f, excused') \/ \E j \in 1..Len(stack') : In(f, ToSee(stack'[j]))
    <3>1. CASE i = 1
      BY <1>1, <1>4, <2>2, <3>1 DEF Accounts
    <3>2. CASE i # 1
      <4>1. i - 1 \in 1..Len(stack') /\ (i - 1) + 1 = i
        BY <1>1, <3>2
      <4>2. stack'[i - 1] = stack[i]
        BY <1>1, <4>1
      <4>3. QED
        BY <2>2, <4>1, <4>2
    <3>3. QED
      BY <3>1, <3>2
  <2>3. QED
    BY <1>4, <2>1, <2>2 DEF AccountInv
<1>5. QED
  BY <1>3, <1>4 DEF AccountInv

LEMMA AccountContinue ==
    ASSUME FindInv, AccountInv, stack # <<>>, sensitive' = sensitive,
           excused \subseteq excused', NEW t, Continue(t), PassedOver(t, excused'),
           found' = {} => found = {} /\ Accounts(ToSee(Top), excused' \cup ToSee(t))
    PROVE  AccountInv'
<1>1. stack \in Seq(Calls \cup {t}) /\ Top = stack[1] /\ Len(stack) \in Nat \ {0}
  BY PopStack DEF FindInv, StackOK, Top
<1>2. /\ Len(stack') = Len(stack) /\ stack'[1] = t
      /\ \A i \in 2..Len(stack') : stack'[i] = stack[i]
  BY <1>1, Continued
<1>3. \A i \in 1..Len(stack) : i = 1 \/ i \in 2..Len(stack')
  BY <1>1, <1>2
<1>4. \A i \in 1..Len(stack') : PassedOver(stack'[i], excused')
  <2> SUFFICES ASSUME NEW i \in 2..Len(stack')
               PROVE  PassedOver(stack'[i], excused')
    BY <1>2, <1>3
  <2>1. PassedOver(stack'[i], excused)
    BY <1>1, <1>2 DEF AccountInv
  <2>2. QED
    BY <2>1 DEF PassedOver
<1>5. ASSUME found' = {}, NEW f \in sensitive
      PROVE  In(f, excused') \/ \E i \in 1..Len(stack') : In(f, ToSee(stack'[i]))
  <2>1. CASE In(f, excused)
    BY <2>1 DEF In
  <2>2. ASSUME NEW i \in 1..Len(stack), In(f, ToSee(stack[i]))
        PROVE  In(f, excused') \/ \E j \in 1..Len(stack') : In(f, ToSee(stack'[j]))
    <3>1. CASE i = 1
      <4>1. In(f, excused' \cup ToSee(t))
        BY <1>1, <1>5, <2>2, <3>1 DEF Accounts
      <4>2. In(f, excused') \/ In(f, ToSee(stack'[1]))
        BY <1>2, <4>1 DEF In
      <4>3. QED
        BY <1>1, <1>2, <4>2
    <3>2. CASE i # 1
      BY <1>2, <1>3, <2>2, <3>2
    <3>3. QED
      BY <3>1, <3>2
  <2>3. QED
    BY <1>5, <2>1, <2>2 DEF AccountInv
<1>6. QED
  BY <1>4, <1>5 DEF AccountInv

LEMMA AccountEnter ==
    ASSUME FindInv, AccountInv, stack # <<>>, sensitive' = sensitive,
           excused \subseteq excused', NEW m, NEW b, NEW t, Enter(m, b, t),
           b => \E e \in excused' : Inside[m] \subseteq Inside[e],
           PassedOver(t, excused'),
           found' = {} => /\ found = {}
                          /\ Accounts(ToSee(Top), excused' \cup ToSee(t) \cup {m})
    PROVE  AccountInv'
<1>1. stack \in Seq(Calls \cup {t, Call(m, b)}) /\ Top = stack[1]
  BY PopStack DEF FindInv, StackOK, Top
<1>2. /\ Len(stack') = Len(stack) + 1 /\ Len(stack) \in Nat \ {0}
      /\ stack'[1] = Call(m, b) /\ stack'[2] = t
      /\ \A i \in 3..Len(stack') : stack'[i] = stack[i - 1]
  BY <1>1, Entered
<1>3. \A i \in 1..Len(stack') :
          i = 1 \/ i = 2 \/ (i \in 3..Len(stack') /\ i - 1 \in 1..Len(stack))
  BY <1>2
<1>4. PassedOver(Call(m, b), excused') /\ ToSee(Call(m, b)) = {m}
  BY DEF PassedOver, ToSee, Call
<1>5. \A i \in 1..Len(stack') : PassedOver(stack'[i], excused')
  <2> SUFFICES ASSUME NEW i \in 3..Len(stack'), i - 1 \in 1..Len(stack)
               PROVE  PassedOver(stack'[i], excused')
    BY <1>2, <1>3, <1>4
  <2>1. PassedOver(stack'[i], excused)
    BY <1>2 DEF AccountInv
  <2>2. QED
    BY <2>1 DEF PassedOver
<1>6. ASSUME found' = {}, NEW f \in sensitive
      PROVE  In(f, excused') \/ \E i \in 1..Len(stack') : In(f, ToSee(stack'[i]))
  <2>1. CASE In(f, excused)
    BY <2>1 DEF In
  <2>2. ASSUME NEW i \in 1..Len(stack), In(f, ToSee(stack[i]))
        PROVE  In(f, excused') \/ \E j \in 1..Len(stack') : In(f, ToSee(stack'[j]))
    <3>1. CASE i = 1
      <4>1. In(f, excused' \cup ToSee(t) \cup {m})
        BY <1>1, <1>6, <2>2, <3>1 DEF Accounts
      <4>2. In(f, excused') \/ In(f, ToSee(stack'[1])) \/ In(f, ToSee(stack'[2]))
        BY <1>2, <1>4, <4>1 DEF In
      <4>3. 1 \in 1..Len(stack') /\ 2 \in 1..Len(stack')
        BY <1>2
      <4>4. QED
        BY <4>2, <4>3
    <3>2. CASE i # 1
      <4>1. i + 1 \in 3..Len(stack') /\ (i + 1) - 1 = i /\ i + 1 \in 1..Len(stack')
        BY <1>2, <3>2
      <4>2. stack'[i + 1] = stack[i]
        BY <1>2, <4>1
      <4>3. QED
        BY <2>2, <4>1, <4>2
    <3>3. QED
      BY <3>1, <3>2
  <2>3. QED
    BY <1>6, <2>1, <2>2 DEF AccountInv
<1>7. QED
  BY <1>5, <1>6 DEF AccountInv

\* A call that gives up, or has no data, excuses what is left to see.
LEMMA AccountGivenUp ==
    ASSUME FindInv, ChainInv, AccountInv, stack # <<>>, found' = found,
           sensitive' = sensitive, excused \subseteq excused', NEW v, Return(v),
           Top.blank \/ Top.file \in excused'
    PROVE  AccountInv'
<1>1. Accounts(ToSee(Top), excused')
  BY TopAccount DEF Accounts, In
<1>2. found' = {} => found = {} /\ Accounts(ToSee(Top), excused')
  BY <1>1
<1>3. QED
  BY <1>2, AccountReturn

\* A request on a leaf that is not answered with a finding: it failed, there was no
\* data, or the leaf is not sensitive.
LEMMA AccountAnswer ==
    ASSUME NEW f \in Leaves, NEW b \in BOOLEAN, NEW v, Submit_AI(f, b, v),
           found' = {}, AccountInv, b => In(f, excused)
    PROVE  Accounts({f}, excused') /\ excused \subseteq excused' /\ found = {}
<1>1. Inside[f] = {f}
  BY PartsInside
<1>2. CASE v = Failed /\ Excuse({f}) /\ UNCHANGED found
  BY <1>2 DEF Accounts, In, Excuse
<1>3. CASE /\ v \in {Verdict("success", c) : c \in
                        IF b THEN BOOLEAN ELSE {f \in sensitive}}
           /\ found' = IF v.has_sensitive_data
                         THEN {stack[i].file : i \in 1..Len(stack)} \cup {f} ELSE found
           /\ UNCHANGED excused
  <2>1. ~v.has_sensitive_data /\ found = {}
    BY <1>3
  <2>2. b \/ f \notin sensitive
    BY <1>3, <2>1 DEF Verdict
  <2>3. Accounts({f}, excused')
    BY <1>1, <1>3, <2>2 DEF Accounts, In
  <2>4. QED
    BY <1>3, <2>1, <2>3
<1>4. QED
  BY <1>2, <1>3 DEF Submit_AI

LEMMA AnswerGrows ==
    ASSUME NEW f, NEW b, NEW v, Submit_AI(f, b, v)
    PROVE  excused \subseteq excused'
  BY DEF Submit_AI, Excuse

\* Images and texts: passed over, or one request.
LEMMA AccountLeaf ==
    ASSUME FindInv, ChainInv, AccountInv, NEW v,
           RejectImage \/ SubmitImage(v) \/ SubmitText(v)
    PROVE  AccountInv'
<1>1. stack # <<>> /\ Kind[Top.file] \in {"IMAGE", "TEXT"} /\ Top.at = "begin"
  BY DEF RejectImage, SubmitImage, SubmitText, Running
<1>2. /\ Top \in Calls /\ Top.file \in Files /\ Top.blank \in BOOLEAN
      /\ PassedOver(Top, excused) /\ Top.file \in Leaves
  BY <1>1, TopAccount DEF Calls, Leaves
<1>3. ToSee(Top) = {Top.file}
  BY <1>1 DEF ToSee
<1>4. CASE RejectImage
  BY <1>1, <1>4, AccountGivenUp DEF RejectImage, Excuse
<1>5. CASE SubmitImage(v) \/ SubmitText(v)
  <2>1. PICK b \in BOOLEAN : Submit_AI(Top.file, b, v) /\ (b => Top.blank)
    BY <1>2, <1>5 DEF SubmitImage, SubmitText
  <2>2. Return(v) /\ sensitive' = sensitive
    BY <1>5 DEF SubmitImage, SubmitText
  <2>3. b => In(Top.file, excused)
    BY <1>2, <2>1, PartsInside DEF PassedOver, In
  <2>4. excused \subseteq excused'
    BY <2>1, AnswerGrows
  <2>5. found' = {} => found = {} /\ Accounts(ToSee(Top), excused')
    BY <1>2, <1>3, <2>1, <2>3, AccountAnswer
  <2>6. QED
    BY <1>1, <2>2, <2>4, <2>5, AccountReturn
<1>6. QED
  BY <1>4, <1>5

\* Pages: all that a PDF has were made, or those after the last one are excused.
LEMMA AccountConvert ==
    ASSUME FindInv, ChainInv, AccountInv, ConvertPDF
    PROVE  AccountInv'
<1>1. /\ stack # <<>> /\ Kind[Top.file] = "PDF" /\ Top.at = "begin"
      /\ sensitive' = sensitive /\ found' = found
      /\ excused' = excused \cup {Parts[Top.file][i] :
                                     i \in Max_PDF_Pages+1..Len(Parts[Top.file])}
  BY DEF ConvertPDF, Running, Excuse, PagesOf
<1>2. /\ Top \in Calls /\ Top.file \in Files /\ Top.next = 0
      /\ PassedOver(Top, excused)
  BY <1>1, TopAccount DEF Sound
<1>3. PICK n \in {Max_PDF_Pages, Len(Parts[Top.file])} :
          Continue([Top EXCEPT !.at = "pages", !.total = n])
  BY DEF ConvertPDF, PagesOf
<1> DEFINE t == [Top EXCEPT !.at = "pages", !.total = n]
<1>4. /\ t.file = Top.file /\ t.at = "pages" /\ t.total = n /\ t.next = 0
      /\ t.blank = Top.blank
  BY <1>2 DEF Calls
<1>5. Continue(t)
  BY <1>3
<1> HIDE DEF t
<1>6. PassedOver(t, excused')
  BY <1>1, <1>2, <1>4 DEF PassedOver
<1>7. ASSUME NEW f \in sensitive, In(f, ToSee(Top))
      PROVE  In(f, excused' \cup ToSee(t))
  <2>1. f \in Inside[Top.file]
    BY <1>1, <1>7 DEF ToSee, In
  <2>2. f # Top.file
    BY <1>1 DEF AccountInv, Leaves
  <2>3. PICK i \in 1..Len(Parts[Top.file]) : f \in Inside[Parts[Top.file][i]]
    BY <1>2, <2>1, <2>2, PartsInside
  <2>4. CASE i =< n
    <3>1. i \in Remaining(t)
      BY <1>4, <2>4 DEF Remaining
    <3>2. Parts[Top.file][i] \in ToSee(t)
      BY <1>4, <3>1 DEF ToSee
    <3>3. QED
      BY <2>3, <3>2 DEF In
  <2>5. CASE ~(i =< n)
    <3>1. Len(Parts[Top.file]) \in Nat /\ Max_PDF_Pages \in Nat
      BY <1>2, PartsAssumption, LimitsAssumption
    <3>2. i \in Max_PDF_Pages+1..Len(Parts[Top.file])
      BY <2>5, <3>1
    <3>3. Parts[Top.file][i] \in excused'
      BY <1>1, <3>2
    <3>4. QED
      BY <2>3, <3>3 DEF In
  <2>6. QED
    BY <2>4, <2>5
<1>8. found' = {} => found = {} /\ Accounts(ToSee(Top), excused' \cup ToSee(t))
  BY <1>1, <1>7 DEF Accounts
<1>9. QED
  BY <1>1, <1>5, <1>6, <1>8, AccountContinue

\* A page without a finding: failed, excused with the file, or not sensitive.
LEMMA AccountCleanPage ==
    ASSUME FindInv, ChainInv, AccountInv, NEW v, CleanPage(v)
    PROVE  AccountInv'
<1>1. /\ stack # <<>> /\ Kind[Top.file] = "PDF" /\ Top.at = "pages"
      /\ Top.next < Top.total /\ sensitive' = sensitive
      /\ Submit_AI(Page, Top.blank, v)
  BY DEF CleanPage, PageLeft, Running
<1>2. /\ Top \in Calls /\ Top.file \in Files /\ Top.blank \in BOOLEAN
      /\ PassedOver(Top, excused) /\ Placed(Top)
      /\ Top.next \in Nat /\ Top.total \in Nat
  BY <1>1, TopAccount DEF Calls
<1>3. Len(Parts[Top.file]) \in Nat /\ Top.next + 1 \in 1..Len(Parts[Top.file])
  <2>1. Top.total =< Len(Parts[Top.file]) /\ Len(Parts[Top.file]) \in Nat
    BY <1>1, <1>2, PartsAssumption DEF Placed
  <2>2. QED
    BY <1>1, <1>2, <2>1
<1>4. Page = Parts[Top.file][Top.next + 1]
  BY DEF Page, PagesOf
<1>5. Page \in Leaves
  <2>1. Page \in Files /\ Kind[Page] = "PAGE"
    BY <1>1, <1>2, <1>3, <1>4, PartsAssumption
  <2>2. QED
    BY <2>1 DEF Leaves
<1>6. Top.blank => In(Page, excused)
  <2>1. Page \in Inside[Top.file]
    BY <1>2, <1>3, <1>4, <1>5, PartsInside DEF Leaves
  <2>2. QED
    BY <1>2, <2>1 DEF PassedOver, In
<1>7. excused \subseteq excused'
  BY <1>1, AnswerGrows
<1> DEFINE t == [Top EXCEPT !.next = @ + 1,
                            !.first = IF Top.next = 0 THEN v ELSE @]
<1>8. /\ t.file = Top.file /\ t.at = "pages" /\ t.total = Top.total
      /\ t.next = Top.next + 1 /\ t.blank = Top.blank
  BY <1>1, <1>2 DEF Calls
<1>9. Continue(t)
  BY DEF CleanPage
<1> HIDE DEF t
<1>10. PassedOver(t, excused')
  BY <1>1, <1>2, <1>7, <1>8 DEF PassedOver
<1>11. ASSUME found' = {}
       PROVE  found = {} /\ Accounts(ToSee(Top), excused' \cup ToSee(t))
  <2>1. Accounts({Page}, excused') /\ found = {}
    BY <1>1, <1>2, <1>5, <1>6, <1>11, AccountAnswer
  <2>2. \A g \in ToSee(Top) : g = Page \/ g \in ToSee(t)
    <3> SUFFICES ASSUME NEW g \in ToSee(Top), g # Page PROVE g \in ToSee(t)
      OBVIOUS
    <3>1. PICK i \in 1..Len(Parts[Top.file]) :
              /\ Top.next < i /\ i =< Top.total /\ g = Parts[Top.file][i]
      BY <1>1 DEF ToSee, Remaining
    <3>2. i # Top.next + 1
      BY <1>4, <3>1
    <3>3. Top.next + 1 < i
      BY <1>2, <3>1, <3>2
    <3>4. i \in Remaining(t)
      BY <1>8, <3>1, <3>3 DEF Remaining
    <3>5. QED
      BY <1>8, <3>1, <3>4 DEF ToSee
  <2>3. QED
    BY <2>1, <2>2 DEF Accounts, In
<1>12. QED
  BY <1>1, <1>7, <1>9, <1>10, <1>11, AccountContinue

LEMMA AccountPDF ==
    ASSUME FindInv, ChainInv, AccountInv, Submit_PDF
    PROVE  AccountInv'
<1>1. CASE ConvertPDF
  BY <1>1, AccountConvert
<1>2. CASE \E v : CleanPage(v)
  BY <1>2, AccountCleanPage
<1>3. CASE ConvertPDFFails \/ ReadPageFails
  BY <1>3, AccountGivenUp
  DEF ConvertPDFFails, ReadPageFails, PageLeft, Running, GiveUp, Excuse
<1>4. CASE NoPages
  <2>1. /\ stack # <<>> /\ Kind[Top.file] = "PDF" /\ Top.at = "begin"
        /\ sensitive' = sensitive /\ found' = found /\ excused' = excused
        /\ Top.blank \/ Parts[Top.file] = <<>>
        /\ Return(Failed)
    BY <1>4 DEF NoPages, Running, past, PagesOf
  <2>2. CASE Top.blank
    BY <2>1, <2>2, AccountGivenUp
  <2>3. CASE Parts[Top.file] = <<>>
    <3>1. Top.file \in Files
      BY <2>1, TopAccount
    <3>2. \A i : i \notin 1..Len(Parts[Top.file])
      BY <2>3
    <3>3. \A f \in Inside[Top.file] : f \notin sensitive
      BY <2>1, <3>1, <3>2, PartsInside DEF AccountInv, Leaves
    <3>4. Accounts(ToSee(Top), excused')
      BY <2>1, <3>3 DEF Accounts, In, ToSee
    <3>5. QED
      BY <2>1, <3>4, AccountReturn
  <2>4. QED
    BY <2>1, <2>2, <2>3
<1>5. CASE HitMaxPages \/ AllPages
  <2>1. /\ stack # <<>> /\ Kind[Top.file] = "PDF" /\ Top.at = "pages"
        /\ sensitive' = sensitive /\ found' = found /\ excused' = excused
        /\ Top.next >= Max_PDF_Pages \/ Top.next = Top.total
        /\ \E v : Return(v)
    BY <1>5 DEF HitMaxPages, AllPages, PageLeft, LastPage, Running, past
  <2>2. /\ PassedOver(Top, excused) /\ Top.next \in Nat /\ Top.total \in Nat
        /\ Top.file \in Files /\ Max_PDF_Pages \in Nat
    BY <2>1, TopAccount, LimitsAssumption DEF Calls
  <2>3. Len(Parts[Top.file]) \in Nat
    BY <2>2, PartsAssumption
  <2>4. ASSUME NEW g \in ToSee(Top)
        PROVE  g \in excused
    <3>1. PICK i \in 1..Len(Parts[Top.file]) :
              /\ Top.next < i /\ i =< Top.total /\ g = Parts[Top.file][i]
      BY <2>1 DEF ToSee, Remaining
    <3>2. i \in Max_PDF_Pages+1..Len(Parts[Top.file])
      BY <2>1, <2>2, <2>3, <3>1
    <3>3. QED
      BY <2>1, <2>2, <3>1, <3>2 DEF PassedOver
  <2>5. Accounts(ToSee(Top), excused')
    BY <2>1, <2>4 DEF Accounts, In
  <2>6. QED
    BY <2>1, <2>5, AccountReturn
<1>6. CASE \E v : SensitivePage(v)
  <2>1. PICK v : SensitivePage(v)
    BY <1>6
  <2>2. /\ stack # <<>> /\ sensitive' = sensitive /\ v.has_sensitive_data
        /\ Submit_AI(Page, Top.blank, v) /\ \E w : Return(w)
    BY <2>1 DEF SensitivePage, PageLeft, Running
  <2>3. found' # {}
    BY <2>2, VerdictsOfCode DEF Submit_AI
  <2>4. QED
    BY <2>2, <2>3, AnswerGrows, AccountReturn
<1>7. QED
  BY <1>1, <1>2, <1>3, <1>4, <1>5, <1>6 DEF Submit_PDF

LEMMA AccountOffice ==
    ASSUME FindInv, ChainInv, AccountInv, Submit_Office
    PROVE  AccountInv'
<1>1. CASE ConvertOffice
  <2>1. /\ stack # <<>> /\ Kind[Top.file] = "OFFICE" /\ Top.at = "begin"
        /\ sensitive' = sensitive /\ found' = found /\ excused' = excused
    BY <1>1 DEF ConvertOffice, Running, past
  <2>2. Top \in Calls /\ Top.file \in Files /\ PassedOver(Top, excused)
    BY <2>1, TopAccount
  <2> DEFINE t == [Top EXCEPT !.at = "await"]
             m == Parts[Top.file][1]
  <2>3. t.file = Top.file /\ t.at = "await" /\ t.blank = Top.blank
    BY <2>2 DEF Calls
  <2>4. Enter(m, Top.blank, t)
    BY <1>1 DEF ConvertOffice
  <2> HIDE DEF t
  <2>5. PassedOver(t, excused')
    BY <2>1, <2>2, <2>3 DEF PassedOver
  <2>6. Len(Parts[Top.file]) = 1
    BY <2>1, <2>2, PartsAssumption
  <2>7. Inside[m] \subseteq Inside[Top.file]
    BY <2>2, <2>6, PartsInside
  <2>8. \A f \in sensitive : f \in Inside[Top.file] => f \in Inside[m]
    <3> SUFFICES ASSUME NEW f \in sensitive, f \in Inside[Top.file]
                 PROVE  f \in Inside[m]
      OBVIOUS
    <3>1. f # Top.file
      BY <2>1 DEF AccountInv, Leaves
    <3>2. PICK i \in 1..Len(Parts[Top.file]) : f \in Inside[Parts[Top.file][i]]
      BY <2>2, <3>1, PartsInside
    <3>3. i = 1
      BY <2>6
    <3>4. QED
      BY <3>2, <3>3
  <2> HIDE DEF m
  <2>9. Top.blank => \E e \in excused' : Inside[m] \subseteq Inside[e]
    BY <2>1, <2>2, <2>7 DEF PassedOver
  <2>10. Accounts(ToSee(Top), excused' \cup ToSee(t) \cup {m})
    BY <2>1, <2>8 DEF Accounts, In, ToSee
  <2>11. QED
    BY <2>1, <2>4, <2>5, <2>9, <2>10, AccountEnter
<1>2. CASE ConvertOfficeFails
  BY <1>2, AccountGivenUp DEF ConvertOfficeFails, Running, GiveUp, Excuse
<1>3. CASE OfficeDone
  <2>1. /\ stack # <<>> /\ Kind[Top.file] = "OFFICE" /\ Top.at = "await"
        /\ sensitive' = sensitive /\ found' = found /\ excused' = excused
        /\ Return(ret)
    BY <1>3 DEF OfficeDone, Running, past
  <2>2. ToSee(Top) = {}
    BY <2>1 DEF ToSee, Remaining
  <2>3. Accounts(ToSee(Top), excused')
    BY <2>2 DEF Accounts, In
  <2>4. QED
    BY <2>1, <2>3, AccountReturn
<1>4. QED
  BY <1>1, <1>2, <1>3 DEF Submit_Office

\* The entries of an archive, and the files extracted from it.
LEMMA AccountExtract ==
    ASSUME FindInv, ChainInv, AccountInv,
           IdentifyArchive \/ SkipEntry \/ ExtractEntry \/ Extracted
    PROVE  AccountInv'
<1>1. /\ stack # <<>> /\ Kind[Top.file] = "ARCHIVE" /\ Top.at \in {"begin", "extract"}
      /\ sensitive' = sensitive /\ found' = found /\ excused \subseteq excused'
  BY DEF IdentifyArchive, SkipEntry, ExtractEntry, Extracted, Extracting, Running, past,
         Excuse
<1>2. /\ Top \in Calls /\ Top.file \in Files /\ PassedOver(Top, excused)
      /\ Sound(Top) /\ Top.next \in Nat /\ Len(Parts[Top.file]) \in Nat
  BY <1>1, TopAccount, PartsAssumption DEF Calls
<1>3. CASE IdentifyArchive
  <2> DEFINE t == [Top EXCEPT !.at = "extract"]
  <2>1. Top.at = "begin" /\ Continue(t)
    BY <1>3 DEF IdentifyArchive, Running
  <2>2. /\ t.file = Top.file /\ t.at = "extract" /\ t.next = 0 /\ t.blank = Top.blank
    BY <1>2, <2>1 DEF Calls, Sound
  <2> HIDE DEF t
  <2>3. PassedOver(t, excused')
    BY <1>1, <1>2, <2>2 DEF PassedOver
  <2>4. \A i \in 1..Len(Parts[Top.file]) : Parts[Top.file][i] \in ToSee(t)
    BY <2>2 DEF ToSee, Remaining
  <2>5. ASSUME NEW f \in sensitive, f \in Inside[Top.file]
        PROVE  In(f, ToSee(t))
    <3>1. f # Top.file
      BY <1>1 DEF AccountInv, Leaves
    <3>2. QED
      BY <1>2, <2>4, <2>5, <3>1, PartsInside DEF In
  <2>6. Accounts(ToSee(Top), excused' \cup ToSee(t))
    BY <2>1, <2>5 DEF Accounts, In, ToSee
  <2>7. QED
    BY <1>1, <2>1, <2>3, <2>6, AccountContinue
<1>4. ASSUME NEW t, Continue(t), t.file = Top.file, t.at # "pages",
             t.blank = Top.blank, Top.at = "extract",
             \A g \in ToSee(Top) : g \in ToSee(t) \/ g \in excused'
      PROVE  AccountInv'
  <2>1. PassedOver(t, excused')
    BY <1>1, <1>2, <1>4 DEF PassedOver
  <2>2. Accounts(ToSee(Top), excused' \cup ToSee(t))
    BY <1>4 DEF Accounts, In
  <2>3. QED
    BY <1>1, <1>4, <2>1, <2>2, AccountContinue
<1>5. ASSUME Top.at = "extract", NEW g \in ToSee(Top)
      PROVE  \/ g \in Top.out
             \/ Top.next < Len(Parts[Top.file]) /\ g = Entry
             \/ \E i \in 1..Len(Parts[Top.file]) :
                    Top.next + 1 < i /\ g = Parts[Top.file][i]
  <2>1. CASE g \in {m \in Top.out : Kind[Top.file] = "ARCHIVE"}
    BY <2>1
  <2>2. CASE g \in {Parts[Top.file][i] : i \in Remaining(Top)}
    <3>1. PICK i \in 1..Len(Parts[Top.file]) :
              Top.next < i /\ g = Parts[Top.file][i]
      BY <2>2 DEF Remaining
    <3>2. CASE i = Top.next + 1
      BY <1>2, <3>1, <3>2 DEF Entry
    <3>3. CASE i # Top.next + 1
      <4>1. Top.next + 1 < i
        BY <1>2, <3>1, <3>3
      <4>2. QED
        BY <3>1, <4>1
    <3>4. QED
      BY <3>2, <3>3
  <2>3. QED
    BY <1>5, <2>1, <2>2 DEF ToSee
<1>6. CASE SkipEntry
  <2> DEFINE t == [Top EXCEPT !.next = @ + 1]
  <2>1. Top.at = "extract" /\ Continue(t) /\ Entry \in excused'
    BY <1>6 DEF SkipEntry, Extracting, Running, Excuse
  <2>2. /\ t.file = Top.file /\ t.at = "extract" /\ t.next = Top.next + 1
        /\ t.blank = Top.blank /\ t.out = Top.out
    BY <1>2, <2>1 DEF Calls
  <2> HIDE DEF t
  <2>3. \A g \in Top.out : g \in ToSee(t)
    BY <1>1, <2>2 DEF ToSee
  <2>4. \A i \in 1..Len(Parts[Top.file]) :
            Top.next + 1 < i => Parts[Top.file][i] \in ToSee(t)
    BY <2>2 DEF ToSee, Remaining
  <2>5. \A g \in ToSee(Top) : g \in ToSee(t) \/ g \in excused'
    BY <1>5, <2>1, <2>3, <2>4
  <2>6. QED
    BY <1>4, <2>1, <2>2, <2>5
<1>7. CASE ExtractEntry
  <2> DEFINE same == {f \in Top.out : Path[f] = Path[Entry]}
             S == (Top.out \ same) \cup {Entry}
             n == Top.total + Copied(Top, Entry)
             c == Top.cut \/ Copied(Top, Entry) < Size[Entry]
             t == [Top EXCEPT !.next = Top.next + 1, !.out = S, !.total = n, !.cut = c]
  <2>1. Top.at = "extract" /\ Continue(t) /\ same \subseteq excused'
    BY <1>7 DEF ExtractEntry, Extracting, Running, Excuse
  <2> HIDE DEF same, S, n, c
  <2>2. /\ t.file = Top.file /\ t.at = "extract" /\ t.next = Top.next + 1
        /\ t.blank = Top.blank /\ t.out = S
    BY <1>2, <2>1 DEF Calls
  <2> HIDE DEF t
  <2>3. \A g \in Top.out : g \in ToSee(t) \/ g \in excused'
    BY <1>1, <2>1, <2>2 DEF ToSee, S
  <2>4. Entry \in ToSee(t)
    BY <1>1, <2>2 DEF ToSee, S
  <2>5. \A i \in 1..Len(Parts[Top.file]) :
            Top.next + 1 < i => Parts[Top.file][i] \in ToSee(t)
    BY <2>2 DEF ToSee, Remaining
  <2>6. \A g \in ToSee(Top) : g \in ToSee(t) \/ g \in excused'
    BY <1>5, <2>1, <2>3, <2>4, <2>5
  <2>7. QED
    BY <1>4, <2>1, <2>2, <2>6
<1>8. CASE Extracted
  <2> DEFINE t == [Top EXCEPT !.at = "walk"]
  <2>1. Top.at = "extract" /\ Continue(t) /\ Top.next = Len(Parts[Top.file])
    BY <1>8 DEF Extracted, Running
  <2>2. t.file = Top.file /\ t.at = "walk" /\ t.blank = Top.blank /\ t.out = Top.out
    BY <1>2 DEF Calls
  <2> HIDE DEF t
  <2>3. \A g \in Top.out : g \in ToSee(t)
    BY <1>1, <2>2 DEF ToSee
  <2>4. \A i \in 1..Len(Parts[Top.file]) : ~(Top.next + 1 < i)
    BY <1>2, <2>1
  <2>5. \A g \in ToSee(Top) : g \in ToSee(t)
    BY <1>2, <1>5, <2>1, <2>3, <2>4
  <2>6. QED
    BY <1>4, <2>1, <2>2, <2>5
<1>9. QED
  BY <1>3, <1>6, <1>7, <1>8

\* The files of an archive, one after the other.
LEMMA AccountMember ==
    ASSUME FindInv, ChainInv, AccountInv, NEW m \in Files,
           SkipMember(m) \/ SubmitMember(m) \/ ReadMemberFails(m)
    PROVE  AccountInv'
<1>1. /\ stack # <<>> /\ Kind[Top.file] = "ARCHIVE" /\ Top.at = "walk"
      /\ sensitive' = sensitive /\ found' = found /\ excused \subseteq excused'
  BY DEF SkipMember, SubmitMember, ReadMemberFails, Walking, Running, past, Excuse
<1>2. /\ Top \in Calls /\ Top.file \in Files /\ PassedOver(Top, excused)
  BY <1>1, TopAccount
<1>3. ToSee(Top) \subseteq Top.out
  BY <1>1 DEF ToSee, Remaining
<1>4. CASE SkipMember(m)
  <2> DEFINE t == [Top EXCEPT !.out = Top.out \ {m}]
  <2>1. Continue(t) /\ m \in excused'
    BY <1>4 DEF SkipMember, Excuse
  <2>2. /\ t.file = Top.file /\ t.at = "walk" /\ t.blank = Top.blank
        /\ t.out = Top.out \ {m}
    BY <1>1, <1>2 DEF Calls
  <2> HIDE DEF t
  <2>3. PassedOver(t, excused')
    BY <1>1, <1>2, <2>2 DEF PassedOver
  <2>4. \A g \in Top.out : g \in ToSee(t) \/ g \in excused'
    BY <1>1, <2>1, <2>2 DEF ToSee
  <2>5. Accounts(ToSee(Top), excused' \cup ToSee(t))
    BY <1>3, <2>4 DEF Accounts, In
  <2>6. QED
    BY <1>1, <2>1, <2>3, <2>5, AccountContinue
<1>5. CASE SubmitMember(m) \/ ReadMemberFails(m)
  <2>1. PICK b \in BOOLEAN : Enter(m, b, LookingAt(m)) /\ (b => m \in excused')
    BY <1>5 DEF SubmitMember, ReadMemberFails, Excuse
  <2> DEFINE t == LookingAt(m)
  <2>2. /\ t.file = Top.file /\ t.at = "await" /\ t.blank = Top.blank
        /\ t.out = Top.out \ {m}
    BY <1>2 DEF Calls, LookingAt
  <2>3. Enter(m, b, t)
    BY <2>1
  <2> HIDE DEF t
  <2>4. PassedOver(t, excused')
    BY <1>1, <1>2, <2>2 DEF PassedOver
  <2>5. \A g \in Top.out : g \in ToSee(t) \/ g = m
    BY <1>1, <2>2 DEF ToSee
  <2>6. Accounts(ToSee(Top), excused' \cup ToSee(t) \cup {m})
    BY <1>3, <2>5 DEF Accounts, In
  <2>7. QED
    BY <1>1, <2>1, <2>3, <2>4, <2>6, AccountEnter
<1>6. QED
  BY <1>4, <1>5

LEMMA AccountArchive ==
    ASSUME FindInv, ChainInv, AccountInv, Submit_Archive
    PROVE  AccountInv'
<1>1. CASE IdentifyArchive \/ SkipEntry \/ ExtractEntry \/ Extracted
  BY <1>1, AccountExtract
<1>2. CASE \E m \in Files : SkipMember(m) \/ SubmitMember(m) \/ ReadMemberFails(m)
  BY <1>2, AccountMember
<1>3. CASE IdentifyArchiveFails \/ ExtractFails \/ ExceedLimit \/ IdentifyNothing
  <2>1. /\ stack # <<>> /\ found' = found /\ sensitive' = sensitive
        /\ excused \subseteq excused' /\ Return(Failed)
        /\ Top.blank \/ Top.file \in excused'
    BY <1>3 DEF IdentifyArchiveFails, ExtractFails, ExceedLimit, IdentifyNothing,
                Extracting, Running, GiveUp, Excuse, past
  <2>2. QED
    BY <2>1, AccountGivenUp
<1>4. CASE CleanMember
  <2>1. /\ stack # <<>> /\ Kind[Top.file] = "ARCHIVE" /\ Top.at = "await"
        /\ sensitive' = sensitive /\ found' = found /\ excused' = excused
    BY <1>4 DEF CleanMember, Running, past
  <2>2. Top \in Calls /\ PassedOver(Top, excused)
    BY <2>1, TopAccount
  <2> DEFINE t == [Top EXCEPT !.at = "walk"]
  <2>3. Continue(t)
    BY <1>4 DEF CleanMember
  <2>4. t.file = Top.file /\ t.at = "walk" /\ t.blank = Top.blank /\ t.out = Top.out
    BY <2>2 DEF Calls
  <2> HIDE DEF t
  <2>5. PassedOver(t, excused')
    BY <2>1, <2>2, <2>4 DEF PassedOver
  <2>6. ToSee(Top) \subseteq ToSee(t)
    BY <2>1, <2>4 DEF ToSee, Remaining
  <2>7. Accounts(ToSee(Top), excused' \cup ToSee(t))
    BY <2>6 DEF Accounts, In
  <2>8. QED
    BY <2>1, <2>3, <2>5, <2>7, AccountContinue
<1>5. CASE SensitiveMember
  <2>1. /\ stack # <<>> /\ sensitive' = sensitive /\ found' = found
        /\ excused' = excused /\ Top.at = "await" /\ ret.has_sensitive_data
        /\ \E v : Return(v)
    BY <1>5 DEF SensitiveMember, Running, past
  <2>2. found' # {}
    BY <2>1 DEF FindInv
  <2>3. QED
    BY <2>1, <2>2, AccountReturn
<1>6. CASE CleanArchive
  <2>1. /\ stack # <<>> /\ Top.at = "walk" /\ Top.out = {} /\ Return(Clean)
        /\ sensitive' = sensitive /\ found' = found /\ excused' = excused
    BY <1>6 DEF CleanArchive, Running, past
  <2>2. Accounts(ToSee(Top), excused')
    BY <2>1 DEF Accounts, In, ToSee, Remaining
  <2>3. QED
    BY <2>1, <2>2, AccountReturn
<1>7. QED
  BY <1>1, <1>2, <1>3, <1>4, <1>5, <1>6 DEF Submit_Archive

\* The submission is all there is to see when the analysis begins.
LEMMA AccountDoWork ==
    ASSUME NEW f \in Submissions, DoWork(f)
    PROVE  AccountInv'
<1>1. /\ sensitive' \subseteq Inside[f] /\ sensitive' \subseteq Leaves
      /\ stack' = <<Call(f, FALSE)>> /\ Len(stack') = 1 /\ stack'[1] = Call(f, FALSE)
  BY DEF DoWork
<1>2. PassedOver(Call(f, FALSE), excused') /\ ToSee(Call(f, FALSE)) = {f}
  BY DEF PassedOver, ToSee, Call
<1>3. \A i \in 1..Len(stack') : i = 1
  BY <1>1
<1>4. \A i \in 1..Len(stack') : PassedOver(stack'[i], excused')
  BY <1>1, <1>2, <1>3
<1>5. ASSUME NEW g \in sensitive'
      PROVE  \E i \in 1..Len(stack') : In(g, ToSee(stack'[i]))
  <2>1. g \in Inside[f]
    BY <1>1
  <2>2. In(g, {f})
    BY <2>1 DEF In
  <2>3. ToSee(stack'[1]) = {f}
    BY <1>1, <1>2
  <2>4. In(g, ToSee(stack'[1]))
    BY <2>2, <2>3
  <2>5. 1 \in 1..Len(stack')
    BY <1>1
  <2>6. QED
    BY <2>4, <2>5
<1>6. QED
  BY <1>1, <1>4, <1>5 DEF AccountInv

LEMMA AccountStep == FindInv /\ ChainInv /\ AccountInv /\ [Next]_vars => AccountInv'
<1> SUFFICES ASSUME FindInv, ChainInv, AccountInv, [Next]_vars PROVE AccountInv'
  OBVIOUS
<1>1. CASE RejectImage \/ \E v : SubmitImage(v) \/ SubmitText(v)
  BY <1>1, AccountLeaf
<1>2. CASE Submit_PDF \/ Submit_Office \/ Submit_Archive
  BY <1>2, AccountPDF, AccountOffice, AccountArchive
<1>3. CASE \E f \in Submissions : DoWork(f)
  BY <1>3, AccountDoWork
<1>4. CASE UNCHANGED vars
  BY <1>4 DEF vars, past, AccountInv
<1>5. QED
  BY <1>1, <1>2, <1>3, <1>4 DEF Next, Submit_Data

-----------------------------------------------------------------------------
(* Every step brings the analysis nearer to its end                        *)

\* A call is at one of the places of its processor, within its pages and entries,
\* and only an archive has files left to look at.
Fits(t) ==
    /\ IsFiniteSet(t.out)
    /\ t.at = "begin" \/ Kind[t.file] # "ARCHIVE" => t.out = {}
    /\ \/ t.at = "begin" /\ Kind[t.file] \in Supported
       \/ t.at = "pages" /\ Kind[t.file] = "PDF" /\ t.next =< t.total
       \/ t.at = "extract" /\ Kind[t.file] = "ARCHIVE" /\ t.next =< Len(Parts[t.file])
       \/ t.at = "walk" /\ Kind[t.file] = "ARCHIVE"
       \/ t.at = "await" /\ Kind[t.file] \in {"OFFICE", "ARCHIVE"}
FitCalls == {t \in Calls : Fits(t)}
FitInv == stack \in Seq(FitCalls)

\* How many steps of its own a call has left at most.
Effort(t) ==
    CASE t.at = "begin" -> 3 * Len(Parts[t.file]) + 3
      [] t.at = "pages" -> t.total - t.next
      [] t.at = "extract" ->
             3 * (Len(Parts[t.file]) - t.next) + 2 * Cardinality(t.out) + 2
      [] t.at = "walk" -> 2 * Cardinality(t.out) + 1
      [] t.at = "await" -> 2 * Cardinality(t.out) + 2

\* The innermost call returns; or it has less left to do and at most calls for a
\* part of its file.
Advances ==
    \/ stack' = Tail(stack)
    \/ \E t \in Calls :
          /\ t.file = Top.file /\ Effort(t) \in Nat /\ Effort(t) < Effort(Top)
          /\ \/ stack' = <<t>> \o Tail(stack)
             \/ \E i \in 1..Len(Parts[Top.file]), b \in BOOLEAN :
                    stack' = <<Call(Parts[Top.file][i], b), t>> \o Tail(stack)

\* The guard of some action of Submit_Data that needs no failure: an image or a text
\* is submitted; a PDF is converted, has its next page submitted or returns; LibreOffice
\* converts, or its PDF's verdict is passed on; an archive is opened, gives its next
\* entry, is extracted, has its next file looked at, has none left or passes a verdict on.
CanGoOn ==
    \/ Running("IMAGE", "begin") \/ Running("TEXT", "begin")
    \/ Running("PDF", "begin") \/ PageLeft
    \/ Running("PDF", "pages") /\ Top.next = Top.total
    \/ Running("OFFICE", "begin") \/ Running("OFFICE", "await")
    \/ Running("ARCHIVE", "begin") \/ Extracting
    \/ Running("ARCHIVE", "extract") /\ Top.next = Len(Parts[Top.file])
    \/ Running("ARCHIVE", "walk") /\ Top.out = {}
    \/ \E m \in Top.out : Walking(m)
    \/ Running("ARCHIVE", "await")

LEMMA TopFits ==
    ASSUME FitInv, stack # <<>>
    PROVE  Top \in Calls /\ Fits(Top) /\ Top.file \in Files
  BY PopStack DEF FitInv, FitCalls, Calls, Top

LEMMA FitReturn ==
    ASSUME FitInv, stack # <<>>, NEW v, Return(v)
    PROVE  FitInv' /\ Advances
  BY PopStack DEF FitInv, Return, Advances

LEMMA FitContinue ==
    ASSUME FitInv, stack # <<>>, NEW t \in Calls, Fits(t), Continue(t),
           t.file = Top.file, Effort(t) \in Nat, Effort(t) < Effort(Top)
    PROVE  FitInv' /\ Advances
<1>1. t \in FitCalls
  BY DEF FitCalls
<1>2. FitInv'
  BY <1>1, Continued DEF FitInv
<1>3. Advances
  BY DEF Advances, Continue
<1>4. QED
  BY <1>2, <1>3

LEMMA FitEnter ==
    ASSUME FitInv, stack # <<>>, NEW t \in Calls, Fits(t), t.file = Top.file,
           NEW i \in 1..Len(Parts[Top.file]), NEW b \in BOOLEAN,
           Enter(Parts[Top.file][i], b, t), Kind[Parts[Top.file][i]] \in Supported,
           Effort(t) \in Nat, Effort(t) < Effort(Top)
    PROVE  FitInv' /\ Advances
<1> DEFINE m == Parts[Top.file][i]
<1>1. m \in Files
  BY TopFits, PartsInside
<1> HIDE DEF m
<1>2. Call(m, b) \in Calls
  BY <1>1, LimitsAssumption
  DEF Call, Calls, NoVerdict, Verdict, Verdicts, NoPage, NoPath
<1>3. Fits(Call(m, b))
  BY FS_EmptySet DEF Fits, Call, m
<1>4. t \in FitCalls /\ Call(m, b) \in FitCalls
  BY <1>2, <1>3 DEF FitCalls
<1>5. FitInv'
  BY <1>4, Entered DEF FitInv, m
<1>6. Advances
  BY DEF Advances, Enter
<1>7. QED
  BY <1>5, <1>6

LEMMA FitPDF ==
    ASSUME FindInv, ChainInv, FitInv, Submit_PDF
    PROVE  FitInv' /\ Advances
<1>1. /\ stack # <<>> /\ Kind[Top.file] = "PDF" /\ Top.at \in {"begin", "pages"}
  BY DEF Submit_PDF, ConvertPDF, ConvertPDFFails, NoPages, ReadPageFails, HitMaxPages,
         AllPages, CleanPage, SensitivePage, PageLeft, Running
<1>2. /\ Top \in Calls /\ Fits(Top) /\ Top.file \in Files /\ Sound(Top)
      /\ Len(Parts[Top.file]) \in Nat /\ Top.out = {}
  BY <1>1, TopFits, TopSound, PartsAssumption DEF Fits
<1>3. CASE ConvertPDF
  <2>1. PICK n \in Nat :
            /\ n =< Len(Parts[Top.file]) /\ Top.at = "begin"
            /\ Continue([Top EXCEPT !.at = "pages", !.total = n])
    BY <1>2, <1>3, LimitsAssumption DEF ConvertPDF, Running, PagesOf
  <2> DEFINE t == [Top EXCEPT !.at = "pages", !.total = n]
  <2>2. /\ t \in Calls /\ t.file = Top.file /\ t.at = "pages" /\ t.total = n
        /\ t.next = 0 /\ t.out = {}
    BY <1>2, <2>1 DEF Calls, Sound
  <2>3. Continue(t)
    BY <2>1
  <2> HIDE DEF t
  <2>4. Fits(t)
    BY <1>1, <2>2, FS_EmptySet DEF Fits
  <2>5. Effort(t) = n /\ Effort(Top) = 3 * Len(Parts[Top.file]) + 3
    BY <2>1, <2>2 DEF Effort
  <2>6. Effort(t) \in Nat /\ Effort(t) < Effort(Top)
    BY <1>2, <2>1, <2>5
  <2>7. QED
    BY <1>1, <2>2, <2>3, <2>4, <2>6, FitContinue
<1>4. ASSUME NEW v, CleanPage(v)
      PROVE  FitInv' /\ Advances
  <2> DEFINE w == IF Top.next = 0 THEN v ELSE Top.first
             t == [Top EXCEPT !.next = Top.next + 1, !.first = w]
  <2>1. v \in Verdicts
    <3>1. Submit_AI(Page, Top.blank, v) /\ found = {} /\ Top.blank \in BOOLEAN
      BY <1>1, <1>2, <1>4, NotFoundYet DEF CleanPage, PageLeft, Calls
    <3>2. QED
      BY <1>1, <3>1, Answered
  <2>2. Top.at = "pages" /\ Top.next < Top.total /\ Continue(t)
    BY <1>4 DEF CleanPage, PageLeft, Running
  <2>3. Top.next \in Nat /\ Top.next + 1 \in Nat /\ Top.total \in Nat /\ w \in Verdicts
    BY <1>2, <2>1 DEF Calls
  <2> HIDE DEF w
  <2>4. /\ t \in Calls /\ t.file = Top.file /\ t.at = "pages" /\ t.total = Top.total
        /\ t.next = Top.next + 1 /\ t.out = {}
    BY <1>2, <2>2, <2>3 DEF Calls
  <2> HIDE DEF t
  <2>5. Fits(t)
    BY <1>1, <2>2, <2>3, <2>4, FS_EmptySet DEF Fits
  <2>6. Effort(t) = Top.total - (Top.next + 1) /\ Effort(Top) = Top.total - Top.next
    BY <2>2, <2>4 DEF Effort
  <2>7. Effort(t) \in Nat /\ Effort(t) < Effort(Top)
    BY <2>2, <2>3, <2>6
  <2>8. QED
    BY <1>1, <2>2, <2>4, <2>5, <2>7, FitContinue
<1>5. CASE \E v : Return(v)
  BY <1>1, <1>5, FitReturn
<1>6. QED
  BY <1>3, <1>4, <1>5
  DEF Submit_PDF, ConvertPDFFails, NoPages, ReadPageFails, HitMaxPages, AllPages,
      SensitivePage, GiveUp

LEMMA FitOffice ==
    ASSUME FindInv, FitInv, Submit_Office
    PROVE  FitInv' /\ Advances
<1>1. stack # <<>> /\ Kind[Top.file] = "OFFICE"
  BY DEF Submit_Office, ConvertOffice, ConvertOfficeFails, OfficeDone, Running
<1>2. Top \in Calls /\ Fits(Top) /\ Top.file \in Files
  BY <1>1, TopFits
<1>3. CASE ConvertOffice
  <2> DEFINE t == [Top EXCEPT !.at = "await"]
  <2>1. /\ t \in Calls /\ t.file = Top.file /\ t.at = "await" /\ t.out = {}
        /\ Top.at = "begin" /\ Enter(Parts[Top.file][1], Top.blank, t)
    BY <1>1, <1>2, <1>3 DEF ConvertOffice, Running, Calls, Fits
  <2> HIDE DEF t
  <2>2. Fits(t)
    BY <1>1, <2>1, FS_EmptySet DEF Fits
  <2>3. Len(Parts[Top.file]) = 1 /\ Kind[Parts[Top.file][1]] \in Supported
    BY <1>1, <1>2, PartsAssumption DEF Supported
  <2>4. Effort(t) = 2 * Cardinality({}) + 2 /\ Effort(Top) = 3 * 1 + 3
    BY <2>1, <2>3 DEF Effort
  <2>5. Effort(t) \in Nat /\ Effort(t) < Effort(Top)
    BY <2>4, FS_EmptySet
  <2>6. 1 \in 1..Len(Parts[Top.file]) /\ Top.blank \in BOOLEAN
    BY <1>2, <2>3 DEF Calls
  <2>7. QED
    BY <1>1, <2>1, <2>2, <2>3, <2>5, <2>6, FitEnter
<1>4. CASE \E v : Return(v)
  BY <1>1, <1>4, FitReturn
<1>5. QED
  BY <1>3, <1>4 DEF Submit_Office, ConvertOfficeFails, OfficeDone, GiveUp

\* An entry less to extract is worth more than the file it may leave to look at.
LEMMA EntryLess ==
    ASSUME NEW l \in Nat, NEW n \in Nat, n < l, NEW a \in Nat, NEW b \in Nat,
           b =< a + 1
    PROVE  /\ 3 * (l - (n + 1)) + 2 * b + 2 \in Nat
           /\ 3 * (l - (n + 1)) + 2 * b + 2 < 3 * (l - n) + 2 * a + 2
  OBVIOUS

LEMMA FitExtract ==
    ASSUME FindInv, FitInv, ExtractEntry
    PROVE  FitInv' /\ Advances
<1>1. /\ stack # <<>> /\ Kind[Top.file] = "ARCHIVE" /\ Top.at = "extract"
      /\ Top.next < Len(Parts[Top.file])
  BY DEF ExtractEntry, Extracting, Running
<1>2. /\ Top \in Calls /\ Fits(Top) /\ Top.file \in Files
      /\ Top.next \in Nat /\ Len(Parts[Top.file]) \in Nat /\ Parts[Top.file] \in Seq(Files)
      /\ IsFiniteSet(Top.out) /\ Top.out \subseteq Files
  BY <1>1, TopFits, PartsAssumption DEF Calls, Fits
<1>3. Entry \in Files
  BY <1>1, <1>2 DEF Entry
<1> DEFINE same == {f \in Top.out : Path[f] = Path[Entry]}
           S == (Top.out \ same) \cup {Entry}
           n == Top.total + Copied(Top, Entry)
           c == Top.cut \/ Copied(Top, Entry) < Size[Entry]
           t == [Top EXCEPT !.next = Top.next + 1, !.out = S, !.total = n, !.cut = c]
<1>4. n \in Nat
  BY <1>2, <1>3, Whole DEF ExtractEntry
<1>5. c \in BOOLEAN
  BY <1>2 DEF Calls
<1>6. S \subseteq Files
  BY <1>2, <1>3
<1>7. /\ IsFiniteSet(S) /\ Cardinality(S) \in Nat /\ Cardinality(Top.out) \in Nat
      /\ Cardinality(S) =< Cardinality(Top.out) + 1
  <2>1. Top.out \ same \in SUBSET Top.out
    OBVIOUS
  <2> HIDE DEF same
  <2>2. /\ IsFiniteSet(Top.out \ same)
        /\ Cardinality(Top.out \ same) =< Cardinality(Top.out)
    BY <1>2, <2>1, FS_Subset
  <2>3. /\ IsFiniteSet(S)
        /\ Cardinality(S) = IF Entry \in Top.out \ same THEN Cardinality(Top.out \ same)
                            ELSE Cardinality(Top.out \ same) + 1
    BY <2>2, FS_AddElement
  <2>4. /\ Cardinality(S) \in Nat /\ Cardinality(Top.out) \in Nat
        /\ Cardinality(Top.out \ same) \in Nat
    BY <1>2, <2>2, <2>3, FS_CardinalityType
  <2> HIDE DEF S
  <2>5. QED
    BY <2>2, <2>3, <2>4
<1>8. Continue(t)
  BY DEF ExtractEntry
<1> HIDE DEF same, S, n, c
<1>9. /\ t \in Calls /\ t.file = Top.file /\ t.at = "extract" /\ t.next = Top.next + 1
      /\ t.out = S
  <2>1. Top.next + 1 \in Nat
    BY <1>2
  <2>2. QED
    BY <1>1, <1>2, <1>4, <1>5, <1>6, <2>1 DEF Calls
<1> HIDE DEF t
<1>10. Fits(t)
  BY <1>1, <1>2, <1>7, <1>9 DEF Fits
<1>11. /\ Effort(t) = 3 * (Len(Parts[Top.file]) - (Top.next + 1)) + 2 * Cardinality(S) + 2
       /\ Effort(Top) =
              3 * (Len(Parts[Top.file]) - Top.next) + 2 * Cardinality(Top.out) + 2
  BY <1>1, <1>9 DEF Effort
<1>12. Effort(t) \in Nat /\ Effort(t) < Effort(Top)
  <2> DEFINE l == Len(Parts[Top.file])
             a == Cardinality(Top.out)
             b == Cardinality(S)
  <2>1. /\ l \in Nat /\ Top.next \in Nat /\ Top.next < l
        /\ a \in Nat /\ b \in Nat /\ b =< a + 1
    BY <1>1, <1>2, <1>7
  <2>2. /\ Effort(t) = 3 * (l - (Top.next + 1)) + 2 * b + 2
        /\ Effort(Top) = 3 * (l - Top.next) + 2 * a + 2
    BY <1>11
  <2> HIDE DEF l, a, b
  <2>3. QED
    BY <2>1, <2>2, EntryLess
<1>13. QED
  BY <1>1, <1>8, <1>9, <1>10, <1>12, FitContinue

LEMMA FitMember ==
    ASSUME FindInv, ChainInv, FitInv, NEW m \in Files,
           SkipMember(m) \/ SubmitMember(m) \/ ReadMemberFails(m)
    PROVE  FitInv' /\ Advances
<1>1. /\ stack # <<>> /\ Kind[Top.file] = "ARCHIVE" /\ Top.at = "walk" /\ m \in Top.out
  BY DEF SkipMember, SubmitMember, ReadMemberFails, Walking, Running
<1>2. /\ Top \in Calls /\ Fits(Top) /\ Top.file \in Files /\ Placed(Top)
      /\ IsFiniteSet(Top.out) /\ Top.out \ {m} \subseteq Files
  BY <1>1, TopFits, TopPlaced DEF Calls, Fits
<1>3. /\ IsFiniteSet(Top.out \ {m})
      /\ Cardinality(Top.out \ {m}) = Cardinality(Top.out) - 1
      /\ Cardinality(Top.out) \in Nat /\ Cardinality(Top.out \ {m}) \in Nat
  <2>1. /\ IsFiniteSet(Top.out \ {m})
        /\ Cardinality(Top.out \ {m}) = Cardinality(Top.out) - 1
    BY <1>1, <1>2, FS_RemoveElement
  <2>2. Cardinality(Top.out) \in Nat /\ Cardinality(Top.out \ {m}) \in Nat
    BY <1>2, <2>1, FS_CardinalityType
  <2>3. QED
    BY <2>1, <2>2
<1>4. Effort(Top) = 2 * Cardinality(Top.out) + 1
  BY <1>1 DEF Effort
<1>5. CASE SkipMember(m)
  <2> DEFINE t == [Top EXCEPT !.out = Top.out \ {m}]
  <2>1. /\ t \in Calls /\ t.file = Top.file /\ t.at = "walk" /\ t.out = Top.out \ {m}
        /\ Continue(t)
    BY <1>1, <1>2, <1>5 DEF SkipMember, Calls
  <2> HIDE DEF t
  <2>2. Fits(t)
    BY <1>1, <1>3, <2>1 DEF Fits
  <2>3. Effort(t) = 2 * Cardinality(Top.out \ {m}) + 1
    BY <2>1 DEF Effort
  <2>4. Effort(t) \in Nat /\ Effort(t) < Effort(Top)
    BY <1>3, <1>4, <2>3
  <2>5. QED
    BY <1>1, <2>1, <2>2, <2>4, FitContinue
<1>6. CASE SubmitMember(m) \/ ReadMemberFails(m)
  <2> DEFINE t == LookingAt(m)
  <2>1. PICK b \in BOOLEAN : Enter(m, b, t)
    BY <1>6 DEF SubmitMember, ReadMemberFails
  <2>2. /\ t \in Calls /\ t.file = Top.file /\ t.at = "await" /\ t.out = Top.out \ {m}
    BY <1>2 DEF LookingAt, Calls
  <2> HIDE DEF t
  <2>3. Fits(t)
    BY <1>1, <1>3, <2>2 DEF Fits
  <2>4. PICK i \in 1..Len(Parts[Top.file]) : Parts[Top.file][i] = m
    BY <1>1, <1>2 DEF Placed, Listed
  <2>5. Kind[m] \in Supported
    BY <1>6 DEF SubmitMember, ReadMemberFails
  <2>6. Effort(t) = 2 * Cardinality(Top.out \ {m}) + 2
    BY <2>2 DEF Effort
  <2>7. Effort(t) \in Nat /\ Effort(t) < Effort(Top)
    BY <1>3, <1>4, <2>6
  <2>8. QED
    BY <1>1, <2>1, <2>2, <2>3, <2>4, <2>5, <2>7, FitEnter
<1>7. QED
  BY <1>5, <1>6

LEMMA FitArchive ==
    ASSUME FindInv, ChainInv, FitInv, Submit_Archive
    PROVE  FitInv' /\ Advances
<1>1. stack # <<>> /\ Kind[Top.file] = "ARCHIVE"
  BY DEF Submit_Archive, IdentifyArchive, IdentifyArchiveFails, IdentifyNothing, SkipEntry,
         ExtractEntry, ExceedLimit, ExtractFails, Extracted, SkipMember, SubmitMember,
         ReadMemberFails, CleanMember, SensitiveMember, CleanArchive, Extracting, Walking,
         Running, GiveUp
<1>2. /\ Top \in Calls /\ Fits(Top) /\ Top.file \in Files /\ Sound(Top)
      /\ Top.next \in Nat /\ Len(Parts[Top.file]) \in Nat
      /\ IsFiniteSet(Top.out) /\ Cardinality(Top.out) \in Nat
  <2>1. Top \in Calls /\ Fits(Top) /\ Top.file \in Files /\ Sound(Top)
    BY <1>1, TopFits, TopSound
  <2>2. Top.next \in Nat /\ Len(Parts[Top.file]) \in Nat /\ IsFiniteSet(Top.out)
    BY <2>1, PartsAssumption DEF Calls, Fits
  <2>3. QED
    BY <2>1, <2>2, FS_CardinalityType
<1>3. CASE IdentifyArchive
  <2> DEFINE t == [Top EXCEPT !.at = "extract"]
  <2>1. Top.at = "begin" /\ Continue(t)
    BY <1>3 DEF IdentifyArchive, Running
  <2>2. /\ t \in Calls /\ t.file = Top.file /\ t.at = "extract" /\ t.next = 0
        /\ t.out = {}
    BY <1>2, <2>1 DEF Calls, Sound, Fits
  <2> HIDE DEF t
  <2>3. Fits(t)
    BY <1>1, <1>2, <2>2, FS_EmptySet DEF Fits
  <2>4. /\ Effort(t) = 3 * (Len(Parts[Top.file]) - 0) + 2 * Cardinality({}) + 2
        /\ Effort(Top) = 3 * Len(Parts[Top.file]) + 3
    BY <2>1, <2>2 DEF Effort
  <2>5. Effort(t) \in Nat /\ Effort(t) < Effort(Top)
    BY <1>2, <2>4, FS_EmptySet
  <2>6. QED
    BY <1>1, <2>1, <2>2, <2>3, <2>5, FitContinue
<1>4. CASE SkipEntry
  <2> DEFINE t == [Top EXCEPT !.next = @ + 1]
  <2>1. Top.at = "extract" /\ Continue(t) /\ Top.next < Len(Parts[Top.file])
    BY <1>4 DEF SkipEntry, Extracting, Running
  <2>2. /\ t \in Calls /\ t.file = Top.file /\ t.at = "extract"
        /\ t.next = Top.next + 1 /\ t.out = Top.out
    BY <1>2, <2>1 DEF Calls
  <2> HIDE DEF t
  <2>3. Fits(t)
    BY <1>1, <1>2, <2>1, <2>2 DEF Fits
  <2>4. /\ Effort(t) = 3 * (Len(Parts[Top.file]) - (Top.next + 1))
                           + 2 * Cardinality(Top.out) + 2
        /\ Effort(Top) = 3 * (Len(Parts[Top.file]) - Top.next)
                             + 2 * Cardinality(Top.out) + 2
    BY <2>1, <2>2 DEF Effort
  <2>5. Effort(t) \in Nat /\ Effort(t) < Effort(Top)
    <3> DEFINE l == Len(Parts[Top.file])
               a == Cardinality(Top.out)
    <3>1. l \in Nat /\ Top.next \in Nat /\ Top.next < l /\ a \in Nat /\ a =< a + 1
      BY <1>2, <2>1
    <3>2. /\ Effort(t) = 3 * (l - (Top.next + 1)) + 2 * a + 2
          /\ Effort(Top) = 3 * (l - Top.next) + 2 * a + 2
      BY <2>4
    <3> HIDE DEF l, a
    <3>3. QED
      BY <3>1, <3>2, EntryLess
  <2>6. QED
    BY <1>1, <2>1, <2>2, <2>3, <2>5, FitContinue
<1>5. CASE Extracted \/ CleanMember
  <2> DEFINE t == [Top EXCEPT !.at = "walk"]
  <2>1. /\ Continue(t)
        /\ \/ Top.at = "extract" /\ Top.next = Len(Parts[Top.file])
           \/ Top.at = "await"
    BY <1>5 DEF Extracted, CleanMember, Running
  <2>2. t \in Calls /\ t.file = Top.file /\ t.at = "walk" /\ t.out = Top.out
    BY <1>2 DEF Calls
  <2> HIDE DEF t
  <2>3. Fits(t)
    BY <1>1, <1>2, <2>2 DEF Fits
  <2>4. /\ Effort(t) = 2 * Cardinality(Top.out) + 1
        /\ \/ Effort(Top) = 2 * Cardinality(Top.out) + 2
           \/ Effort(Top) = 3 * (Len(Parts[Top.file]) - Len(Parts[Top.file]))
                                + 2 * Cardinality(Top.out) + 2
    BY <2>1, <2>2 DEF Effort
  <2>5. Effort(t) \in Nat /\ Effort(t) < Effort(Top)
    BY <1>2, <2>4
  <2>6. QED
    BY <1>1, <2>1, <2>2, <2>3, <2>5, FitContinue
<1>6. CASE \E v : Return(v)
  BY <1>1, <1>6, FitReturn
<1>7. QED
  BY <1>3, <1>4, <1>5, <1>6, FitExtract, FitMember
  DEF Submit_Archive, IdentifyArchiveFails, IdentifyNothing, ExceedLimit, ExtractFails,
      SensitiveMember, CleanArchive, GiveUp

LEMMA FitSubmit ==
    ASSUME FindInv, ChainInv, FitInv, Submit_Data
    PROVE  FitInv' /\ Advances
<1>1. CASE RejectImage \/ \E v : SubmitImage(v) \/ SubmitText(v)
  BY <1>1, FitReturn DEF RejectImage, SubmitImage, SubmitText, Running
<1>2. QED
  BY <1>1, FitPDF, FitOffice, FitArchive DEF Submit_Data

LEMMA FitStep == FindInv /\ ChainInv /\ FitInv /\ [Next]_vars => FitInv'
<1> SUFFICES ASSUME FindInv, ChainInv, FitInv, [Next]_vars PROVE FitInv'
  OBVIOUS
<1>1. ASSUME NEW f \in Submissions, DoWork(f)
      PROVE  FitInv'
  <2>1. f \in Files /\ Kind[f] \in Supported
    BY PartsAssumption
  <2>2. Call(f, FALSE) \in Calls
    BY <2>1, LimitsAssumption
    DEF Call, Calls, NoVerdict, Verdict, Verdicts, NoPage, NoPath
  <2>3. Fits(Call(f, FALSE))
    BY <2>1, FS_EmptySet DEF Fits, Call
  <2>4. stack' = <<Call(f, FALSE)>> /\ Call(f, FALSE) \in FitCalls
    BY <1>1, <2>2, <2>3 DEF DoWork, FitCalls
  <2>5. \A c \in FitCalls : <<c>> \in Seq(FitCalls)
    OBVIOUS
  <2>6. QED
    BY <2>4, <2>5 DEF FitInv
<1>2. CASE UNCHANGED vars
  BY <1>2 DEF vars, FitInv
<1>3. QED
  BY <1>1, <1>2, FitSubmit DEF Next

\* Of some files one has the least name.
LEMMA LeastName ==
    ASSUME NEW S \in SUBSET Files, S # {}
    PROVE  \E m \in S : \A g \in S : Path[m] =< Path[g]
<1> DEFINE R == OpToRel(<, Nat)
           T == {Path[g] : g \in S}
<1>1. T \subseteq Nat /\ T # {}
  BY PartsAssumption
<1>2. \A x, y \in Nat : <<x, y>> \in R <=> x < y
  BY DEF OpToRel
<1>3. IsWellFoundedOn(R, Nat)
  BY NatLessThanWellFounded
<1> HIDE DEF R, T
<1>4. PICK n \in T : \A k \in T : <<k, n>> \notin R
  BY <1>1, <1>3, WFMin
<1>5. ASSUME NEW k \in T
      PROVE  n =< k
  <2>1. k \in Nat /\ n \in Nat
    BY <1>1
  <2>2. ~(k < n)
    BY <1>2, <1>4, <2>1
  <2>3. QED
    BY <2>1, <2>2
<1>6. QED
  BY <1>5 DEF T

-----------------------------------------------------------------------------
(* Theorems                                                                *)

\* Calls and verdicts are what the code's variables can hold, and no call on a
\* PDF goes beyond the last page it may submit.
THEOREM AnalysisTypeCorrect == Spec => []AnalysisTypeOK
<1>1. FindInv => AnalysisTypeOK
  BY DEF FindInv, StackOK, Sound, AnalysisTypeOK
<1>2. QED
  BY <1>1, FindingsKept, PTL

\* However deep files are nested in archives and documents, and whatever fails
\* on the way, DoWork gets a verdict with has_sensitive_data exactly if some
\* request of this analysis was answered so.
THEOREM VerdictReported == Spec => []FoundIsReported
<1>1. FindInv => FoundIsReported
  BY DEF FindInv, FoundIsReported, Done
<1>2. QED
  BY <1>1, FindingsKept, PTL

\* Whatever the sizes of the entries, an archive whose files are looked at was
\* extracted in full and within Max_Archive_Size: io.Copy's limit of one byte
\* more never leaves a truncated file to be analysed.
THEOREM NothingTruncated == Spec => []NothingCutShort
<1>1. FindInv => NothingCutShort
  BY DEF FindInv, StackOK, Sound, NothingCutShort
<1>2. QED
  BY <1>1, FindingsKept, PTL

\* Once the model has found sensitive data there is no other request, page or
\* file: every step up to the end of the analysis returns from a call.
THEOREM StopsAtFirstFinding == Spec => StopsAtFirst
<1>1. ASSUME FindInv, found # {}, stack # <<>>, Next
      PROVE  Len(stack') = Len(stack) - 1
  <2>1. \E v : Return(v)
    BY <1>1, OnlyReturns DEF OfficeDone, SensitiveMember
  <2>2. QED
    BY <1>1, <2>1, StackReturn DEF FindInv
<1>2. FindInv /\ [Next]_vars
          => [found # {} /\ stack # <<>> => Len(stack') = Len(stack) - 1]_vars
  BY <1>1
<1>3. QED
  BY <1>2, FindingsKept, PTL DEF Spec, StopsAtFirst

\* The page that the verdict names is one of a PDF, and both had the finding; a
\* member is named exactly where an archive was submitted, and it is an entry of that
\* archive with the finding somewhere in it, however deep.
THEOREM VerdictPoints == Spec => []PointsToFinding
<1>1. Init => ChainInv /\ PointInv
  BY DEF Init, ChainInv, PointInv
<1>2. FindInv /\ PointInv => PointsToFinding
  BY DEF FindInv, PointInv, PointsToFinding, Done, Returned, PageOK
<1>3. QED
  BY <1>1, <1>2, FindingsKept, ChainStep, PointStep, PTL DEF Spec

\* Whatever an archive holds and whatever fails: when the verdict on a submission is
\* silent, every part in which the model sees sensitive data is in a file of which a
\* step failed or which the code passes over by its rules.  Nothing else is lost, not
\* a page, an entry, or a member of an archive in an archive.
THEOREM NothingMissed == Spec => []MissedOnlyIfExcused
<1>1. Init => ChainInv /\ AccountInv
  BY DEF Init, ChainInv, AccountInv
<1>2. ASSUME FindInv, AccountInv, Done, ~ret.has_sensitive_data
      PROVE  \A f \in sensitive : \E e \in excused : f \in Inside[e]
  <2>1. found = {}
    BY <1>2 DEF FindInv
  <2>2. \A i : i \notin 1..Len(stack)
    BY <1>2 DEF Done
  <2>3. QED
    BY <1>2, <2>1, <2>2 DEF AccountInv, In
<1>3. FindInv /\ AccountInv => MissedOnlyIfExcused
  BY <1>2 DEF MissedOnlyIfExcused
<1>4. QED
  BY <1>1, <1>3, FindingsKept, ChainStep, AccountStep, PTL DEF Spec

\* Every step of an analysis, failures included, returns from the innermost call or
\* leaves it less to do, a natural number; and a call it makes is for a part of the
\* file.  So a call makes at most three steps for each part and three more, and only
\* archives that nest without end keep a worker for ever.
THEOREM EveryStepAdvances == Spec => [][stack # <<>> => Advances]_vars
<1>1. Init => ChainInv /\ FitInv
  BY DEF Init, ChainInv, FitInv
<1>2. FindInv /\ ChainInv /\ FitInv /\ [Next]_vars
          => [stack # <<>> => Advances]_vars
  BY FitSubmit DEF Next, DoWork
<1>3. QED
  BY <1>1, <1>2, FindingsKept, ChainStep, FitStep, PTL DEF Spec

\* An analysis under way can always take a step, and none that needs a failure: every
\* call is for a kind of file that there is a processor for, no page or entry is
\* skipped over, and of files left to look at one has the least name.
THEOREM NeverStuck == Spec => [](stack # <<>> => CanGoOn)
<1>1. Init => ChainInv /\ FitInv
  BY DEF Init, ChainInv, FitInv
<1>2. ASSUME FindInv, FitInv, stack # <<>>
      PROVE  CanGoOn
  <2>1. /\ Top \in Calls /\ Fits(Top) /\ Top.file \in Files /\ Top.out \subseteq Files
        /\ Top.next \in Nat /\ Top.total \in Nat /\ Len(Parts[Top.file]) \in Nat
    BY <1>2, TopFits, PartsAssumption DEF Calls
  <2>2. CASE Top.at = "begin"
    BY <1>2, <2>1, <2>2 DEF CanGoOn, Fits, Running, Supported
  <2>3. CASE Top.at = "pages"
    <3>1. Running("PDF", "pages") /\ Top.next =< Top.total
      BY <1>2, <2>1, <2>3 DEF Fits, Running
    <3>2. Top.next < Top.total \/ Top.next = Top.total
      BY <2>1, <3>1
    <3>3. QED
      BY <3>1, <3>2 DEF CanGoOn, PageLeft
  <2>4. CASE Top.at = "extract"
    <3>1. Running("ARCHIVE", "extract") /\ Top.next =< Len(Parts[Top.file])
      BY <1>2, <2>1, <2>4 DEF Fits, Running
    <3>2. Top.next < Len(Parts[Top.file]) \/ Top.next = Len(Parts[Top.file])
      BY <2>1, <3>1
    <3>3. QED
      BY <3>1, <3>2 DEF CanGoOn, Extracting
  <2>5. CASE Top.at = "walk"
    <3>1. Running("ARCHIVE", "walk")
      BY <1>2, <2>1, <2>5 DEF Fits, Running
    <3>2. Top.out # {} => \E m \in Top.out : \A g \in Top.out : Path[m] =< Path[g]
      BY <2>1, LeastName
    <3>3. QED
      BY <3>1, <3>2 DEF CanGoOn, Walking
  <2>6. CASE Top.at = "await"
    BY <1>2, <2>1, <2>6 DEF CanGoOn, Fits, Running
  <2>7. QED
    BY <2>1, <2>2, <2>3, <2>4, <2>5, <2>6 DEF Calls
<1>3. QED
  BY <1>1, <1>2, FindingsKept, ChainStep, FitStep, PTL DEF Spec
=============================================================================
