----------------------------- MODULE GenProofs -----------------------------
(***************************************************************************)
(* The properties of Gen, for any accounts, requests, hours, widths of the *)
(* machine words and fractions of a second.                                *)
(***************************************************************************)
EXTENDS Gen, SequenceTheorems, TLAPS

-----------------------------------------------------------------------------
(* Arithmetic                                                              *)

\* Products of widths are widths.
LEMMA ProductOfPositives ==
    ASSUME NEW x \in Nat \ {0}, NEW y \in Nat \ {0}
    PROVE  x * y \in Nat \ {0}
OBVIOUS

\* Products of hours and widths are not negative.
LEMMA ProductOfNaturals ==
    ASSUME NEW x \in Nat, NEW y \in Nat
    PROVE  x * y \in Nat
OBVIOUS

\* The hours of a day and the days of the calendar: there are dates.
LEMMA Calendar == FractionsInSecond \in Nat \ {0} /\ LastInstant \in Nat
<1>1. FractionsInSecond \in Nat \ {0}
    BY GenConstantsOK, EmptySeq, LenProperties DEF FractionsInSecond
<1>2. Base * Base * FractionsInSecond \in Nat \ {0}
    BY <1>1, GenConstantsOK, ProductOfPositives
<1>3. QED
    BY <1>1, <1>2 DEF LastInstant

\* A number of hours that a word holds becomes a number of seconds, if not
\* a panic: the right one if it fits the word.
LEMMA SecondsFit ==
    ASSUME NEW h \in Nat, NEW s \in SecondsOf(h)
    PROVE  /\ s # NULL => s \in Nat
           /\ HourSeconds * h < WordSize => s = HourSeconds * h
<1>1. HourSeconds * h \in Nat
    BY GenConstantsOK, ProductOfNaturals
<1>2. (HourSeconds * h) % WordSize \in Nat
    BY <1>1, GenConstantsOK
<1>3. QED
    BY <1>1, <1>2 DEF SecondsOf

\* A sum is a date, or the panic that there is none.
LEMMA SumFits ==
    ASSUME NEW date \in Dates, NEW s, s # NULL => s \in Nat
    PROVE  /\ Plus(date, s) # NULL => Plus(date, s) \in Dates
           /\ Plus(date, s) # NULL => /\ s # NULL
                                      /\ Plus(date, s) = date + FractionsInSecond * s
<1>1. CASE s = NULL
    BY <1>1 DEF Plus
<1>2. CASE s # NULL
  <2>1. FractionsInSecond * s \in Nat
      BY <1>2, Calendar, ProductOfNaturals
  <2>2. QED
      BY <1>2, <2>1, Calendar DEF Plus, Dates
<1>3. QED
    BY <1>1, <1>2

\* The word that holds a number of hours: itself, or for a negative one a
\* number whose seconds do not fit the word.
LEMMA WordOfHours ==
    ASSUME NEW h \in Int, IsHalfWord(h)
    PROVE  /\ AsWord(h) \in Nat
           /\ h >= 0 => AsWord(h) = h
           /\ h < 0 => HourSeconds * AsWord(h) >= WordSize
<1>1. WordSize \in Nat \ {0}
    BY GenConstantsOK
<1>2. AsWord(h) \in Nat
    BY <1>1 DEF AsWord
<1>3. h >= 0 => AsWord(h) = h
    BY <1>1 DEF AsWord, IsHalfWord
<1>4. ASSUME h < 0 PROVE HourSeconds * AsWord(h) >= WordSize
  <2>1. AsWord(h) = h + WordSize
      BY <1>1, <1>4 DEF AsWord, IsHalfWord
  <2>2. 2 * AsWord(h) >= WordSize
      BY <1>1, <2>1 DEF IsHalfWord
  <2>3. \A n \in Nat : HourSeconds * n >= 2 * n
      BY GenConstantsOK
  <2>4. QED
    <3>1. HourSeconds * AsWord(h) >= 2 * AsWord(h)
        BY <1>2, <2>3
    <3>2. HourSeconds * AsWord(h) \in Nat /\ 2 * AsWord(h) \in Nat
        BY <1>2, GenConstantsOK, ProductOfNaturals
    <3>3. QED
        BY ONLY <1>1, <2>2, <3>1, <3>2
<1>5. QED
    BY <1>2, <1>3, <1>4

-----------------------------------------------------------------------------
(* Types                                                                   *)

Hours == {h \in ContentFields \cup {NULL} : h # NULL => h \in Int /\ IsHalfWord(h)}

\* What the types leave out: a form that was understood is complete and
\* holds numbers, and a link that is not used has no date of expiration.
FormsRead ==
    \A r \in GenRequests :
        gen[r].pc = "create" => /\ gen[r].path \in Paths
                                /\ gen[r].valid \in ValidHours
                                /\ gen[r].content \in Hours

HoursRead ==
    \A l \in DOMAIN links : links[l].content_expires_after_hours \in Hours

UnusedLinksUndated ==
    \A l \in DOMAIN links :
        links[l].used_at = NULL => links[l].content_expires_at = NULL

GenInv == GenTypeOK /\ FormsRead /\ HoursRead /\ UnusedLinksUndated

\* NULL is no date.
LEMMA NullIsNoDate == NULL \notin Int
BY GenConstantsOK

\* The client's forms hold what a form may hold.
LEMMA FieldsAreFields == ASSUME NEW r PROVE FieldsOf(r) \subseteq ContentFields
BY GenConstantsOK DEF FieldsOf, Encode, Decode, Understood

\* A field that is understood is NULL or hours that fit a half word.
LEMMA DecodeReads ==
    ASSUME NEW field \in ContentFields, Understood(field)
    PROVE  Decode(field) \in Hours
BY GenConstantsOK DEF Understood, Decode, Hours

\* There is nothing yet.
LEMMA GenInitTyped == GenInit => GenInv
BY Calendar DEF GenInit, NoAnswerYet, GenInv, GenTypeOK, FormsRead, HoursRead,
                UnusedLinksUndated, GenType, Dates

\* An answer makes the request's locals blank.
LEMMA AnswerTyped ==
    ASSUME GenInv, NEW r \in GenRequests,
           NEW a \in {"created", "unauthorized", "server_error", "bad_request",
                      "conflict", "cut_off"},
           Answer(r, a)
    PROVE  gen' \in [GenRequests -> GenType] /\ FormsRead'
<1>1. NoAnswerYet \in GenType
    BY DEF NoAnswerYet, GenType
<1>2. /\ [NoAnswerYet EXCEPT !.pc = "done", !.answer = a] \in GenType
      /\ [NoAnswerYet EXCEPT !.pc = "done", !.answer = a].pc # "create"
  <2>1. a \in {"none", "created", "unauthorized", "server_error",
               "bad_request", "conflict", "cut_off"}
      OBVIOUS
  <2>2. QED
      BY <1>1, <2>1 DEF GenType
<1>3. gen \in [GenRequests -> GenType] /\ FormsRead
    BY DEF GenInv, GenTypeOK
<1>4. PICK answer \in GenType : /\ answer.pc # "create"
                                /\ gen' = [gen EXCEPT ![r] = answer]
    BY <1>2 DEF Answer
<1>5. gen' \in [GenRequests -> GenType]
    BY <1>3, <1>4
<1>6. FormsRead'
    BY <1>3, <1>4 DEF FormsRead
<1>7. QED
    BY <1>5, <1>6

\* The administrator changes accounts, and what has been held.
LEMMA AdministerTyped ==
    ASSUME GenInv, Administer
    PROVE  GenInv'
<1>1. PICK u \in Users, p \in Passwords : CreateAccount(u, p) \/ ChangePassword(u, p)
    BY DEF Administer
<1>2. NowHeld(u, p) /\ UNCHANGED <<now, links>>
    BY <1>1 DEF CreateAccount, ChangePassword
<1>3. account' \in [DOMAIN account' -> Passwords] /\ DOMAIN account' \subseteq Users
    BY <1>1 DEF CreateAccount, ChangePassword, GenInv, GenTypeOK
<1>4. gen' \in [GenRequests -> GenType]
  <2>1. SUFFICES ASSUME NEW r \in GenRequests PROVE gen'[r] \in GenType
      BY <1>2 DEF NowHeld
  <2>2. \E b \in BOOLEAN : gen'[r] = [gen[r] EXCEPT !.held = b]
      BY <1>2 DEF NowHeld, GenInv, GenTypeOK, GenType
  <2>3. QED
      BY <2>2 DEF GenInv, GenTypeOK, GenType
<1>5. FormsRead'
    BY <1>2 DEF NowHeld, GenInv, GenTypeOK, GenType, FormsRead
<1>6. QED
    BY <1>2, <1>3, <1>4, <1>5 DEF GenInv, GenTypeOK, HoursRead, UnusedLinksUndated

\* What a step before the row is made changes: the request alone.
LEMMA RequestTyped ==
    ASSUME GenInv, NEW r \in GenRequests, Arrive(r) \/ Authenticate(r) \/ ReadForm(r)
    PROVE  GenInv'
<1>1. UNCHANGED <<now, account, links>>
    BY DEF Arrive, Authenticate, ReadForm
<1>2. gen' \in [GenRequests -> GenType] /\ FormsRead'
  <2>1. CASE Arrive(r)
    <3>1. PICK u \in Users \cup {NULL}, p \in Passwords \cup {NULL}, b \in BOOLEAN :
              gen' = [gen EXCEPT ![r].pc = "arrived",
                                 ![r].user = u,
                                 ![r].password = p,
                                 ![r].held = b]
        BY <2>1 DEF Arrive
    <3>2. gen[r] \in GenType
        BY DEF GenInv, GenTypeOK
    <3>3. [gen[r] EXCEPT !.pc = "arrived", !.user = u, !.password = p, !.held = b] \in GenType
        BY <3>2 DEF GenType
    <3>4. QED
        BY <3>1, <3>2, <3>3 DEF GenInv, GenTypeOK, GenType, FormsRead
  <2>2. CASE Authenticate(r) /\ \E a \in {"unauthorized", "server_error"} : Answer(r, a)
      BY <2>2, AnswerTyped
  <2>3. CASE Authenticate(r) /\ gen' = [gen EXCEPT ![r].pc = "body",
                                                 ![r].user = NULL,
                                                 ![r].password = NULL]
    <3>1. gen[r] \in GenType
        BY DEF GenInv, GenTypeOK
    <3>2. [gen[r] EXCEPT !.pc = "body", !.user = NULL, !.password = NULL] \in GenType
        BY <3>1 DEF GenType
    <3>3. QED
        BY <2>3, <3>1, <3>2 DEF GenInv, GenTypeOK, GenType, FormsRead
  <2>4. CASE ReadForm(r)
    <3>1. PICK path \in Paths, field \in FieldsOf(r), h \in ValidHours :
              IF Understood(field)
              THEN gen' = [gen EXCEPT ![r].pc = "create",
                                      ![r].path = path,
                                      ![r].content = Decode(field),
                                      ![r].valid = h]
              ELSE Answer(r, "bad_request")
        BY <2>4 DEF ReadForm
    <3>2. CASE ~Understood(field)
        BY <3>1, <3>2, AnswerTyped
    <3>3. CASE Understood(field)
      <4>1. Decode(field) \in Hours
          BY <3>3, DecodeReads, FieldsAreFields
      <4>2. QED
          BY <3>1, <3>3, <4>1 DEF GenInv, GenTypeOK, GenType, FormsRead, Hours
    <3>4. QED
        BY <3>2, <3>3
  <2>5. QED
      BY <2>1, <2>2, <2>3, <2>4 DEF Authenticate
<1>3. QED
    BY <1>1, <1>2 DEF GenInv, GenTypeOK, HoursRead, UnusedLinksUndated

\* A new row holds dates of the calendar and hours of the form.
LEMMA MakeLinkTyped ==
    ASSUME GenInv, NEW r \in GenRequests, MakeLink(r)
    PROVE  GenInv'
<1>1. /\ gen[r].path \in Paths /\ gen[r].valid \in ValidHours /\ gen[r].valid \in Nat
      /\ gen[r].content \in Hours /\ gen[r].held \in BOOLEAN
      /\ now \in Dates /\ UNCHANGED <<now, account>>
    BY GenConstantsOK DEF MakeLink, GenInv, GenTypeOK, GenType, FormsRead
<1>2. gen' \in [GenRequests -> GenType] /\ FormsRead'
    BY AnswerTyped DEF MakeLink
<1>3. CASE UNCHANGED links
    BY <1>1, <1>2, <1>3 DEF GenInv, GenTypeOK, HoursRead, UnusedLinksUndated
<1>4. CASE \E until \in Dates :
              links' = [l \in DOMAIN links \cup {r} |->
                   IF l # r THEN links[l] ELSE
                   [path |-> gen[r].path,
                    valid_until |-> until,
                    content_expires_after_hours |-> gen[r].content,
                    used_at |-> NULL,
                    content_expires_at |-> NULL,
                    started |-> FALSE,
                    created |-> now,
                    asked |-> gen[r].valid,
                    trusted |-> gen[r].held]]
  <2>1. PICK until \in Dates :
              links' = [l \in DOMAIN links \cup {r} |->
                   IF l # r THEN links[l] ELSE
                   [path |-> gen[r].path,
                    valid_until |-> until,
                    content_expires_after_hours |-> gen[r].content,
                    used_at |-> NULL,
                    content_expires_at |-> NULL,
                    started |-> FALSE,
                    created |-> now,
                    asked |-> gen[r].valid,
                    trusted |-> gen[r].held]]
      BY <1>4
  <2>2. links'[r] \in LinkType /\ links'[r].content_expires_after_hours \in Hours
            /\ links'[r].content_expires_at = NULL
      BY <1>1, <2>1 DEF LinkType, Hours
  <2>3. DOMAIN links' = DOMAIN links \cup {r} /\ \A l \in DOMAIN links : l # r => links'[l] = links[l]
      BY <2>1
  <2>4. links' \in [DOMAIN links' -> LinkType] /\ DOMAIN links' \subseteq GenRequests
      BY <2>1, <2>2, <2>3 DEF GenInv, GenTypeOK
  <2>5. HoursRead' /\ UnusedLinksUndated'
      BY <2>2, <2>3 DEF GenInv, HoursRead, UnusedLinksUndated
  <2>6. QED
      BY <1>1, <1>2, <2>4, <2>5 DEF GenInv, GenTypeOK
<1>5. QED
  <2>1. PICK s \in SecondsOf(gen[r].valid) :
            \/ UNCHANGED links
            \/ Plus(now, s) # NULL
               /\ links' = [l \in DOMAIN links \cup {r} |->
                   IF l # r THEN links[l] ELSE
                   [path |-> gen[r].path,
                    valid_until |-> Plus(now, s),
                    content_expires_after_hours |-> gen[r].content,
                    used_at |-> NULL,
                    content_expires_at |-> NULL,
                    started |-> FALSE,
                    created |-> now,
                    asked |-> gen[r].valid,
                    trusted |-> gen[r].held]]
      BY DEF MakeLink
  <2>2. Plus(now, s) # NULL => Plus(now, s) \in Dates
      BY <1>1, SecondsFit, SumFits
  <2>3. QED
      BY <1>3, <1>4, <2>1, <2>2

\* An upload dates the row when it marks it used, or not at all.
LEMMA UseLinkTyped ==
    ASSUME GenInv, NEW l \in DOMAIN links, UseLink(l)
    PROVE  GenInv'
<1>1. /\ links[l] \in LinkType /\ links[l].content_expires_after_hours \in Hours
      /\ links \in [DOMAIN links -> LinkType] /\ now \in Dates
      /\ UNCHANGED <<now, account, gen>>
    BY DEF GenInv, GenTypeOK, HoursRead, UseLink, StartUpload, SealLink
<1>2. PICK link \in LinkType :
          /\ links' = [links EXCEPT ![l] = link]
          /\ link.content_expires_after_hours = links[l].content_expires_after_hours
          /\ link.used_at = NULL => link.content_expires_at = NULL
  <2>1. CASE StartUpload(l)
    <3>1. [links[l] EXCEPT !.started = TRUE] \in LinkType
        BY <1>1 DEF LinkType
    <3>2. QED
        BY <1>1, <2>1, <3>1 DEF StartUpload, LinkType, GenInv, UnusedLinksUndated
  <2>2. CASE links' = [links EXCEPT ![l].used_at = now]
    <3>1. PICK link : link = [links[l] EXCEPT !.used_at = now]
        OBVIOUS
    <3>2. link \in LinkType
        BY <1>1, <3>1 DEF LinkType
    <3>3. link.used_at # NULL
        BY <1>1, <3>1, NullIsNoDate DEF LinkType, Dates
    <3>4. link.content_expires_after_hours = links[l].content_expires_after_hours
        BY <1>1, <3>1 DEF LinkType
    <3>5. links' = [links EXCEPT ![l] = link]
        BY <1>1, <2>2, <3>1
    <3>6. QED
        BY <3>2, <3>3, <3>4, <3>5
  <2>3. CASE \E date \in Dates : links' = [links EXCEPT ![l].used_at = now,
                                                      ![l].content_expires_at = date]
    <3>1. PICK date \in Dates : links' = [links EXCEPT ![l].used_at = now,
                                                     ![l].content_expires_at = date]
        BY <2>3
    <3>2. PICK link : link = [links[l] EXCEPT !.used_at = now, !.content_expires_at = date]
        OBVIOUS
    <3>3. link \in LinkType
        BY <1>1, <3>2 DEF LinkType
    <3>4. link.used_at # NULL
        BY <1>1, <3>2, NullIsNoDate DEF LinkType, Dates
    <3>5. link.content_expires_after_hours = links[l].content_expires_after_hours
        BY <1>1, <3>2 DEF LinkType
    <3>6. links' = [links EXCEPT ![l] = link]
        BY <1>1, <3>1, <3>2
    <3>7. QED
        BY <3>3, <3>4, <3>5, <3>6
  <2>4. ASSUME NEW h, h = links[l].content_expires_after_hours, h # NULL,
               NEW s \in SecondsOf(AsWord(h)), Plus(now, s) # NULL
        PROVE  Plus(now, s) \in Dates
    <3>1. h \in Int /\ IsHalfWord(h)
        BY <1>1, <2>4 DEF Hours
    <3>2. QED
        BY <1>1, <2>4, <3>1, WordOfHours, SecondsFit, SumFits
  <2>5. QED
      BY <2>1, <2>2, <2>3, <2>4 DEF UseLink, SealLink
<1>3. QED
    BY <1>1, <1>2 DEF GenInv, GenTypeOK, FormsRead, HoursRead, UnusedLinksUndated

\* Every step keeps the types.
LEMMA GenStepTyped == GenInv /\ [GenNext]_genVars => GenInv'
<1>1. SUFFICES ASSUME GenInv, [GenNext]_genVars PROVE GenInv'
    OBVIOUS
<1>2. CASE Administer
    BY <1>1, <1>2, AdministerTyped
<1>3. ASSUME NEW r \in GenRequests, HandleGen(r) PROVE GenInv'
    BY <1>1, <1>3, RequestTyped, MakeLinkTyped DEF HandleGen
<1>4. ASSUME NEW l \in DOMAIN links, UseLink(l) PROVE GenInv'
    BY <1>1, <1>4, UseLinkTyped
<1>5. CASE DeleteExpired
    BY <1>1, <1>5 DEF DeleteExpired, GenInv, GenTypeOK, FormsRead, HoursRead,
                      UnusedLinksUndated
<1>6. CASE TimePasses
    BY <1>1, <1>6, Calendar DEF TimePasses, GenInv, GenTypeOK, FormsRead, HoursRead,
                                UnusedLinksUndated, Dates
<1>7. CASE UNCHANGED genVars
    BY <1>1, <1>7 DEF genVars, GenInv, GenTypeOK, FormsRead, HoursRead, UnusedLinksUndated
<1>8. QED
    BY <1>1, <1>2, <1>3, <1>4, <1>5, <1>6, <1>7 DEF GenNext

\* Every row and every form has its type: no hours that a form may hold, in
\* words of any width, make a date that the calendar does not have.
THEOREM GenTypeCorrect == GenSpec => []GenTypeOK
<1>1. GenInv => GenTypeOK
    BY DEF GenInv
<1>2. QED
    BY <1>1, GenInitTyped, GenStepTyped, PTL DEF GenSpec

-----------------------------------------------------------------------------
(* Who creates links                                                       *)

\* A password that would be accepted now has been held, and what comes
\* after the extractor runs only for such a one.
HeldInv ==
    \A r \in GenRequests :
        /\ gen[r].pc = "arrived" /\ Verified(gen[r].user, gen[r].password) => gen[r].held
        /\ gen[r].pc \in {"body", "create"} => gen[r].held

AdminInv == HeldInv /\ LinksComeFromAdmins

\* A request that is answered holds nothing.
LEMMA AnswerKeepsHeld ==
    ASSUME GenTypeOK, HeldInv, NEW r \in GenRequests, NEW a, Answer(r, a), UNCHANGED account
    PROVE  HeldInv'
<1>1. gen'[r].pc = "done"
    BY DEF Answer, NoAnswerYet, GenTypeOK
<1>2. \A q \in GenRequests : q # r => gen'[q] = gen[q]
    BY DEF Answer, GenTypeOK
<1>3. QED
    BY <1>1, <1>2 DEF HeldInv, Verified

\* A password that becomes right counts as held by the requests that wait.
LEMMA AdministerKeepsHeld ==
    ASSUME GenTypeOK, HeldInv, Administer
    PROVE  HeldInv'
<1>1. PICK u \in Users, p \in Passwords : CreateAccount(u, p) \/ ChangePassword(u, p)
    BY DEF Administer
<1>2. /\ NowHeld(u, p)
      /\ account'[u] = p
      /\ \A x : x # u => /\ x \in DOMAIN account' <=> x \in DOMAIN account
                         /\ x \in DOMAIN account => account'[x] = account[x]
    BY <1>1 DEF CreateAccount, ChangePassword, GenTypeOK
<1>3. SUFFICES ASSUME NEW r \in GenRequests
               PROVE  /\ (/\ gen'[r].pc = "arrived"
                          /\ gen'[r].password # NULL
                          /\ gen'[r].user \in DOMAIN account'
                          /\ account'[gen'[r].user] = gen'[r].password) => gen'[r].held
                      /\ gen'[r].pc \in {"body", "create"} => gen'[r].held
    BY DEF HeldInv, Verified
<1>4. PICK b \in BOOLEAN :
          /\ gen'[r] = [gen[r] EXCEPT !.held = b]
          /\ gen[r].held => b
          /\ gen[r].pc = "arrived" /\ gen[r].user = u /\ gen[r].password = p => b
    BY <1>2 DEF NowHeld, GenTypeOK, GenType
<1>5. /\ gen'[r].pc = gen[r].pc /\ gen'[r].user = gen[r].user
      /\ gen'[r].password = gen[r].password
      /\ gen[r].held => gen'[r].held
      /\ gen[r].pc = "arrived" /\ gen[r].user = u /\ gen[r].password = p => gen'[r].held
  <2>1. gen[r] \in GenType
      BY DEF GenTypeOK
  <2>2. gen'[r].held = b
      BY <1>4, <2>1 DEF GenType
  <2>3. /\ gen'[r].pc = gen[r].pc /\ gen'[r].user = gen[r].user
        /\ gen'[r].password = gen[r].password
      BY <1>4, <2>1 DEF GenType
  <2>4. QED
      BY ONLY <1>4, <2>2, <2>3
<1>6. CASE gen[r].user = u
    BY <1>2, <1>5, <1>6 DEF HeldInv
<1>7. CASE gen[r].user # u
  <2>1. /\ gen'[r].user \in DOMAIN account' => gen[r].user \in DOMAIN account
        /\ gen[r].user \in DOMAIN account => account'[gen[r].user] = account[gen[r].user]
      BY <1>2, <1>5, <1>7
  <2>2. QED
      BY <1>5, <2>1 DEF HeldInv, Verified
<1>8. QED
    BY <1>6, <1>7

\* A request goes past the extractor only with a password that it has held.
LEMMA RequestKeepsHeld ==
    ASSUME GenTypeOK, HeldInv, NEW r \in GenRequests, HandleGen(r)
    PROVE  HeldInv'
<1>1. UNCHANGED account
    BY DEF HandleGen, Arrive, Authenticate, ReadForm, MakeLink
<1>2. CASE \E a : Answer(r, a)
    BY <1>1, <1>2, AnswerKeepsHeld
<1>3. CASE Arrive(r)
  <2>1. PICK u \in Users \cup {NULL}, p \in Passwords \cup {NULL} :
            gen' = [gen EXCEPT ![r].pc = "arrived",
                               ![r].user = u,
                               ![r].password = p,
                               ![r].held = u \in DOMAIN account /\ account[u] = p]
      BY <1>3 DEF Arrive
  <2>2. /\ gen'[r].pc = "arrived" /\ gen'[r].user = u /\ gen'[r].password = p
        /\ u \in DOMAIN account /\ account[u] = p => gen'[r].held
        /\ \A q \in GenRequests : q # r => gen'[q] = gen[q]
      BY <2>1 DEF GenTypeOK, GenType
  <2>3. QED
      BY <1>1, <2>2 DEF HeldInv, Verified
<1>4. CASE Authenticate(r) /\ ~\E a : Answer(r, a)
  <2>1. /\ gen[r].pc = "arrived" /\ Verified(gen[r].user, gen[r].password)
        /\ gen' = [gen EXCEPT ![r].pc = "body",
                              ![r].user = NULL,
                              ![r].password = NULL]
      BY <1>4 DEF Authenticate
  <2>2. /\ gen'[r].pc = "body" /\ gen'[r].held = gen[r].held
        /\ \A q \in GenRequests : q # r => gen'[q] = gen[q]
      BY <2>1 DEF GenTypeOK, GenType
  <2>3. QED
      BY <1>1, <2>1, <2>2 DEF HeldInv, Verified
<1>5. CASE ReadForm(r) /\ ~\E a : Answer(r, a)
  <2>1. PICK path \in Paths, field \in FieldsOf(r), h \in ValidHours :
            gen' = [gen EXCEPT ![r].pc = "create",
                               ![r].path = path,
                               ![r].content = Decode(field),
                               ![r].valid = h]
      BY <1>5 DEF ReadForm
  <2>2. /\ gen'[r].pc = "create" /\ gen'[r].held = gen[r].held
        /\ \A q \in GenRequests : q # r => gen'[q] = gen[q]
      BY <2>1 DEF GenTypeOK, GenType
  <2>3. QED
      BY <1>1, <1>5, <2>2 DEF HeldInv, Verified, ReadForm
<1>6. QED
    BY <1>2, <1>3, <1>4, <1>5 DEF HandleGen, MakeLink

\* A row gets its trust from the request that makes it and keeps it.
LEMMA TrustStays ==
    ASSUME GenTypeOK, AdminInv, GenNext
    PROVE  LinksComeFromAdmins'
<1>1. CASE UNCHANGED links
    BY <1>1 DEF AdminInv, LinksComeFromAdmins
<1>2. CASE \E r \in GenRequests : MakeLink(r) /\ ~UNCHANGED links
  <2>1. PICK r \in GenRequests : MakeLink(r) /\ ~UNCHANGED links
      BY <1>2
  <2>2. /\ gen[r].pc = "create"
        /\ links'[r].trusted = gen[r].held
        /\ DOMAIN links' = DOMAIN links \cup {r}
        /\ \A l \in DOMAIN links : l # r => links'[l] = links[l]
      BY <2>1 DEF MakeLink
  <2>3. QED
      BY <2>2 DEF AdminInv, HeldInv, LinksComeFromAdmins
<1>3. CASE \E l \in DOMAIN links : UseLink(l)
  <2>1. DOMAIN links' = DOMAIN links
      BY <1>3 DEF UseLink, StartUpload, SealLink
  <2>2. PICK l \in DOMAIN links : UseLink(l)
      BY <1>3
  <2>3. links'[l].trusted = links[l].trusted
    <3>1. links[l] \in LinkType
        BY DEF GenTypeOK
    <3>2. CASE StartUpload(l)
        BY <3>1, <3>2 DEF StartUpload, LinkType
    <3>3. CASE links' = [links EXCEPT ![l].used_at = now]
        BY <3>1, <3>3 DEF LinkType
    <3>4. CASE \E date : links' = [links EXCEPT ![l].used_at = now,
                                               ![l].content_expires_at = date]
        BY <3>1, <3>4 DEF LinkType
    <3>5. QED
        BY <2>2, <3>2, <3>3, <3>4 DEF UseLink, SealLink
  <2>4. \A k \in DOMAIN links : k # l => links'[k] = links[k]
      BY <2>2 DEF UseLink, StartUpload, SealLink
  <2>5. QED
      BY <2>1, <2>3, <2>4 DEF AdminInv, LinksComeFromAdmins
<1>4. CASE DeleteExpired
    BY <1>4 DEF DeleteExpired, AdminInv, LinksComeFromAdmins
<1>5. QED
    BY <1>1, <1>2, <1>3, <1>4
       DEF GenNext, Administer, CreateAccount, ChangePassword, HandleGen, Arrive,
           Authenticate, ReadForm, TimePasses

\* However passwords change under a request that waits, no link is created
\* for one whose password was never right since it arrived.
THEOREM OnlyAdminsCreate == GenSpec => []LinksComeFromAdmins
<1>1. GenInit => AdminInv
    BY DEF GenInit, NoAnswerYet, AdminInv, HeldInv, LinksComeFromAdmins
<1>2. GenTypeOK /\ AdminInv /\ [GenNext]_genVars => AdminInv'
  <2>1. SUFFICES ASSUME GenTypeOK, AdminInv, [GenNext]_genVars PROVE AdminInv'
      OBVIOUS
  <2>2. CASE UNCHANGED genVars
      BY <2>1, <2>2 DEF genVars, AdminInv, HeldInv, LinksComeFromAdmins, Verified
  <2>3. ASSUME GenNext PROVE HeldInv'
    <3>1. CASE UNCHANGED <<account, gen>>
        BY <2>1, <3>1 DEF AdminInv, HeldInv, Verified
    <3>2. CASE Administer \/ \E r \in GenRequests : HandleGen(r)
        BY <2>1, <3>2, AdministerKeepsHeld, RequestKeepsHeld DEF AdminInv
    <3>3. QED
        BY <2>3, <3>1, <3>2
           DEF GenNext, UseLink, StartUpload, SealLink, DeleteExpired, TimePasses
  <2>4. QED
      BY <2>1, <2>2, <2>3, TrustStays DEF AdminInv
<1>3. AdminInv => LinksComeFromAdmins
    BY DEF AdminInv
<1>4. QED
    BY <1>1, <1>2, <1>3, GenTypeCorrect, PTL DEF GenSpec

-----------------------------------------------------------------------------
(* How long links and their content last                                   *)

Hour == HourSeconds * FractionsInSecond

LinkAsAsked(link) ==
    HourSeconds * link.asked < WordSize => link.valid_until = link.created + Hour * link.asked

ContentAsAsked(link) ==
    LET h == link.content_expires_after_hours IN
    link.used_at # NULL /\ h # NULL /\ HourSeconds * AsWord(h) < WordSize =>
        /\ h >= 0
        /\ link.content_expires_at = link.used_at + Hour * h

\* The property, link by link.
LEMMA LifetimesByLink ==
    LifetimesAsAsked <=> \A l \in DOMAIN links : LinkAsAsked(links[l]) /\ ContentAsAsked(links[l])
BY DEF LifetimesAsAsked, LinkAsAsked, ContentAsAsked, Hour

\* Seconds of hours in fractions are hours in fractions.
LEMMA HoursAsFractions ==
    ASSUME NEW h \in Nat
    PROVE  FractionsInSecond * (HourSeconds * h) = Hour * h
<1>1. \A a, b, c \in Nat : a * (b * c) = (b * a) * c
    OBVIOUS
<1>2. QED
    BY <1>1, Calendar, GenConstantsOK DEF Hour

\* A new row ends when the form asked, or the seconds did not fit.
LEMMA MakeLinkAsAsked ==
    ASSUME GenInv, LifetimesAsAsked, NEW r \in GenRequests, MakeLink(r)
    PROVE  LifetimesAsAsked'
<1>1. CASE UNCHANGED links
    BY <1>1 DEF LifetimesAsAsked, AsWord
<1>2. CASE ~UNCHANGED links
  <2>1. PICK s \in SecondsOf(gen[r].valid) :
            /\ Plus(now, s) # NULL
            /\ links' = [l \in DOMAIN links \cup {r} |->
                   IF l # r THEN links[l] ELSE
                   [path |-> gen[r].path,
                    valid_until |-> Plus(now, s),
                    content_expires_after_hours |-> gen[r].content,
                    used_at |-> NULL,
                    content_expires_at |-> NULL,
                    started |-> FALSE,
                    created |-> now,
                    asked |-> gen[r].valid,
                    trusted |-> gen[r].held]]
      BY <1>2 DEF MakeLink
  <2>2. gen[r].valid \in Nat /\ now \in Dates
      BY GenConstantsOK DEF MakeLink, GenInv, GenTypeOK, FormsRead
  <2>3. /\ links'[r].valid_until = Plus(now, s) /\ links'[r].created = now
        /\ links'[r].asked = gen[r].valid /\ links'[r].used_at = NULL
        /\ DOMAIN links' = DOMAIN links \cup {r}
        /\ \A l \in DOMAIN links : l # r => links'[l] = links[l]
      BY <2>1
  <2>4. Plus(now, s) = now + FractionsInSecond * s
      BY <2>1, <2>2, SecondsFit, SumFits
  <2>5. LinkAsAsked(links'[r])
      BY <2>2, <2>3, <2>4, SecondsFit, HoursAsFractions DEF LinkAsAsked
  <2>6. ContentAsAsked(links'[r])
      BY <2>3 DEF ContentAsAsked
  <2>7. \A l \in DOMAIN links' : LinkAsAsked(links'[l]) /\ ContentAsAsked(links'[l])
      BY <2>3, <2>5, <2>6, LifetimesByLink
  <2>8. QED
      BY <2>7 DEF LifetimesAsAsked, LinkAsAsked, ContentAsAsked, Hour, AsWord
<1>3. QED
    BY <1>1, <1>2

\* The date of the content is right, or the seconds did not fit.
LEMMA UseLinkAsAsked ==
    ASSUME GenInv, LifetimesAsAsked, NEW l \in DOMAIN links, UseLink(l)
    PROVE  LifetimesAsAsked'
<1>1. /\ links[l] \in LinkType /\ links[l].content_expires_after_hours \in Hours
      /\ now \in Dates
      /\ LinkAsAsked(links[l]) /\ ContentAsAsked(links[l])
    BY LifetimesByLink DEF GenInv, GenTypeOK, HoursRead
<1>2. /\ DOMAIN links' = DOMAIN links
      /\ \A k \in DOMAIN links : k # l => links'[k] = links[k]
    BY DEF UseLink, StartUpload, SealLink
<1>3. /\ links'[l].asked = links[l].asked
      /\ links'[l].valid_until = links[l].valid_until
      /\ links'[l].created = links[l].created
      /\ links'[l].content_expires_after_hours = links[l].content_expires_after_hours
  <2>1. CASE StartUpload(l)
      BY <1>1, <2>1 DEF StartUpload, LinkType
  <2>2. CASE links' = [links EXCEPT ![l].used_at = now]
      BY <1>1, <2>2 DEF LinkType
  <2>3. CASE \E date : links' = [links EXCEPT ![l].used_at = now,
                                             ![l].content_expires_at = date]
      BY <1>1, <2>3 DEF LinkType
  <2>4. QED
      BY <2>1, <2>2, <2>3 DEF UseLink, SealLink
<1>4. LinkAsAsked(links'[l])
    BY <1>1, <1>3 DEF LinkAsAsked
<1>5. ContentAsAsked(links'[l])
  <2>1. CASE StartUpload(l)
    <3>1. links'[l].used_at = links[l].used_at
              /\ links'[l].content_expires_at = links[l].content_expires_at
        BY <1>1, <2>1 DEF StartUpload, LinkType
    <3>2. QED
        BY <1>1, <1>3, <3>1 DEF ContentAsAsked
  <2>2. CASE links[l].content_expires_after_hours = NULL
      BY <1>3, <2>2 DEF ContentAsAsked
  <2>3. ASSUME NEW h, h = links[l].content_expires_after_hours, h # NULL,
               NEW s \in SecondsOf(AsWord(h)), Plus(now, s) # NULL,
               links' = [links EXCEPT ![l].used_at = now,
                                      ![l].content_expires_at = Plus(now, s)]
        PROVE  ContentAsAsked(links'[l])
    <3>1. h \in Int /\ IsHalfWord(h)
        BY <1>1, <2>3 DEF Hours
    <3>2. AsWord(h) \in Nat
        BY <3>1, WordOfHours
    <3>3. links'[l].used_at = now /\ links'[l].content_expires_at = Plus(now, s)
        BY <1>1, <2>3 DEF LinkType
    <3>4. Plus(now, s) = now + FractionsInSecond * s
        BY <1>1, <2>3, <3>2, SecondsFit, SumFits
    <3>5. ASSUME HourSeconds * AsWord(h) < WordSize
          PROVE  h >= 0 /\ s = HourSeconds * h
      <4>1. HourSeconds * AsWord(h) \in Nat
          BY <3>2, GenConstantsOK, ProductOfNaturals
      <4>2. h >= 0
          BY <3>1, <3>5, <4>1, WordOfHours, GenConstantsOK
      <4>3. QED
          BY <2>3, <3>1, <3>2, <3>5, <4>2, WordOfHours, SecondsFit
    <3>6. HourSeconds * AsWord(h) < WordSize => h >= 0 /\ Plus(now, s) = now + Hour * h
        BY <3>1, <3>4, <3>5, HoursAsFractions
    <3>7. QED
        BY <1>3, <2>3, <3>3, <3>6 DEF ContentAsAsked
  <2>4. QED
      BY <2>1, <2>2, <2>3 DEF UseLink, SealLink
<1>6. \A k \in DOMAIN links' : LinkAsAsked(links'[k]) /\ ContentAsAsked(links'[k])
    BY <1>2, <1>4, <1>5, LifetimesByLink
<1>7. QED
    BY <1>6 DEF LifetimesAsAsked, LinkAsAsked, ContentAsAsked, Hour, AsWord

\* Whatever the widths of the words and of the calendar, what is stored is
\* what was asked for, or the product of hours and seconds did not fit.
THEOREM LifetimesKept == GenSpec => []LifetimesAsAsked
<1>1. GenInit => LifetimesAsAsked
    BY DEF GenInit, LifetimesAsAsked
<1>2. GenInv /\ LifetimesAsAsked /\ [GenNext]_genVars => LifetimesAsAsked'
  <2>1. SUFFICES ASSUME GenInv, LifetimesAsAsked, [GenNext]_genVars PROVE LifetimesAsAsked'
      OBVIOUS
  <2>2. CASE UNCHANGED links
      BY <2>1, <2>2 DEF LifetimesAsAsked, AsWord
  <2>3. CASE \E r \in GenRequests : MakeLink(r)
      BY <2>1, <2>3, MakeLinkAsAsked
  <2>4. CASE \E l \in DOMAIN links : UseLink(l)
      BY <2>1, <2>4, UseLinkAsAsked
  <2>5. CASE DeleteExpired
      BY <2>1, <2>5 DEF DeleteExpired, LifetimesAsAsked, AsWord
  <2>6. QED
      BY <2>1, <2>2, <2>3, <2>4, <2>5
         DEF GenNext, genVars, Administer, CreateAccount, ChangePassword, HandleGen,
             Arrive, Authenticate, ReadForm, TimePasses
<1>3. QED
    BY <1>1, <1>2, GenInitTyped, GenStepTyped, PTL DEF GenSpec

-----------------------------------------------------------------------------
(* Dates as texts                                                          *)

\* Two digits order numbers.
LEMMA DigitsOrder ==
    ASSUME NEW s \in Nat, NEW t \in Nat
    PROVE  /\ s \div Base \in Nat /\ s % Base \in Nat
           /\ s \div Base < t \div Base => s < t
           /\ s \div Base = t \div Base /\ s % Base < t % Base => s < t
           /\ s \div Base = t \div Base /\ s % Base = t % Base => s = t
<1>1. Base \in Nat \ {0}
    BY GenConstantsOK
<1>2. ASSUME NEW n \in Nat
      PROVE  /\ n \div Base \in Nat /\ n % Base \in 0..Base - 1
             /\ n = Base * (n \div Base) + (n % Base)
    BY <1>1
<1>3. ASSUME NEW p \in Nat, NEW q \in Nat, p < q PROVE Base * p + Base <= Base * q
    BY <1>1, <1>3
<1>4. Base * (s \div Base) \in Nat /\ Base * (t \div Base) \in Nat
    BY <1>1, <1>2, ProductOfNaturals
<1>5. s \div Base < t \div Base => s < t
    BY <1>1, <1>2, <1>3, <1>4
<1>6. QED
    BY <1>2, <1>4, <1>5

\* Seconds count from the first date.
LEMMA SecondIsNat == ASSUME NEW date \in Dates PROVE Second(date) \in Nat
BY Calendar DEF Second, Dates

\* A text starts with the two digits of its second.
LEMMA TextStarts ==
    ASSUME NEW date \in Dates
    PROVE  /\ Text(date)[1] = Second(date) \div Base
           /\ Text(date)[2] = Second(date) % Base
           /\ \E n \in Nat : n >= 2 /\ DOMAIN Text(date) = 1..n
<1> DEFINE s == Second(date)
           digits == <<s \div Base, s % Base>>
           fraction == Fraction(date)
<1>1. s \div Base \in Nat /\ s % Base \in Nat
    BY SecondIsNat, DigitsOrder
<1>2. digits \in Seq(Nat) /\ Len(digits) = 2 /\ digits[1] = s \div Base /\ digits[2] = s % Base
    BY <1>1
<1>3. fraction \in Seq(Nat)
  <2>1. 1 + (date % FractionsInSecond) \in 1..Len(Fractions)
      BY Calendar DEF Dates, FractionsInSecond
  <2>2. fraction \in Seq(0..9)
      BY <2>1, GenConstantsOK, LenProperties DEF Fraction
  <2>3. QED
      BY <2>2, SeqMonotonic
<1>4. <<Z>> \in Seq(Nat) /\ Len(<<Z>>) = 1
    BY DEF Z
<1>5. /\ digits \o fraction \in Seq(Nat)
      /\ Len(digits \o fraction) = 2 + Len(fraction) /\ Len(fraction) \in Nat
      /\ (digits \o fraction)[1] = digits[1] /\ (digits \o fraction)[2] = digits[2]
    BY <1>2, <1>3, ConcatProperties, LenProperties
<1>6. /\ digits \o fraction \o <<Z>> \in Seq(Nat)
      /\ Len(digits \o fraction \o <<Z>>) = 3 + Len(fraction)
      /\ (digits \o fraction \o <<Z>>)[1] = digits[1]
      /\ (digits \o fraction \o <<Z>>)[2] = digits[2]
    BY <1>4, <1>5, ConcatProperties
<1>7. Text(date) = digits \o fraction \o <<Z>>
    BY DEF Text
<1>8. QED
    BY <1>2, <1>5, <1>6, <1>7, LenProperties

\* The order of the texts and that of the seconds never contradict.
LEMMA TextsOrder ==
    ASSUME NEW a \in Dates, NEW b \in Dates
    PROVE  /\ TextLess(a, b) => Second(a) <= Second(b)
           /\ ~TextLess(b, a) => Second(a) <= Second(b)
<1>1. Second(a) \in Nat /\ Second(b) \in Nat
    BY SecondIsNat
<1>2. PICK m \in Nat : m >= 2 /\ DOMAIN Text(a) = 1..m
    BY TextStarts
<1>3. PICK n \in Nat : n >= 2 /\ DOMAIN Text(b) = 1..n
    BY TextStarts
<1>4. /\ Text(a)[1] = Second(a) \div Base /\ Text(a)[2] = Second(a) % Base
      /\ Text(b)[1] = Second(b) \div Base /\ Text(b)[2] = Second(b) % Base
      /\ Text(a)[1] \in Nat /\ Text(a)[2] \in Nat
      /\ Text(b)[1] \in Nat /\ Text(b)[2] \in Nat
  <2>1. /\ Text(a)[1] = Second(a) \div Base /\ Text(a)[2] = Second(a) % Base
        /\ Text(b)[1] = Second(b) \div Base /\ Text(b)[2] = Second(b) % Base
      BY TextStarts
  <2>2. /\ Second(a) \div Base \in Nat /\ Second(a) % Base \in Nat
        /\ Second(b) \div Base \in Nat /\ Second(b) % Base \in Nat
      BY <1>1, DigitsOrder
  <2>3. QED
      BY <2>1, <2>2
<1>5. ASSUME TextLess(a, b) PROVE Second(a) <= Second(b)
  <2>1. PICK i \in DOMAIN Text(a) \cap DOMAIN Text(b) :
            Text(a)[i] < Text(b)[i] /\ \A j \in 1..i - 1 : Text(a)[j] = Text(b)[j]
      BY <1>5 DEF TextLess
  <2>2. CASE i = 1
      BY <1>1, <1>4, <2>1, <2>2, DigitsOrder
  <2>3. CASE i = 2
    <3>1. Text(a)[1] = Text(b)[1] /\ Text(a)[2] < Text(b)[2]
        BY <2>1, <2>3
    <3>2. QED
        BY <1>1, <1>4, <3>1, DigitsOrder
  <2>4. CASE i > 2
    <3>1. Text(a)[1] = Text(b)[1] /\ Text(a)[2] = Text(b)[2]
        BY <1>2, <2>1, <2>4
    <3>2. QED
        BY <1>1, <1>4, <3>1, DigitsOrder
  <2>5. QED
      BY <1>2, <2>1, <2>2, <2>3, <2>4
<1>6. ASSUME Second(b) < Second(a) PROVE TextLess(b, a)
  <2>1. 1 \in DOMAIN Text(b) \cap DOMAIN Text(a) /\ 2 \in DOMAIN Text(b) \cap DOMAIN Text(a)
      BY <1>2, <1>3
  <2>2. CASE Text(b)[1] < Text(a)[1]
      BY <2>1, <2>2 DEF TextLess
  <2>3. CASE Text(b)[1] = Text(a)[1] /\ Text(b)[2] < Text(a)[2]
    <3>1. \A j \in 1..2 - 1 : Text(b)[j] = Text(a)[j]
        BY <2>3
    <3>2. QED
        BY <2>1, <2>3, <3>1 DEF TextLess
  <2>4. CASE Text(a)[1] < Text(b)[1]
      BY <1>1, <1>4, <1>6, <2>4, DigitsOrder
  <2>5. CASE Text(b)[1] = Text(a)[1] /\ Text(a)[2] <= Text(b)[2]
      BY <1>1, <1>4, <1>6, <2>5, DigitsOrder
  <2>6. QED
      BY <1>4, <2>2, <2>3, <2>4, <2>5
<1>7. QED
    BY <1>1, <1>5, <1>6

\* A link goes only from the second on in which it or its content ends, and
\* starts an upload only up to the second in which it ends.
LEMMA DatesStep ==
    ASSUME GenInv, GenNext
    PROVE  /\ \A l \in DOMAIN links \ DOMAIN links' :
                 Second(now) >= Second(IF links[l].used_at = NULL THEN links[l].valid_until
                                       ELSE links[l].content_expires_at)
           /\ \A l \in DOMAIN links \cap DOMAIN links' :
                 links'[l].started /\ ~links[l].started =>
                     Second(now) <= Second(links[l].valid_until)
<1>1. now \in Dates /\ \A l \in DOMAIN links : links[l] \in LinkType
    BY DEF GenInv, GenTypeOK
<1>2. CASE DeleteExpired
  <2>1. \A l \in DOMAIN links \cap DOMAIN links' : links'[l] = links[l]
      BY <1>2 DEF DeleteExpired
  <2>2. ASSUME NEW l \in DOMAIN links \ DOMAIN links'
        PROVE  Second(now) >= Second(IF links[l].used_at = NULL THEN links[l].valid_until
                                     ELSE links[l].content_expires_at)
    <3>1. HasExpired(l)
        BY <1>2, <2>2 DEF DeleteExpired
    <3>2. links[l].used_at = NULL => links[l].content_expires_at = NULL
        BY <2>2 DEF GenInv, UnusedLinksUndated
    <3>3. PICK date : /\ date = IF links[l].used_at = NULL THEN links[l].valid_until
                                ELSE links[l].content_expires_at
                      /\ date # NULL /\ ~TextLess(now, date)
        BY <3>1, <3>2 DEF HasExpired, ColumnLeq
    <3>4. date \in Dates
        BY <1>1, <3>3 DEF LinkType
    <3>5. Second(date) <= Second(now)
        BY <1>1, <3>3, <3>4, TextsOrder
    <3>6. QED
        BY <1>1, <3>3, <3>4, <3>5, SecondIsNat
  <2>3. QED
      BY <2>1, <2>2
<1>3. ASSUME NEW l \in DOMAIN links, UseLink(l)
      PROVE  /\ DOMAIN links' = DOMAIN links
             /\ \A k \in DOMAIN links : links'[k].started /\ ~links[k].started =>
                    Second(now) <= Second(links[k].valid_until)
  <2>1. /\ DOMAIN links' = DOMAIN links
        /\ \A k \in DOMAIN links : k # l => links'[k] = links[k]
      BY <1>3 DEF UseLink, StartUpload, SealLink
  <2>2. CASE StartUpload(l)
    <3>1. TextLess(now, links[l].valid_until) /\ links[l].valid_until \in Dates
        BY <1>1, <2>2 DEF StartUpload, ColumnGreater, LinkType
    <3>2. Second(now) <= Second(links[l].valid_until)
        BY <1>1, <3>1, TextsOrder
    <3>3. QED
        BY <2>1, <3>2
  <2>3. CASE SealLink(l)
      BY <2>1, <2>3 DEF SealLink
  <2>4. QED
      BY <1>3, <2>2, <2>3 DEF UseLink
<1>4. CASE \E r \in GenRequests : MakeLink(r)
  <2>1. PICK r \in GenRequests : MakeLink(r)
      BY <1>4
  <2>2. /\ DOMAIN links \subseteq DOMAIN links'
        /\ \A l \in DOMAIN links : l # r => links'[l] = links[l]
        /\ r \in DOMAIN links /\ ~UNCHANGED links => ~links'[r].started
      BY <2>1 DEF MakeLink
  <2>3. QED
      BY <2>2
<1>5. CASE UNCHANGED links
    BY <1>5
<1>6. QED
    BY <1>2, <1>3, <1>4, <1>5
       DEF GenNext, Administer, CreateAccount, ChangePassword, HandleGen, Arrive,
           Authenticate, ReadForm, TimePasses

\* Dates that are compared as texts still end links to the second, whatever
\* the digits and the fractions of a second.
THEOREM DatesKept == GenSpec => DatesKeptToTheSecond
<1>1. GenInv /\ [GenNext]_genVars =>
          [/\ \A l \in DOMAIN links \ DOMAIN links' :
                 Second(now) >= Second(IF links[l].used_at = NULL THEN links[l].valid_until
                                       ELSE links[l].content_expires_at)
           /\ \A l \in DOMAIN links \cap DOMAIN links' :
                 links'[l].started /\ ~links[l].started =>
                     Second(now) <= Second(links[l].valid_until)]_genVars
    BY DatesStep
<1>2. QED
    BY <1>1, GenInitTyped, GenStepTyped, PTL DEF GenSpec, DatesKeptToTheSecond
=============================================================================
