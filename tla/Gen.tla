-------------------------------- MODULE Gen --------------------------------
(***************************************************************************)
(* What the modules over VracDB take for granted of a link: who may create *)
(* one, what the form of /gen says, how its dates are computed in machine  *)
(* words, and how they compare once they are texts in the database.        *)
(* (src/src/auth.rs, src/src/bin/admin.rs, src/src/handlers/gen.rs and the *)
(* date arithmetic of src/src/db.rs.)                                      *)
(*                                                                         *)
(* Instants are numbers: FractionsInSecond of them make a second.  Numbers *)
(* are scaled down and keep their order: an hour is HourSeconds seconds, a *)
(* u64 is below WordSize, and the last date that the library can hold,     *)
(* LastInstant, is far below what a word holds.                            *)
(***************************************************************************)
EXTENDS Integers, Sequences

CONSTANTS
    GenRequests,      \* the POST /gen requests of the run
    ByClient,         \* those that vrac upload makes
    Users, Passwords,
    Paths,
    ValidHours,       \* what token-valid-for-hour may hold
    ContentFields,    \* what the field content-expires may hold
    NoneText,         \* the text "None"
    Junk,             \* a text that is neither "None" nor a number
    Absent,           \* the field is not in the form
    HourSeconds, WordSize,
    Base,             \* the seconds of a date are two digits in this base
    Fractions,        \* the fractions of a second, as digits, in their order
    NULL

FractionsInSecond == Len(Fractions)
LastInstant == Base * Base * FractionsInSecond - 1

IsHalfWord(h) == -WordSize <= 2 * h /\ 2 * h < WordSize

ASSUME GenConstantsOK ==
    /\ ByClient \subseteq GenRequests
    /\ {WordSize, Base} \subseteq Nat \ {0}
    /\ HourSeconds \in Nat \ {0, 1}
    /\ Fractions \in Seq(Seq(0..9)) /\ Fractions # <<>>
    /\ ValidHours \subseteq 0..WordSize - 1
    /\ {NoneText, Junk, Absent, NULL} \cap Int = {}
    /\ \A h \in ContentFields \ {NoneText, Junk, Absent} : h \in Int /\ IsHalfWord(h)

VARIABLES
    now,
    account,          \* table account: username -> password, known by its phc
    gen,              \* the requests
    links             \* table token, each row under the request that made it

genVars == <<now, account, gen, links>>

\* held is history: the password was the user's at some moment since the
\* request arrived.
GenType ==
    [pc : {"start", "arrived", "body", "create", "done"},
     user : Users \cup {NULL},
     password : Passwords \cup {NULL},
     held : BOOLEAN,
     path : Paths \cup {NULL},
     content : ContentFields \cup {NULL},
     valid : ValidHours \cup {NULL},
     answer : {"none", "created", "unauthorized", "server_error",
               "bad_request", "conflict", "cut_off"}]

Dates == 0..LastInstant

\* created, asked and trusted are history.
LinkType ==
    [path : Paths,
     valid_until : Dates,
     content_expires_after_hours : ContentFields \cup {NULL},
     used_at : Dates \cup {NULL},
     content_expires_at : Dates \cup {NULL},
     started : BOOLEAN,
     created : Dates,
     asked : ValidHours,
     trusted : BOOLEAN]

GenTypeOK ==
    /\ now \in Dates
    /\ DOMAIN account \subseteq Users
    /\ account \in [DOMAIN account -> Passwords]
    /\ gen \in [GenRequests -> GenType]
    /\ DOMAIN links \subseteq GenRequests
    /\ links \in [DOMAIN links -> LinkType]

NoAnswerYet ==
    [pc |-> "start", user |-> NULL, password |-> NULL, held |-> FALSE,
     path |-> NULL, content |-> NULL, valid |-> NULL, answer |-> "none"]

GenInit ==
    /\ now = 0
    /\ account = [u \in {} |-> {}]
    /\ gen = [r \in GenRequests |-> NoAnswerYet]
    /\ links = [l \in {} |-> {}]

-----------------------------------------------------------------------------
(* Dates as texts: RFC 3339 with the fraction's trailing zeros cut off.    *)

Z == 10     \* 'Z' comes after every digit, and after the '.' of a fraction

Second(date) == date \div FractionsInSecond
Fraction(date) == Fractions[1 + (date % FractionsInSecond)]

\* Mutant: a number is not padded to its two digits.
TextUnpadded(date) ==
    LET s == Second(date) IN
    (IF s < Base THEN <<s>> ELSE <<s \div Base, s % Base>>)
        \o Fraction(date) \o <<Z>>

Text(date) ==
    LET s == Second(date) IN
    <<s \div Base, s % Base>> \o Fraction(date) \o <<Z>>

\* SQLite's `<` on two texts.  No text here is a prefix of another.
TextLess(a, b) ==
    LET x == Text(a)
        y == Text(b)
    IN  \E i \in DOMAIN x \cap DOMAIN y :
            x[i] < y[i] /\ \A j \in 1..i - 1 : x[j] = y[j]

\* `column <= ?` and `column > ?`, which are not true of NULL
ColumnLeq(date, other) == date # NULL /\ ~TextLess(other, date)
ColumnGreater(date, other) == date # NULL /\ TextLess(other, date)

-----------------------------------------------------------------------------
(* Durations in machine words                                              *)

\* Mutant: the magnitude of a negative number instead of its bits.
Magnitude(h) == IF h < 0 THEN -h ELSE h

\* h as u64
AsWord(h) == h % WordSize

\* 3600 * h as u64: past the word a debug build panics (NULL) and a release
\* build wraps around.
SecondsOf(h) ==
    LET p == HourSeconds * h IN
    IF p < WordSize THEN {p} ELSE {NULL, p % WordSize}

\* Mutant: the addition goes on past the last date.
UncheckedPlus(date, seconds) ==
    IF seconds = NULL THEN NULL ELSE date + FractionsInSecond * seconds

\* OffsetDateTime + Duration panics past the last date.
Plus(date, seconds) ==
    IF seconds = NULL \/ date + FractionsInSecond * seconds > LastInstant
    THEN NULL
    ELSE date + FractionsInSecond * seconds

-----------------------------------------------------------------------------
(* Accounts                                                                *)

\* The password becomes one of those that the requests under way may use.
NowHeld(u, p) ==
    gen' = [r \in GenRequests |->
        [gen[r] EXCEPT !.held = \/ @
                                \/ /\ gen[r].pc = "arrived"
                                   /\ gen[r].user = u
                                   /\ gen[r].password = p]]

\* vrac admin, add-user: a username is UNIQUE.
CreateAccount(u, p) ==
    /\ u \notin DOMAIN account
    /\ account' = [x \in DOMAIN account \cup {u} |->
                      IF x = u THEN p ELSE account[x]]
    /\ NowHeld(u, p)
    /\ UNCHANGED <<now, links>>

\* vrac admin, change-password: without a row to return it is an error.
ChangePassword(u, p) ==
    /\ u \in DOMAIN account
    /\ account' = [account EXCEPT ![u] = p]
    /\ NowHeld(u, p)
    /\ UNCHANGED <<now, links>>

-----------------------------------------------------------------------------
(* The request                                                             *)

\* Its head arrives.  NULL for the user is a missing or malformed header.
Arrive(r) ==
    /\ gen[r].pc = "start"
    /\ \E u \in Users \cup {NULL}, p \in Passwords \cup {NULL} :
          gen' = [gen EXCEPT
              ![r].pc = "arrived",
              ![r].user = u,
              ![r].password = p,
              ![r].held = u \in DOMAIN account /\ account[u] = p]
    /\ UNCHANGED <<now, account, links>>

Answer(r, a) ==
    gen' = [gen EXCEPT ![r] = [NoAnswerYet EXCEPT !.pc = "done", !.answer = a]]

\* Mutant: any password of a known user.
KnownUser(user, password) == password # NULL /\ user \in DOMAIN account

Verified(user, password) ==
    /\ password # NULL
    /\ user \in DOMAIN account
    /\ account[user] = password

\* The extractor Admin: the lookup of the account, and the verification of
\* the password against the phc that was found.
Authenticate(r) ==
    /\ gen[r].pc = "arrived"
    /\ \/ /\ Verified(gen[r].user, gen[r].password)
          /\ gen' = [gen EXCEPT ![r].pc = "body",
                                ![r].user = NULL,
                                ![r].password = NULL]
       \/ /\ ~Verified(gen[r].user, gen[r].password)
          /\ Answer(r, "unauthorized")
       \/ /\ gen[r].user # NULL /\ gen[r].password # NULL
          /\ Answer(r, "server_error")
    /\ UNCHANGED <<now, account, links>>

\* serialize_opt_str
Encode(hours) == IF hours = NULL THEN NoneText ELSE hours

\* deserialize_sentinel, for a field without a default
Understood(field) == field \notin {Junk, Absent}
Decode(field) == IF field = NoneText THEN NULL ELSE field

\* What the field of a request holds: vrac upload serializes its option.
FieldsOf(r) ==
    IF r \in ByClient
    THEN {Encode(Decode(f)) : f \in {g \in ContentFields : Understood(g)}}
    ELSE ContentFields

\* The body is there, any time after the extractor Admin has run.
ReadForm(r) ==
    /\ gen[r].pc = "body"
    /\ \E path \in Paths, field \in FieldsOf(r), h \in ValidHours :
          IF Understood(field)
          THEN gen' = [gen EXCEPT ![r].pc = "create",
                                  ![r].path = path,
                                  ![r].content = Decode(field),
                                  ![r].valid = h]
          ELSE Answer(r, "bad_request")
    /\ UNCHANGED <<now, account, links>>

\* The rows that the query of get_valid_token may stop at, the first of
\* which it looks at.  Their rowids are VracDB's matter: here it may be any.
Matching(path) ==
    {l \in DOMAIN links :
        /\ links[l].path = path
        /\ \/ ColumnGreater(links[l].valid_until, now)
           \/ links[l].content_expires_at = NULL
           \/ ColumnGreater(links[l].content_expires_at, now)}

\* The row that was read is Fresh or Used.  These are dates, not texts.
IsValid(l) ==
    ~(links[l].content_expires_at # NULL /\ links[l].content_expires_at <= now)

MayBeTaken(path) == \E l \in Matching(path) : IsValid(l)
MayBeFree(path) ==
    Matching(path) = {} \/ \E l \in Matching(path) : ~IsValid(l)

\* The rest of create_token, from now_utc() on.
MakeLink(r) ==
    /\ gen[r].pc = "create"
    /\ \E s \in SecondsOf(gen[r].valid) :
          LET until == Plus(now, s) IN
          \/ /\ until = NULL
             /\ Answer(r, "cut_off")
             /\ UNCHANGED links
          \/ /\ until # NULL
             /\ Answer(r, "server_error")
             /\ UNCHANGED links
          \/ /\ until # NULL /\ MayBeTaken(gen[r].path)
             /\ Answer(r, "conflict")
             /\ UNCHANGED links
          \/ /\ until # NULL /\ MayBeFree(gen[r].path)
             /\ links' = [l \in DOMAIN links \cup {r} |->
                   IF l # r THEN links[l] ELSE
                   [path |-> gen[r].path,
                    valid_until |-> until,
                    content_expires_after_hours |-> gen[r].content,
                    used_at |-> NULL,
                    content_expires_at |-> NULL,
                    started |-> FALSE,
                    created |-> now,
                    asked |-> gen[r].valid,
                    trusted |-> gen[r].held]]
             /\ Answer(r, "created")
    /\ UNCHANGED <<now, account>>

-----------------------------------------------------------------------------
(* What becomes of a link                                                  *)

\* db.initiate_upload
StartUpload(l) ==
    /\ links[l].used_at = NULL
    /\ ColumnGreater(links[l].valid_until, now)
    /\ links' = [links EXCEPT ![l].started = TRUE]
    /\ UNCHANGED <<now, account, gen>>

\* db.finalise_token_upload, any time later.  When it panics the request is
\* cut off and the link stays as it was.
SealLink(l) ==
    /\ links[l].started
    /\ links[l].used_at = NULL
    /\ LET h == links[l].content_expires_after_hours IN
       \/ /\ h = NULL
          /\ links' = [links EXCEPT ![l].used_at = now]
       \/ /\ h # NULL
          /\ \E s \in SecondsOf(AsWord(h)) :
                /\ Plus(now, s) # NULL
                /\ links' = [links EXCEPT ![l].used_at = now,
                                          ![l].content_expires_at = Plus(now, s)]
    /\ UNCHANGED <<now, account, gen>>

HasExpired(l) ==
    \/ ColumnLeq(links[l].content_expires_at, now)
    \/ links[l].used_at = NULL /\ ColumnLeq(links[l].valid_until, now)

\* db.delete_expired_tokens, for links whose files are gone
DeleteExpired ==
    /\ links' = [l \in {k \in DOMAIN links : ~HasExpired(k)} |-> links[l]]
    /\ UNCHANGED <<now, account, gen>>

TimePasses ==
    /\ now < LastInstant
    /\ now' = now + 1
    /\ UNCHANGED <<account, gen, links>>

Administer ==
    \E u \in Users, p \in Passwords : CreateAccount(u, p) \/ ChangePassword(u, p)

HandleGen(r) == Arrive(r) \/ Authenticate(r) \/ ReadForm(r) \/ MakeLink(r)

UseLink(l) == StartUpload(l) \/ SealLink(l)

GenNext ==
    \/ Administer
    \/ \E r \in GenRequests : HandleGen(r)
    \/ \E l \in DOMAIN links : UseLink(l)
    \/ DeleteExpired
    \/ TimePasses

GenSpec == GenInit /\ [][GenNext]_genVars

-----------------------------------------------------------------------------
(* Properties                                                              *)

\* Every link was asked for by a request whose password was the one of its
\* user at some moment since the request arrived, however the administrator
\* changes passwords while the request waits for its account or its body.
\* It need not be the password any more when the link is created: the body
\* is read after the extractor has run, and may be slow.
LinksComeFromAdmins == \A l \in DOMAIN links : links[l].trusted

\* A link and its content last exactly as long as the form asked, unless
\* the number of seconds does not fit the word; and no content has a date to
\* expire that a negative number of hours gave it, unless likewise.
LifetimesAsAsked ==
    \A l \in DOMAIN links :
        LET link == links[l]
            h == link.content_expires_after_hours
            hour == HourSeconds * FractionsInSecond
        IN  /\ HourSeconds * link.asked < WordSize =>
                   link.valid_until = link.created + hour * link.asked
            /\ link.used_at # NULL /\ h # NULL /\ HourSeconds * AsWord(h) < WordSize =>
                   /\ h >= 0
                   /\ link.content_expires_at = link.used_at + hour * h

\* The dates are compared as texts, and still a link is never deleted before
\* the second in which it or its content ends, nor taken for valid, by an
\* upload that starts, after that second.
DatesKeptToTheSecond ==
    [][/\ \A l \in DOMAIN links \ DOMAIN links' :
             Second(now) >=
                 Second(IF links[l].used_at = NULL THEN links[l].valid_until
                        ELSE links[l].content_expires_at)
       /\ \A l \in DOMAIN links \cap DOMAIN links' :
             links'[l].started /\ ~links[l].started =>
                 Second(now) <= Second(links[l].valid_until)]_genVars
=============================================================================
