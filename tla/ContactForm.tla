------------------------------- MODULE ContactForm -------------------------------
(***************************************************************************)
(* The contact form of the main site: components/sections/ContactForm.tsx, *)
(* lib/contact.ts and the function behind it, api/contact.ts, with the     *)
(* mail provider it forwards to.                                           *)
(*                                                                         *)
(* Organization, service and timeline are optional or preset and left out. *)
(* Lengths are bounded by the inputs more tightly than by the function.    *)
(***************************************************************************)
EXTENDS Integers

CONSTANT Messages    \* what visitors write

VARIABLES
  values,     \* the fields of the form
  errors,     \* fields that are marked
  status,     \* idle, submitting or done
  result,     \* the outcome that is shown
  draft,      \* an email draft is offered
  post,       \* the request in flight: its stage and its body
  mailed,     \* bodies the mail provider has accepted
  hasKey      \* the function has its credentials

contactVars == <<values, errors, status, result, draft, post, mailed, hasKey>>

-----------------------------------------------------------------------------
Empty == ""

Contents ==
  [name : {Empty, "given"}, email : {Empty, "broken", "given"}, message : {Empty} \cup Messages]

Nothing == "none"

Body == [name |-> values.name, email |-> values.email, message |-> values.message]

NoPost == [stage |-> "none", body |-> [name |-> Empty, email |-> Empty, message |-> Empty]]

ContactInit ==
  /\ values = [name |-> Empty, email |-> Empty, message |-> Empty, website |-> Empty]
  /\ errors = {}
  /\ status = "idle"
  /\ result = Nothing
  /\ draft = FALSE
  /\ post = NoPost
  /\ mailed = {}
  /\ hasKey \in BOOLEAN

-----------------------------------------------------------------------------
(* Wrong: an edit leaves the last outcome in place.                        *)
AfterEditKept == result

(* What is shown of the last outcome after an edit.                        *)
AfterEdit == Nothing

(* The visible fields are disabled during a submission, not the honeypot.  *)
Type(field, v) ==
  /\ field = "website" \/ status # "submitting"
  /\ values' = [values EXCEPT ![field] = v]
  /\ draft' = FALSE
  /\ result' = AfterEdit
  /\ UNCHANGED <<errors, status, post, mailed, hasKey>>

Invalid ==
  {field \in {"name", "message"} : values[field] = Empty}
    \cup (IF values.email = "given" THEN {} ELSE {"email"})

(* onSubmit: nothing while a request is in flight or the honeypot filled.  *)
Submit ==
  /\ status # "submitting" /\ values.website = Empty
  /\ errors' = Invalid
  /\ IF Invalid = {}
     THEN status' = "submitting" /\ post' = [stage |-> "sent", body |-> Body]
     ELSE UNCHANGED <<status, post>>
  /\ UNCHANGED <<values, result, draft, mailed, hasKey>>

-----------------------------------------------------------------------------
(* What the function makes of a body before it comes to the mail: 400, 503 *)
(* or the mail.  Its refusals of other methods and of a filled honeypot    *)
(* concern other callers, the form sends neither.                          *)
Checked(body) ==
  IF body.name = Empty \/ body.email # "given" \/ body.message = Empty THEN "refused"
  ELSE IF hasKey THEN "forward" ELSE "unconfigured"

(* The request is lost, refused, or forwarded to the mail provider, which  *)
(* refuses it, accepts it, or accepts it and its answer is lost.           *)
Handle ==
  /\ post.stage = "sent"
  /\ \/ post' = [post EXCEPT !.stage = "lost"] /\ UNCHANGED mailed
     \/ /\ Checked(post.body) # "forward"
        /\ post' = [post EXCEPT !.stage = Checked(post.body)]
        /\ UNCHANGED mailed
     \/ /\ Checked(post.body) = "forward"
        /\ \/ post' = [post EXCEPT !.stage = "failed"] /\ UNCHANGED mailed
           \/ /\ mailed' = mailed \cup {post.body}
              /\ \E answer \in {"ok", "failed"} : post' = [post EXCEPT !.stage = answer]
  /\ UNCHANGED <<values, errors, status, result, draft, hasKey>>

(* The answer of the function may be lost on its way, or come garbled.     *)
Confirmed == post.stage = "ok"

Conclude ==
  /\ post.stage \notin {"none", "sent"}
  /\ \E sent \in {FALSE, Confirmed} :
       /\ result' = IF sent THEN "sent" ELSE "error"
       /\ draft' = ~sent
  /\ status' = "done"
  /\ post' = NoPost
  /\ UNCHANGED <<values, errors, mailed, hasKey>>

ContactNext ==
  \/ \E field \in {"name", "email", "message", "website"}, v \in {Empty, "broken", "given"} \cup Messages :
       /\ IF field = "website" THEN v \in {Empty, "given"}
          ELSE \E c \in Contents : c[field] = v
       /\ Type(field, v)
  \/ Submit
  \/ Handle
  \/ Conclude

ContactSpec == ContactInit /\ [][ContactNext]_contactVars

-----------------------------------------------------------------------------
Received == status = "done" /\ result = "sent"

(* The form thanks only for what the mail provider has accepted, in the    *)
(* very words that are on the screen, and offers a draft only of what is   *)
(* on the screen and was not confirmed, whatever is typed while a request  *)
(* is in flight and however often it is sent again.  What it lets through  *)
(* the function never refuses.                                             *)
ContactIsHonest ==
  /\ Received => Body \in mailed /\ ~draft
  /\ draft => status # "idle" /\ Invalid = {}
  /\ post.stage # "refused"
  /\ post.stage # "none" => status = "submitting" /\ post.body = Body
=============================================================================
