---------------------------- MODULE MCTerraform ----------------------------
(* Instances of TerraformApplier for TLC. *)
EXTENDS TerraformApplier, TLC

CONSTANTS web, job, bucket, table, file, admin, reader, app, data, aws_s3_bucket_b, aws_s3_bucket_c

TwoRoles       == {web, job}
TwoResources   == {bucket, table}
OneResource    == {bucket}
WithFile       == {Bare, Star, file}
OnlyBare       == {Bare, Star}
OneAttachment  == {admin}
TwoAttachments == {admin, reader}
OneModule      == {app}
TwoModules     == {app, data}
TwoLabels      == {aws_s3_bucket_b, aws_s3_bucket_c}

ModulesInRoot == [k \in Modules |-> Root]
OwnNames      == {<<r, r>> : r \in Roles}

OwnLabels == [k \in Resources |-> IF k = bucket THEN aws_s3_bucket_b ELSE aws_s3_bucket_c]
OneLabel  == [k \in Resources |-> aws_s3_bucket_b]

Layout(home, address, exported, attached, shown, literal) ==
  [home |-> home, address |-> address, exported |-> exported,
   attached |-> attached, shown |-> shown, literal |-> literal]

Homes == [Roles \cup Resources \cup Attachments -> Places \cup {None, Unlabelled}]

Unattached == [a \in Attachments |-> {}]

(* A role of a module and another role beside it, in another module or in    *)
(* main.tf; resources in every place, with one address or two, and with an   *)
(* output of the user's for one of them.                                     *)
Plumbing ==
  LET homes == {h \in Homes : /\ h[web] = app /\ h[job] \in Places
                              /\ h[bucket] \in {Root, app, data}
                              /\ h[table] \in {Root, data, None, Unlabelled}
                              /\ \A a \in Attachments : h[a] = Root}
  IN  {Layout(h, OwnLabels, {}, Unattached, {}, TRUE) : h \in homes}
      \cup {Layout(h, OwnLabels, {bucket}, Unattached, {}, TRUE) :
              h \in {g \in homes : g[bucket] = data /\ g[table] = Root}}
      \cup {Layout(h, OneLabel, {}, Unattached, {}, TRUE) :
              h \in {g \in homes : g[bucket] = Root /\ g[table] = data}}

(* Roles in attachments that the state file shows or hides, which name them  *)
(* by string or by address, and have a block or none; a role is nowhere.     *)
Attaching ==
  LET homes == {h \in Homes : /\ h[web] = app /\ h[job] \in {Root, None}
                              /\ h[bucket] = Root /\ h[table] = Root
                              /\ h[admin] = app /\ h[reader] \in {Root, None}}
      attached == {[a \in Attachments |-> {web, job}],
                   [a \in Attachments |-> IF a = admin THEN {web} ELSE {job}]}
  IN  {Layout(h, OwnLabels, {}, t, s, n) :
         h \in homes, t \in attached, s \in {{reader}, {admin, reader}}, n \in BOOLEAN}

PlumbingAndAttaching == Plumbing \cup Attaching

(* All in main.tf, with one attachment or two. *)
OneFile ==
  LET home == [k \in Roles \cup Resources \cup Attachments |-> Root]
  IN  {Layout(home, OwnLabels, {}, l, Attachments, FALSE) : l \in [Attachments -> SUBSET Roles]}

Arn(x, o) == [resource |-> x, object |-> o]

(* One action, with a file of the bucket; two actions, the first with a      *)
(* statement of all the bucket and one of the bucket and a part of the table. *)
Advice == { << << <<Arn(bucket, file)>> >> >>,
            << << <<Arn(bucket, Star)>>, <<Arn(bucket, Bare), Arn(table, file)>> >>,
               << <<Arn(table, Star)>> >> >> }

SmallAdvice == {<< << <<Arn(bucket, Star)>> >> >>}
=============================================================================
