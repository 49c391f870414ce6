------------------------------ MODULE MCAdminUI ------------------------------
(***************************************************************************)
(* Instances of AdminUI for TLC: the names, as sequences of their parts,   *)
(* and the configurations that are there when the page opens.              *)
(***************************************************************************)
EXTENDS AdminUI

NameParts ==
    {"b", "d", "n", "size", "max_dynamic_buckets", "default_bucket",
     "dynamic_bucket_template", "___DYNAMIC_BUCKET_TPL___"}

OneNamespace == {<<"n">>}
TemplateOnly == {DynamicTemplate}
TemplateAndOne == {<<"b">>, DynamicTemplate}
OneSearch == {<<"d">>}

NewServer == {<<>>}

\* Every namespace with every bucket, all at their defaults.
FullNamespace ==
    [NewNamespace EXCEPT !.buckets =
        [p \in BucketPaths |-> [f \in Fields |-> Default]]]

FullServer ==
    {<<[version |-> 1, items |-> [n \in Namespaces |-> FullNamespace]]>>}
=============================================================================
