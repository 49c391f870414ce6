-------------------------- MODULE MCBucketContainer --------------------------
(***************************************************************************)
(* Instances of BucketContainer for TLC: one namespace with two or three   *)
(* bucket names, which configurations make static or dynamic, with or      *)
(* without defaults, or leave out altogether.                              *)
(***************************************************************************)
EXTENDS BucketContainer, TLC

CONSTANTS c1, c2, ns1, x, y, z

Reapable == [rate |-> 1, reapable |-> TRUE]
Plain == [rate |-> 2, reapable |-> FALSE]

NoStatic == [name \in Names |-> None]
StaticX == [NoStatic EXCEPT ![x] = Plain]

\* Dynamic buckets that are reaped, at most "max" of them.
Templated(max) ==
  [template |-> Reapable, default |-> None, max |-> max, static |-> NoStatic]

\* Dynamic buckets that live for ever.
Unreaped == [template |-> Plain, default |-> None, max |-> 1, static |-> NoStatic]

\* Static x and a template for the other names.
Mixed == [template |-> Reapable, default |-> None, max |-> 1, static |-> StaticX]

\* Static x and a default bucket for the other names.
Static == [template |-> None, default |-> Plain, max |-> 0, static |-> StaticX]

Config(default, nsCfg) ==
  [default |-> default, namespaces |-> [n \in Namespaces |-> nsCfg]]

MCServiceConfigs ==
  {Config(None, Templated(2)), Config(Plain, Mixed), Config(None, Static),
   Config(None, Unreaped), Config(Plain, None)}

\* No limit on dynamic buckets.
MCUnlimited == {Config(None, Templated(0))}

MCTemplated == {Config(None, Templated(1)), Config(None, Templated(2))}

MCBuckets == 1..12

\* Callers are interchangeable.  Used only by runs that check no liveness.
CallerSymmetry == Permutations(Callers)

=============================================================================
