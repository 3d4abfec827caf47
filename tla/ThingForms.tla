------------------------------ MODULE ThingForms ------------------------------
(***************************************************************************)
(* What a runtime accepts of a Thing Description before it consumes it:    *)
(* the operation registry (binding/registry.ts, operation-policy.ts), the  *)
(* native and Event Forms (binding/forms.ts, events/contracts.ts) and      *)
(* their targets and security (SecurityPolicy).  Pure.                     *)
(***************************************************************************)
EXTENDS SecurityPolicy, Requirements

\* nativeOperationPolicy(): reviewed reads are safe and repeatable; events,
\* searches and one-way messages are stateful; nothing else is classified.
ReviewedReads == {"profiles", "topics"}
NativeOperationPolicy(o) ==
  LET safe == ~o.oneWay /\ o.id \in ReviewedReads
  IN [access |-> IF safe THEN "read" ELSE IF o.ns = "events" \/ o.oneWay THEN "stateful" ELSE "unclassified",
      mode |-> IF o.oneWay THEN "one-way" ELSE "request-response", safe |-> safe]
Descriptor(o) == [operation |-> o, policy |-> NativeOperationPolicy(o)]

\* assertOperationDescriptor() and defineOperationRegistry(): an execution
\* policy that agrees with the message exchange, and one descriptor per tuple.
DescriptorSound(d) ==
  /\ d.policy.access \in {"preauth", "read", "write", "actuate", "stateful", "unclassified"}
  /\ (d.policy.mode = "one-way") = d.operation.oneWay
  /\ d.operation.oneWay => ~d.policy.safe
OperationKey(o) == <<o.ns, o.port, o.name>>
DefineOperationRegistry(descriptors) ==
  IF \/ \E d \in descriptors : ~DescriptorSound(d)
     \/ \E d, e \in descriptors : d # e /\ OperationKey(d.operation) = OperationKey(e.operation)
  THEN Refusal
  ELSE [key \in {OperationKey(d.operation) : d \in descriptors} |->
          CHOOSE d \in descriptors : OperationKey(d.operation) = key]
Registry == DefineOperationRegistry({Descriptor(o) : o \in Operations})

-----------------------------------------------------------------------------
\* validateNativeForm(): a registered operation, every descriptor of which is
\* implemented.
ValidateNativeForm(form, registry) ==
  /\ OperationKey(form.operation) \in DOMAIN registry
  /\ LET d == registry[OperationKey(form.operation)]
     IN d.operation.compiled /\ (d.operation.oneWay => d.policy.mode = "one-way")

\* validateEventForm() and resolveSubscription(): the PullPoint lifecycle is
\* registered, implemented and answered.
Lifecycle == {<<"events", "P", name>> : name \in {"create", "pull", "unsubscribe"}}
ValidateEventForm(registry) ==
  \A key \in Lifecycle : key \in DOMAIN registry /\ registry[key].operation.compiled /\ ~registry[key].operation.oneWay

\* prepareDescription(): the TD is of this registry, every Form is authorised
\* and selects security, and one Action has one native contract.
TargetOf(form) == [origin |-> form.href, path |-> "/"]
PrepareForm(form, definitions, trust, principal) ==
  /\ AuthorizeTarget(TargetOf(form), trust, principal)
  /\ SelectSecurity(definitions, form.security, TRUE) # Refused
PrepareDescription(td, definitions, trust, principal, registry) ==
  /\ td.registry = registry
  /\ \A form \in td.forms :
       PrepareForm(form, definitions, trust, principal) /\ ValidateNativeForm(form, registry)
  /\ \A f, g \in td.forms : f.action = g.action => OperationKey(f.operation) = OperationKey(g.operation)
  /\ \A form \in td.events :
       PrepareForm(form, definitions, trust, principal) /\ ValidateEventForm(registry)
=============================================================================
