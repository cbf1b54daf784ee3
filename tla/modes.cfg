SPECIFICATION Spec
INVARIANTS ValidationIsExact ModesAgree ObjectsAreDestroyed
