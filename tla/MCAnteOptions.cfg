SPECIFICATION Spec
INVARIANT BuiltOnlyWhenComplete
