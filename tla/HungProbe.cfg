SPECIFICATION Spec
PROPERTY ProbesAnswer
