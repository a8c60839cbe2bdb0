\* A table: two of the fields an ALTER can say are not read back.
SPECIFICATION Spec
CONSTANTS
  Classes = {"Table"}
  MaxTouched = 2
PROPERTIES ReadFieldsSettle
