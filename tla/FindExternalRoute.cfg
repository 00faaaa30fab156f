CONSTANTS
  MaxLines = 3
  MaxEdits = 2
SPECIFICATION RoutingSpec
PROPERTIES ExternalRouteIsLeftAlone
